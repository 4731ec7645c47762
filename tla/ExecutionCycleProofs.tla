------------------------- MODULE ExecutionCycleProofs -------------------------
(***************************************************************************)
(* Theorems about ExecutionCycle for any task, events and threshold.       *)
(*                                                                         *)
(* The reference only moves forward between two resets, and the state the  *)
(* router has committed is the reference.  So an event that is entered in  *)
(* sight is not decided yet, its grace begins there, and it is unresolved  *)
(* until a motion decides it; and the one state behind its interval that   *)
(* has its grace is reached once.                                          *)
(***************************************************************************)
EXTENDS ExecutionCycle, WellFoundedInduction, TLAPS

RouterSet == [confirmed : SUBSET Events, rejected : SUBSET Events,
              unresolved : SUBSET Events, committed : States \cup {NoState},
              trusted : {"none", "zero", "positive"}]

Typed ==
  /\ ref \in States /\ executed \in {NoState, ref}
  /\ spread \in BOOLEAN /\ estimated \in States
  /\ stable \in Relations \cup {"none"} /\ evidence \in Relations \cup {"none"}
  /\ sighted \in Sights /\ mismatch \in 0 .. Persist
  /\ router \in RouterSet
  /\ behind \subseteq Events /\ entered \subseteq Events
  /\ probes \in [Events -> Nat] /\ tested \in BOOLEAN

\* The router and the filter are where the reference is.
Aligned ==
  /\ SameSkill(ref, estimated)
  /\ router.committed \in {NoState, ref}

\* Which events are decided, have their grace or have had it behind their interval.
Windows ==
  /\ router.unresolved \subseteq behind
  /\ router.unresolved \cap Settled(router) = {}
  /\ \A e \in Settled(router) : FirstOf(e) <= ref
  /\ router.committed # NoState => {e \in Events : ref < FirstOf(e)} \subseteq behind
  /\ router.committed = NoState => behind = {}
  /\ \A e \in Events : /\ probes[e] <= 1
                       /\ probes[e] = 1 => router.committed # NoState /\ LastOf(e) < ref

\* What is remembered is tested; what is entered in sight is unresolved.
Remembered ==
  /\ stable # "none" \/ evidence # "none" => tested
  /\ entered \subseteq router.unresolved
  /\ last.own => entered \cap last.unasked = {}

IInv == Typed /\ Aligned /\ Windows /\ Remembered

-----------------------------------------------------------------------------
\* The states of the task and the intervals of its events.

LEMMA Constants ==
  /\ LastState \in Nat /\ Persist \in Nat \ {0}
  /\ Skill \in [States -> Nat]
  /\ \A s, u \in States : s <= u => Skill[s] <= Skill[u]
  /\ Entry \in [Events -> SUBSET States] /\ Owned \in [Events -> SUBSET States]
BY ConstantsAssumption

\* A set of states has a last one.
LEMMA GreatestState ==
  ASSUME NEW S \in SUBSET States, S # {}
  PROVE  \E s \in S : \A u \in S : u <= s
<1> DEFINE Below == {p \in Nat \X Nat : p[1] < p[2]}
           T == {LastState - s : s \in S}
<1>1. T \in SUBSET Nat /\ T # {}
  <2>1. \A s \in S : LastState - s \in Nat
    BY Constants DEF States
  <2>2. QED
    BY <2>1
<1>2. IsWellFoundedOn(Below, Nat)
  BY NatLessThanWellFounded DEF OpToRel
<1> HIDE DEF T
<1>3. PICK m \in T : \A n \in T : ~ (<<n, m>> \in Below)
  BY <1>1, <1>2, WFMin
<1>4. \A n \in T : ~ (n < m)
  BY <1>1, <1>3
<1>5. PICK s \in S : m = LastState - s
  BY DEF T
<1>6. \A u \in S : ~ (LastState - u < LastState - s)
  BY <1>4, <1>5 DEF T
<1>7. QED
  BY <1>6, Constants DEF States

\* The last state of a skill is behind all of it.
LEMMA Terminals ==
  ASSUME NEW s \in States
  PROVE  /\ Terminal(s) \in States /\ SameSkill(s, Terminal(s)) /\ s <= Terminal(s)
         /\ \A u \in States : SameSkill(s, u) => Terminal(u) = Terminal(s)
<1> DEFINE T == {u \in States : SameSkill(s, u)}
<1>1. PICK t \in T : \A u \in T : u <= t
  BY GreatestState DEF SameSkill
<1>2. t = LastState \/ ~SameSkill(t, Successor(t))
  <2>1. ASSUME t # LastState, SameSkill(t, Successor(t)) PROVE FALSE
    <3>1. Successor(t) \in States
      BY <2>1, Constants DEF States, Successor
    <3>2. Successor(t) \in T
      BY <2>1, <3>1 DEF SameSkill
    <3>3. QED
      BY <1>1, <3>2, Constants DEF States, Successor
  <2>2. QED
    BY <2>1
<1>3. \E u \in States : SameSkill(s, u) /\ (u = LastState \/ ~SameSkill(u, Successor(u)))
  BY <1>1, <1>2
<1>4. Terminal(s) \in States /\ SameSkill(s, Terminal(s))
      /\ (Terminal(s) = LastState \/ ~SameSkill(Terminal(s), Successor(Terminal(s))))
  BY <1>3 DEF Terminal
<1>5. s <= Terminal(s)
  <2>1. ASSUME Terminal(s) < s PROVE FALSE
    <3>1. PICK t2 \in States : t2 = Terminal(s)
      BY <1>4
    <3>2. t2 + 1 \in States /\ t2 <= t2 + 1 /\ t2 + 1 <= s
      BY <2>1, <3>1, Constants DEF States
    <3>3. Skill[t2] <= Skill[t2 + 1] /\ Skill[t2 + 1] <= Skill[s]
      BY <3>2, Constants
    <3>4. Skill[t2] = Skill[s] /\ Skill[t2] \in Nat /\ Skill[t2 + 1] \in Nat
      BY <1>4, <3>1, <3>2, Constants DEF SameSkill
    <3>5. SameSkill(t2, t2 + 1) /\ t2 # LastState
      BY <2>1, <3>1, <3>3, <3>4, Constants DEF SameSkill, States
    <3>6. QED
      BY <1>4, <3>1, <3>5 DEF Successor
  <2>2. QED
    BY <1>4, <2>1, Constants DEF States
<1>6. ASSUME NEW u \in States, SameSkill(s, u) PROVE Terminal(u) = Terminal(s)
  <2> DEFINE Ends(k) == CHOOSE t2 \in States :
                          k = Skill[t2] /\ (t2 = LastState \/ ~SameSkill(t2, Successor(t2)))
  <2>1. Terminal(u) = Ends(Skill[u]) /\ Terminal(s) = Ends(Skill[s])
    BY DEF Terminal, SameSkill
  <2>2. Skill[u] = Skill[s]
    BY <1>6 DEF SameSkill
  <2> HIDE DEF Ends
  <2>3. QED
    BY <2>1, <2>2
<1>7. QED
  BY <1>4, <1>5, <1>6

\* The interval of an event, and the states that it owns.
LEMMA Intervals ==
  ASSUME NEW e \in Events
  PROVE  /\ FirstOf(e) \in States /\ LastOf(e) \in States
         /\ \A s \in States : s \in Entry[e] <=> FirstOf(e) <= s /\ s <= LastOf(e)
         /\ \A s \in Owned[e] : FirstOf(e) <= s
<1>1. /\ Entry[e] # {} /\ Entry[e] = FirstOf(e) .. LastOf(e)
      /\ FirstOf(e) \in Owned[e] /\ Owned[e] \subseteq FirstOf(e) .. LastState
      /\ Entry[e] \in SUBSET States /\ Owned[e] \in SUBSET States
  BY ConstantsAssumption
<1>2. LastOf(e) \in States
  BY <1>1, GreatestState DEF LastOf
<1>3. FirstOf(e) \in States
  BY <1>1
<1>4. QED
  BY <1>1, <1>2, <1>3, Constants DEF States

LEMMA OwnersFollow ==
  ASSUME NEW s \in States, NEW e \in Owners(s)
  PROVE  e \in Events /\ FirstOf(e) <= s
BY Intervals DEF Owners

-----------------------------------------------------------------------------
\* What a cycle may believe.

\* What is decided without a motion in sight is remembered.
Sensed(k) ==
  /\ k.seen \in BOOLEAN /\ k.paired \in BOOLEAN /\ k.moved \in BOOLEAN
  /\ k.direction \in Decisions /\ k.decision \in Decisions
  /\ k.moved => k.seen
  /\ k.paired => k.seen
  /\ k.direction # "unknown" => k.moved
  /\ k.decision # "unknown" /\ ~k.moved => k.seen /\ (stable # "none" \/ evidence # "none")

LEMMA EstimatesSensed ==
  ASSUME IInv, NEW k \in Estimates
  PROVE  Sensed(k)
<1>1. PICK o \in Observations :
        k = [seen |-> o.seen, paired |-> o.paired, moved |-> o.moved,
             direction |-> o.direction, decision |-> DecisionOf(o),
             leans |-> DecisionOf(o) = "unknown" /\ router.trusted = "none" /\ o.leans]
  BY Zenon DEF Estimates
<1>2. /\ k.seen = o.seen /\ k.paired = o.paired /\ k.moved = o.moved
      /\ k.direction = o.direction /\ k.decision = DecisionOf(o)
  BY <1>1
<1>3. o \in [seen : BOOLEAN, paired : BOOLEAN, moved : BOOLEAN,
             direction : Decisions, posterior : Decisions, leans : BOOLEAN]
  BY DEF Observations
<1>4. /\ o.paired => o.seen
      /\ o.moved => o.seen
  BY Zenon DEF Observations
<1>5. o.direction # "unknown" => o.moved
  BY Zenon DEF Observations
<1>6. DecisionOf(o) \in Decisions
  BY <1>3 DEF DecisionOf, IInv, Typed, Decisions
<1>7. DecisionOf(o) # "unknown" /\ ~o.moved => o.seen /\ (stable # "none" \/ evidence # "none")
  BY DEF DecisionOf
<1>8. QED
  BY <1>2, <1>3, <1>4, <1>5, <1>6, <1>7 DEF Sensed

LEMMA BeliefsSensed ==
  ASSUME IInv, NEW k \in Estimates, NEW b \in Beliefs(k)
  PROVE  Sensed(b) /\ b.estimated \in States /\ SameSkill(ref, b.estimated)
<1>1. PICK mass \in Masses : \E expected \in Expectations(mass), e \in mass :
        b = [seen |-> k.seen, paired |-> k.paired, moved |-> k.moved,
             direction |-> k.direction, decision |-> k.decision, leans |-> k.leans,
             mass |-> mass, expected |-> expected, estimated |-> e]
  BY DEF Beliefs
<1>2. /\ b.seen = k.seen /\ b.paired = k.paired /\ b.moved = k.moved
      /\ b.direction = k.direction /\ b.decision = k.decision /\ b.estimated \in mass
  BY <1>1
<1>3. Sensed(b)
  BY <1>2, EstimatesSensed, Zenon DEF Sensed
<1>4. Nominal \in States /\ Skill[Nominal] = Skill[ref]
  BY DEF Nominal, IInv, Typed, Aligned, SameSkill
<1>5. mass \subseteq {s \in States : Skill[s] = Skill[ref]}
  <2>1. Candidates \subseteq {s \in States : Skill[s] = Skill[ref]}
    BY <1>4 DEF Candidates, SameSkill, IInv, Typed, Aligned
  <2>2. InSkillAfter(Nominal) \subseteq {s \in States : Skill[s] = Skill[ref]}
    BY <1>4 DEF InSkillAfter, SameSkill
  <2>3. QED
    BY <1>4, <2>1, <2>2 DEF Masses
<1>6. QED
  BY <1>2, <1>3, <1>5 DEF SameSkill

\* The memories of the filter are tested as long as the frame is in sight.
LEMMA MemoryTested ==
  ASSUME IInv, NEW k, Sensed(k), Remember(k.seen, k.direction, k.decision),
         tested' = Tested(k)
  PROVE  /\ stable' \in Relations \cup {"none"} /\ evidence' \in Relations \cup {"none"}
         /\ sighted' \in Sights /\ tested' \in BOOLEAN
         /\ stable' # "none" \/ evidence' # "none" => tested'
<1>1. /\ stable' \in Relations \cup {"none"} /\ evidence' \in Relations \cup {"none"}
      /\ sighted' \in Sights
  BY DEF Remember, Sightings, Sights, Sensed, Decisions, IInv, Typed
<1>2. tested' \in BOOLEAN
  BY Zenon DEF Tested
<1>3. (stable # "none" \/ evidence # "none") => tested
  BY DEF IInv, Remembered
<1>4. CASE stable' # "none"
  <2>1. k.seen
    BY <1>4 DEF Remember, Sensed
  <2>2. (k.decision # "unknown" /\ k.moved) \/ stable # "none" \/ evidence # "none"
    BY <1>4 DEF Remember, Sensed
  <2>3. QED
    BY <1>1, <1>2, <1>3, <2>1, <2>2, Zenon DEF Tested
<1>5. CASE evidence' # "none"
  <2>1. k.seen
    BY <1>5 DEF Remember
  <2>2. (k.decision # "unknown" /\ k.moved) \/ evidence # "none"
    BY <1>5 DEF Remember, Sensed, Relations
  <2>3. QED
    BY <1>1, <1>2, <1>3, <2>1, <2>2, Zenon DEF Tested
<1>6. QED
  BY <1>1, <1>2, <1>4, <1>5

-----------------------------------------------------------------------------
\* The router.

\* The grace of an event is given to one that is not decided, and begins on the way
\* into its interval; behind the interval it is given from the last state of it.
LEMMA GraceBegins ==
  ASSUME NEW r, r.unresolved \subseteq Events, NEW s \in States, NEW b
  PROVE  /\ Grace(r, s, b) \subseteq Events \ Settled(r)
         /\ \A e \in Grace(r, s, b) :
              \/ e \in r.unresolved
              \/ r.committed # NoState /\ r.committed < FirstOf(e) /\ s \in Entry[e]
         /\ \A e \in Grace(r, s, b) :
              s \notin Entry[e] => r.committed = LastOf(e) /\ s = LastOf(e) + 1
<1>1. Grace(r, s, b) \subseteq Pending(r, s, b)
  BY DEF Grace
<1>2. Pending(r, s, b) \subseteq
        {e \in FormalEvents(r, s) \cup Probed(r, s, b) :
           e \in r.unresolved \/ CausallyEnters(r, e, s)}
  BY DEF Pending
<1>3. FormalEvents(r, s) \subseteq {e \in Events \ Settled(r) : s \in Entry[e]}
  BY DEF FormalEvents
<1>4. Probed(r, s, b) \subseteq
        {e \in Events \ Settled(r) : r.committed = LastOf(e) /\ s = LastOf(e) + 1}
  BY DEF Probed, Successor
<1>5. \A e : CausallyEnters(r, e, s) =>
               r.committed # NoState /\ r.committed < FirstOf(e) /\ s \in Entry[e]
  BY DEF CausallyEnters
<1>6. QED
  BY <1>1, <1>2, <1>3, <1>4, <1>5

\* An event that is entered on the way into its interval, in sight, has its grace.
LEMMA EntryIsGraced ==
  ASSUME NEW r, r.committed \in States, NEW s \in States, NEW b,
         NEW e \in Events \ Settled(r), r.committed < FirstOf(e), s \in Entry[e],
         b.paired, b.decision # "linked"
  PROVE  e \in Grace(r, s, b)
<1>1. e \in FormalEvents(r, s)
  BY DEF FormalEvents
<1>2. r.committed # NoState /\ r.committed # s
  BY Intervals, Constants DEF States, NoState
<1>3. CausallyEnters(r, e, s) /\ ~ Consumed(r, e, s, b)
  BY <1>2 DEF CausallyEnters, Consumed
<1>4. e \in Pending(r, s, b)
  BY <1>1, <1>3 DEF Pending
<1>5. Routed(r, s, b)
  BY <1>1 DEF Routed
<1>6. QED
  BY <1>4, <1>5 DEF Grace

\* What is decided belongs to an owner of the state, and rests on the relation.
LEMMA DecisionsAreOwned ==
  ASSUME NEW r, NEW s, NEW b, NEW grace
  PROVE  /\ Confirmed(r, s, b) \subseteq Owners(s)
         /\ Contradicted(r, s, b, grace) \subseteq Owners(s)
         /\ ~ Decided(b) => Confirmed(r, s, b) = {} /\ Contradicted(r, s, b, grace) = {}
         /\ ~ b.moved => Contradicted(r, s, b, grace) = {}
         /\ b.decision = "external" => Confirmed(r, s, b) = {}
BY DEF Confirmed, Contradicted, Decided

\* A role that intends a recovery has no grace; its weight is none of an unknown role.
LEMMA RolesTyped ==
  ASSUME NEW r, NEW s, NEW b, NEW grace,
         r.trusted \in {"none", "zero", "positive"}
  PROVE  /\ RoleAt(r, s, b, grace).weight \in {"zero", "positive"}
         /\ RoleAt(r, s, b, grace).intent => grace = {}
<1> DEFINE planned == /\ PlannedLink(s) \/ PlannedUnlink(s)
                      /\ b.expected = "linked" /\ b.decision # "linked"
           unwatched == /\ s \notin Selected /\ grace = {} /\ b.expected # "linked"
                        /\ ~(b.expected = "unknown" /\ b.decision = "linked")
           role == RoleAt(r, s, b, grace)
<1>1. TrustedWeight(r, b) \in {"zero", "positive"}
  BY DEF TrustedWeight, SafeWeight
<1>2. \/ role = NoRole
      \/ role = Role("defer", "zero", FALSE)
      \/ \E blocks : role \in {Role("defer", "zero", blocks),
                               Role("defer", TrustedWeight(r, b), blocks)}
      \/ grace = {} /\ role = [Role("recover", "zero", TRUE) EXCEPT !.intent = TRUE]
      \/ role = Role("execute", "positive", FALSE)
      \/ role = Role("monitor", "zero", FALSE)
  BY DEF RoleAt
<1> HIDE DEF role
<1>3. role.weight \in {"zero", "positive"} /\ (role.intent => grace = {})
  BY <1>1, <1>2 DEF Role, NoRole
<1>4. QED
  BY <1>3 DEF role

\* What the router knows of its events, and which of them have been ahead.
Routable(r, ahead) ==
  /\ r \in RouterSet
  /\ r.unresolved \subseteq ahead /\ ahead \subseteq Events
  /\ r.unresolved \cap Settled(r) = {}
  /\ r.committed # NoState => {e \in Events : r.committed < FirstOf(e)} \subseteq ahead

\* The roles of a state are committed.
LEMMA CommitsRoute ==
  ASSUME NEW r, NEW ahead, Routable(r, ahead), NEW s \in States, NEW b
  PROVE  LET q == Committed(r, Route(r, s, b), b, s) IN
         /\ q \in RouterSet /\ q.committed = s
         /\ q.unresolved \subseteq ahead /\ q.unresolved \cap Settled(q) = {}
         /\ Settled(q) \subseteq Settled(r) \cup Owners(s)
         /\ ~ Decided(b) => /\ Settled(q) = Settled(r)
                            /\ r.unresolved \cup Grace(r, s, b) \subseteq q.unresolved
<1> DEFINE grace == Grace(r, s, b)
           confirmed == Confirmed(r, s, b)
           rejected == Contradicted(r, s, b, grace)
           snap == Route(r, s, b)
           q == Committed(r, snap, b, s)
<1>1. r.trusted \in {"none", "zero", "positive"} /\ r.confirmed \subseteq Events
      /\ r.rejected \subseteq Events /\ r.unresolved \subseteq Events
  BY DEF Routable, RouterSet
<1>2. snap.frame.weight \in {"zero", "positive"}
  <2>1. snap.frame = RoleAt(r, s, b, grace)
    BY DEF Route
  <2>2. QED
    BY <1>1, <2>1, RolesTyped
<1>3. /\ snap.confirmed = confirmed /\ snap.rejected = rejected
      /\ snap.unresolved = (r.unresolved \cup grace) \ (confirmed \cup rejected)
  BY DEF Route
<1> HIDE DEF snap
<1> HIDE DEF grace, confirmed, rejected
<1>4. /\ q.confirmed = r.confirmed \cup confirmed /\ q.rejected = r.rejected \cup rejected
      /\ q.unresolved = (r.unresolved \cup grace) \ (confirmed \cup rejected)
      /\ q.committed = s /\ q.trusted \in {"none", "zero", "positive"}
      /\ q = [confirmed |-> q.confirmed, rejected |-> q.rejected,
              unresolved |-> q.unresolved, committed |-> q.committed, trusted |-> q.trusted]
  BY <1>1, <1>2, <1>3 DEF Committed
<1>5. /\ grace \subseteq Events \ Settled(r)
      /\ \A e \in grace : e \in r.unresolved \/ (r.committed # NoState /\ r.committed < FirstOf(e))
  BY <1>1, GraceBegins DEF grace
<1>6. /\ confirmed \subseteq Owners(s) /\ rejected \subseteq Owners(s)
      /\ ~ Decided(b) => confirmed = {} /\ rejected = {}
  BY DecisionsAreOwned DEF confirmed, rejected
<1>7. Owners(s) \subseteq Events
  BY DEF Owners
<1> HIDE DEF q
<1>8. q \in RouterSet
  BY <1>1, <1>4, <1>5, <1>6, <1>7 DEF RouterSet
<1>9. q.unresolved \subseteq ahead
  BY <1>4, <1>5 DEF Routable
<1>10. q.unresolved \cap Settled(q) = {}
  BY <1>4, <1>5 DEF Routable, Settled
<1>11. Settled(q) \subseteq Settled(r) \cup Owners(s)
  BY <1>4, <1>6 DEF Settled
<1>12. ASSUME ~ Decided(b)
       PROVE  Settled(q) = Settled(r) /\ r.unresolved \cup grace \subseteq q.unresolved
  BY <1>4, <1>6, <1>12 DEF Settled
<1>13. QED
  BY <1>4, <1>8, <1>9, <1>10, <1>11, <1>12 DEF q, grace, snap

\* The roles of two states are committed together, at the later one.
LEMMA CommitsBoundary ==
  ASSUME NEW r, NEW ahead, Routable(r, ahead), NEW s \in States, NEW t \in States, NEW b
  PROVE  LET q == Committed(r, Merged(Route(r, s, b), Route(r, t, b)), b, t) IN
         /\ q \in RouterSet /\ q.committed = t
         /\ q.unresolved \subseteq ahead /\ q.unresolved \cap Settled(q) = {}
         /\ Settled(q) \subseteq Settled(r) \cup Owners(s) \cup Owners(t)
         /\ ~ Decided(b) => r.unresolved \cup Grace(r, t, b) \subseteq q.unresolved
<1> DEFINE source == Route(r, s, b)
           entry == Route(r, t, b)
           m == Merged(source, entry)
           q == Committed(r, m, b, t)
           g1 == Grace(r, s, b)
           c1 == Confirmed(r, s, b)
           r1 == Contradicted(r, s, b, g1)
           g2 == Grace(r, t, b)
           c2 == Confirmed(r, t, b)
           r2 == Contradicted(r, t, b, g2)
           settled == c1 \cup c2 \cup r1 \cup r2
<1>1. r.trusted \in {"none", "zero", "positive"} /\ r.confirmed \subseteq Events
      /\ r.rejected \subseteq Events /\ r.unresolved \subseteq Events
  BY DEF Routable, RouterSet
<1>2. source.frame.weight \in {"zero", "positive"}
  <2>1. source.frame = RoleAt(r, s, b, g1)
    BY DEF Route
  <2>2. QED
    BY <1>1, <2>1, RolesTyped
<1>3. /\ source.confirmed = c1 /\ source.rejected = r1
      /\ source.unresolved = (r.unresolved \cup g1) \ (c1 \cup r1)
      /\ entry.confirmed = c2 /\ entry.rejected = r2
      /\ entry.unresolved = (r.unresolved \cup g2) \ (c2 \cup r2)
  BY DEF Route
<1>4. /\ m.frame = source.frame
      /\ m.confirmed = source.confirmed \cup entry.confirmed
      /\ m.rejected = source.rejected \cup entry.rejected
      /\ m.unresolved = (source.unresolved \cup entry.unresolved) \ (m.confirmed \cup m.rejected)
  BY DEF Merged, Route
<1> HIDE DEF source, entry, m, g1, c1, r1, g2, c2, r2
<1>5. /\ q.confirmed = r.confirmed \cup m.confirmed /\ q.rejected = r.rejected \cup m.rejected
      /\ q.unresolved = m.unresolved
      /\ q.committed = t /\ q.trusted \in {"none", "zero", "positive"}
      /\ q = [confirmed |-> q.confirmed, rejected |-> q.rejected,
              unresolved |-> q.unresolved, committed |-> q.committed, trusted |-> q.trusted]
  BY <1>1, <1>2, <1>4 DEF Committed
<1>6. /\ g1 \cup g2 \subseteq Events \ Settled(r)
      /\ \A e \in g1 \cup g2 :
           e \in r.unresolved \/ (r.committed # NoState /\ r.committed < FirstOf(e))
  BY <1>1, GraceBegins DEF g1, g2
<1>7. /\ c1 \cup r1 \subseteq Owners(s) /\ c2 \cup r2 \subseteq Owners(t)
      /\ ~ Decided(b) => settled = {}
  BY DecisionsAreOwned DEF c1, c2, r1, r2
<1>8. Owners(s) \subseteq Events /\ Owners(t) \subseteq Events
  BY DEF Owners
<1> HIDE DEF q
<1>9. /\ q.unresolved \subseteq r.unresolved \cup g1 \cup g2
      /\ q.confirmed \cup q.rejected = Settled(r) \cup settled
      /\ q.unresolved \cap settled = {}
  BY <1>3, <1>4, <1>5 DEF Settled
<1>10. q \in RouterSet
  BY <1>1, <1>5, <1>6, <1>7, <1>8, <1>9 DEF RouterSet, Settled
<1>11. q.unresolved \subseteq ahead
  BY <1>6, <1>9 DEF Routable
<1>12. q.unresolved \cap Settled(q) = {}
  BY <1>6, <1>9 DEF Routable, Settled
<1>13. Settled(q) \subseteq Settled(r) \cup Owners(s) \cup Owners(t)
  BY <1>7, <1>9 DEF Settled
<1>14. ASSUME ~ Decided(b) PROVE r.unresolved \cup g2 \subseteq q.unresolved
  BY <1>3, <1>4, <1>5, <1>7, <1>14
<1>15. QED
  BY <1>5, <1>10, <1>11, <1>12, <1>13, <1>14 DEF q, g2, m, source, entry

-----------------------------------------------------------------------------
\* The cycles.

\* The reference or what is proposed for it is ahead, in the same skill.
LEMMA ProposalsAhead ==
  ASSUME IInv, NEW b, b.estimated \in States, NEW snap,
         NEW s \in {ref} \cup Proposals(router, b, snap)
  PROVE  s \in States /\ SameSkill(ref, s) /\ ref <= s
<1>1. ref \in States
  BY DEF IInv, Typed
<1>2. CASE s = ref
  BY <1>1, <1>2, Constants DEF SameSkill, States
<1>3. CASE s = b.estimated /\ b.estimated > ref /\ SameSkill(b.estimated, ref)
  BY <1>1, <1>3, Constants DEF SameSkill, States
<1>4. CASE s = NextInSkill(ref)
  BY <1>1, <1>4, Constants DEF SameSkill, States, NextInSkill, Successor, InSkillAfter
<1>5. QED
  BY <1>2, <1>3, <1>4 DEF Proposals, Held

\* A cycle commits the roles of the reference or of its proposal s.
CycleOf(Commit(_, _, _), b, s) ==
  /\ Sensed(b) /\ b.estimated \in States /\ SameSkill(ref, b.estimated)
  /\ s \in States /\ SameSkill(ref, s) /\ ref <= s
  /\ Remember(b.seen, b.direction, b.decision)
  /\ mismatch' \in 0 .. Persist
  /\ Commit(b, Route(router, s, b), Committed(router, Route(router, s, b), b, s))

LEMMA CountedTyped ==
  ASSUME IInv, NEW wrong
  PROVE  Counted(wrong) \in 0 .. Persist
BY Constants DEF Counted, IInv, Typed

LEMMA TaskCycles ==
  ASSUME IInv, TaskCycle
  PROVE  \E b : \E s \in States : CycleOf(Stays, b, s)
<1>1. PICK k \in Estimates : \E b \in Beliefs(k) :
        \E here \in {Route(router, ref, b)} : \E s \in Proposals(router, b, here) :
        \E there \in {Route(router, s, b)} : \E snap \in {IF Adopted(there) THEN there ELSE here} :
          /\ Remember(b.seen, b.direction, b.decision)
          /\ mismatch' = Counted(IF there.frame.blocks THEN there.frame.intent ELSE snap.frame.intent)
          /\ Stays(b, snap, Committed(router, snap, b, snap.state))
  BY Zenon DEF TaskCycle, Cycle
<1>2. PICK b \in Beliefs(k) : \E s \in Proposals(router, b, Route(router, ref, b)) :
        \E snap \in {Route(router, s, b), Route(router, ref, b)} :
          /\ Remember(b.seen, b.direction, b.decision)
          /\ \E wrong : mismatch' = Counted(wrong)
          /\ Stays(b, snap, Committed(router, snap, b, snap.state))
  BY <1>1
<1>3. PICK u \in {ref} \cup Proposals(router, b, Route(router, ref, b)) :
          /\ Remember(b.seen, b.direction, b.decision)
          /\ \E wrong : mismatch' = Counted(wrong)
          /\ Stays(b, Route(router, u, b),
                   Committed(router, Route(router, u, b), b, Route(router, u, b).state))
  BY <1>2
<1>4. Route(router, u, b).state = u
  BY DEF Route
<1>5. Stays(b, Route(router, u, b), Committed(router, Route(router, u, b), b, u))
  BY <1>3, <1>4
<1>6. Sensed(b) /\ b.estimated \in States /\ SameSkill(ref, b.estimated)
  BY BeliefsSensed
<1>7. u \in States /\ SameSkill(ref, u) /\ ref <= u
  BY <1>6, ProposalsAhead
<1>8. mismatch' \in 0 .. Persist
  BY <1>3, CountedTyped
<1>9. QED
  BY <1>3, <1>5, <1>6, <1>7, <1>8 DEF CycleOf

LEMMA CrossingCycles ==
  ASSUME IInv, CrossingCycle
  PROVE  \E b : \E s \in States : CycleOf(Crosses, b, s)
<1>1. PICK k \in Estimates : \E b \in Beliefs(k) :
        \E here \in {Route(router, ref, b)} : \E s \in Proposals(router, b, here) :
        \E there \in {Route(router, s, b)} : \E snap \in {IF Adopted(there) THEN there ELSE here} :
          /\ Remember(b.seen, b.direction, b.decision)
          /\ mismatch' = Counted(IF there.frame.blocks THEN there.frame.intent ELSE snap.frame.intent)
          /\ Crosses(b, snap, Committed(router, snap, b, snap.state))
  BY Zenon DEF CrossingCycle, Cycle
<1>2. PICK b \in Beliefs(k) : \E s \in Proposals(router, b, Route(router, ref, b)) :
        \E snap \in {Route(router, s, b), Route(router, ref, b)} :
          /\ Remember(b.seen, b.direction, b.decision)
          /\ \E wrong : mismatch' = Counted(wrong)
          /\ Crosses(b, snap, Committed(router, snap, b, snap.state))
  BY <1>1
<1>3. PICK u \in {ref} \cup Proposals(router, b, Route(router, ref, b)) :
          /\ Remember(b.seen, b.direction, b.decision)
          /\ \E wrong : mismatch' = Counted(wrong)
          /\ Crosses(b, Route(router, u, b),
                   Committed(router, Route(router, u, b), b, Route(router, u, b).state))
  BY <1>2
<1>4. Route(router, u, b).state = u
  BY DEF Route
<1>5. Crosses(b, Route(router, u, b), Committed(router, Route(router, u, b), b, u))
  BY <1>3, <1>4
<1>6. Sensed(b) /\ b.estimated \in States /\ SameSkill(ref, b.estimated)
  BY BeliefsSensed
<1>7. u \in States /\ SameSkill(ref, u) /\ ref <= u
  BY <1>6, ProposalsAhead
<1>8. mismatch' \in 0 .. Persist
  BY <1>3, CountedTyped
<1>9. QED
  BY <1>3, <1>5, <1>6, <1>7, <1>8 DEF CycleOf

\* What the cycle that stays in its skill assigns.
LEMMA StaysAssigns ==
  ASSUME IInv, NEW b, NEW s \in States, CycleOf(Stays, b, s)
  PROVE  /\ Sensed(b) /\ SameSkill(ref, b.estimated) /\ SameSkill(ref, s) /\ ref <= s
         /\ Remember(b.seen, b.direction, b.decision) /\ mismatch' \in 0 .. Persist
         /\ ref' = s /\ executed' \in {NoState, s}
         /\ estimated' = b.estimated /\ b.estimated \in States /\ spread' \in BOOLEAN
         /\ last' = Outcome(b, Route(router, s, b))
         /\ router' = Committed(router, Route(router, s, b), b, s)
         /\ behind' = behind \cup {e \in Events : s < FirstOf(e)}
         /\ entered' = IF Decided(b) THEN {}
                       ELSE entered \cup {e \in behind : b.paired /\ ref < FirstOf(e) /\ s \in Entry[e]}
         /\ probes' = [e \in Events |-> IF e \in Grace(router, s, b) /\ s \notin Entry[e]
                                        THEN probes[e] + 1 ELSE probes[e]]
         /\ tested' = Tested(b)
<1>1. Route(router, s, b).state = s /\ Route(router, s, b).grace = Grace(router, s, b)
  BY DEF Route
<1>2. Stays(b, Route(router, s, b), Committed(router, Route(router, s, b), b, s))
  BY DEF CycleOf
<1>3. /\ ref' = s /\ executed' \in {NoState, s} /\ estimated' = b.estimated
      /\ last' = Outcome(b, Route(router, s, b))
      /\ router' = Committed(router, Route(router, s, b), b, s)
      /\ Commanded(b, s, s, Grace(router, s, b))
  BY <1>1, <1>2 DEF Stays
<1>4. spread' \in BOOLEAN
  BY <1>2, Zenon DEF Stays
<1>5. /\ Sensed(b) /\ SameSkill(ref, b.estimated) /\ SameSkill(ref, s) /\ ref <= s
      /\ Remember(b.seen, b.direction, b.decision) /\ mismatch' \in 0 .. Persist
      /\ b.estimated \in States
  BY DEF CycleOf
<1>6. QED
  BY <1>3, <1>4, <1>5 DEF Commanded

LEMMA RouterRoutable == IInv => Routable(router, behind)
BY DEF IInv, Typed, Aligned, Windows, Routable

LEMMA TaskTyped ==
  ASSUME IInv, NEW b, NEW s \in States, CycleOf(Stays, b, s)
  PROVE  Typed' /\ Aligned'
<1>1. /\ Sensed(b) /\ SameSkill(ref, b.estimated) /\ SameSkill(ref, s)
      /\ Remember(b.seen, b.direction, b.decision) /\ mismatch' \in 0 .. Persist
      /\ ref' = s /\ executed' \in {NoState, s}
      /\ estimated' = b.estimated /\ b.estimated \in States /\ spread' \in BOOLEAN
      /\ router' = Committed(router, Route(router, s, b), b, s)
      /\ behind' = behind \cup {e \in Events : s < FirstOf(e)}
      /\ tested' = Tested(b)
  BY StaysAssigns
<1>2. entered' \subseteq Events
  BY StaysAssigns DEF IInv, Typed
<1>3. probes' \in [Events -> Nat]
  BY StaysAssigns DEF IInv, Typed
<1>4. router' \in RouterSet /\ router'.committed = s
  BY <1>1, CommitsRoute, RouterRoutable
<1>5. /\ stable' \in Relations \cup {"none"} /\ evidence' \in Relations \cup {"none"}
      /\ sighted' \in Sights /\ tested' \in BOOLEAN
  BY <1>1, MemoryTested
<1>6. behind' \subseteq Events
  BY <1>1 DEF IInv, Typed
<1>7. Typed'
  BY <1>1, <1>2, <1>3, <1>4, <1>5, <1>6 DEF Typed
<1>8. Aligned'
  BY <1>1, <1>4 DEF Aligned, SameSkill
<1>9. QED
  BY <1>7, <1>8

LEMMA TaskWindows ==
  ASSUME IInv, NEW b, NEW s \in States, CycleOf(Stays, b, s)
  PROVE  Windows'
<1> DEFINE grace == Grace(router, s, b)
<1>1. /\ ref' = s /\ ref <= s /\ ref \in States
      /\ behind' = behind \cup {e \in Events : s < FirstOf(e)}
      /\ probes' = [e \in Events |-> IF e \in grace /\ s \notin Entry[e]
                                     THEN probes[e] + 1 ELSE probes[e]]
      /\ router' = Committed(router, Route(router, s, b), b, s)
  BY StaysAssigns DEF IInv, Typed
<1>2. /\ router'.committed = s
      /\ router'.unresolved \subseteq behind /\ router'.unresolved \cap Settled(router') = {}
      /\ Settled(router') \subseteq Settled(router) \cup Owners(s)
  BY <1>1, CommitsRoute, RouterRoutable
<1>3. s # NoState /\ router.unresolved \subseteq Events /\ probes \in [Events -> Nat]
      /\ router.committed \in {NoState, ref}
  BY Constants DEF States, NoState, IInv, Typed, RouterSet, Aligned
<1>4. \A e \in Settled(router') : FirstOf(e) <= ref'
  <2>1. ASSUME NEW e \in Settled(router) PROVE FirstOf(e) <= s
    <3>1. e \in Events /\ FirstOf(e) <= ref
      BY DEF IInv, Typed, RouterSet, Windows, Settled
    <3>2. QED
      BY <1>1, <3>1, Intervals, Constants DEF States
  <2>2. QED
    BY <1>1, <1>2, <2>1, OwnersFollow
<1>5. \A e \in grace : s \notin Entry[e] => router.committed = LastOf(e) /\ s = LastOf(e) + 1
  BY <1>3, GraceBegins
<1> HIDE DEF grace
<1>6. ASSUME NEW e \in Events PROVE probes'[e] <= 1 /\ (probes'[e] = 1 => LastOf(e) < s)
  <2>1. probes[e] \in Nat /\ probes[e] <= 1 /\ LastOf(e) \in States
        /\ (probes[e] = 1 => router.committed # NoState /\ LastOf(e) < ref)
    BY <1>3, Intervals DEF IInv, Windows
  <2>2. CASE e \in grace /\ s \notin Entry[e]
    <3>1. router.committed = LastOf(e) /\ s = LastOf(e) + 1 /\ probes'[e] = probes[e] + 1
      BY <1>1, <1>5, <2>2
    <3>2. probes[e] # 1
      BY <1>1, <1>3, <2>1, <3>1, Constants DEF States
    <3>3. QED
      BY <2>1, <3>1, <3>2, Constants DEF States
  <2>3. CASE ~ (e \in grace /\ s \notin Entry[e])
    <3>1. probes'[e] = probes[e]
      BY <1>1, <2>3
    <3>2. QED
      BY <1>1, <2>1, <3>1, Constants DEF States
  <2>4. QED
    BY <2>2, <2>3
<1>7. QED
  BY <1>1, <1>2, <1>3, <1>4, <1>6 DEF Windows

\* A recovery that is intended at s has its unresolved events asked for.
LEMMA IntentsAsk ==
  ASSUME NEW r, NEW s, NEW b, Sensed(b), r.trusted \in {"none", "zero", "positive"},
         Outcome(b, Route(r, s, b)).own
  PROVE  /\ Grace(r, s, b) = {}
         /\ Outcome(b, Route(r, s, b)).unasked \cap r.unresolved = {}
         /\ Outcome(b, Route(r, s, b)).unasked # {} =>
              /\ b.paired /\ b.decision = "external"
              /\ Outcome(b, Route(r, s, b)).unasked \subseteq Owners(Context(s, b))
<1> DEFINE grace == Grace(r, s, b)
           settled == grace \cup Confirmed(r, s, b) \cup Contradicted(r, s, b, grace)
           asked == Requests(r, s, b, settled)
           unasked == Outcome(b, Route(r, s, b)).unasked
<1>1. Route(r, s, b).frame.intent
  BY DEF Outcome
<1>2. RoleAt(r, s, b, grace).intent
  BY <1>1 DEF Route
<1>3. grace = {}
  BY <1>2, RolesTyped
<1>4. Route(r, s, b).requests = asked /\ Route(r, s, b).state = s
  BY DEF Route
<1>5. unasked = IF b.paired /\ ~b.moved /\ b.decision = "external"
                THEN Owners(Context(s, b)) \ asked ELSE {}
  BY <1>4 DEF Outcome
<1> HIDE DEF asked, unasked
<1>6. CASE b.paired /\ ~b.moved /\ b.decision = "external"
  <2>1. settled = {}
    BY <1>3, <1>6, DecisionsAreOwned
  <2>2. asked = r.unresolved \cap Owners(Context(s, b))
    BY <1>6, <2>1 DEF asked, Requests
  <2>3. QED
    BY <1>3, <1>5, <1>6, <2>2 DEF unasked
<1>7. CASE ~ (b.paired /\ ~b.moved /\ b.decision = "external")
  BY <1>3, <1>5, <1>7 DEF unasked
<1>8. QED
  BY <1>6, <1>7

\* An event that is ahead of the reference is not decided.
LEMMA AheadUndecided ==
  ASSUME IInv, NEW e \in Events, ref < FirstOf(e)
  PROVE  e \notin Settled(router)
BY Intervals, Constants DEF IInv, Typed, Windows, States

LEMMA TaskRemembered ==
  ASSUME IInv, NEW b, NEW s \in States, CycleOf(Stays, b, s)
  PROVE  Remembered'
<1> DEFINE grace == Grace(router, s, b)
           fresh == {e \in behind : b.paired /\ ref < FirstOf(e) /\ s \in Entry[e]}
<1>1. /\ Sensed(b) /\ Remember(b.seen, b.direction, b.decision) /\ tested' = Tested(b)
      /\ entered' = IF Decided(b) THEN {} ELSE entered \cup fresh
      /\ router' = Committed(router, Route(router, s, b), b, s)
      /\ last' = Outcome(b, Route(router, s, b))
  BY StaysAssigns
<1>2. stable' # "none" \/ evidence' # "none" => tested'
  BY <1>1, MemoryTested
<1>3. ~ Decided(b) => router.unresolved \cup grace \subseteq router'.unresolved
  BY <1>1, CommitsRoute, RouterRoutable
<1>4. ~ Decided(b) => fresh \subseteq grace
  <2>1. ASSUME ~ Decided(b), NEW e \in fresh PROVE e \in grace
    <3>1. e \in Events /\ b.paired /\ ref < FirstOf(e) /\ s \in Entry[e] /\ behind # {}
      BY <2>1 DEF IInv, Typed
    <3>2. router.committed = ref /\ ref \in States
      BY <3>1 DEF IInv, Typed, Aligned, Windows
    <3>3. b.decision # "linked"
      BY <2>1 DEF Decided
    <3>4. QED
      BY <3>1, <3>2, <3>3, AheadUndecided, EntryIsGraced
  <2>2. QED
    BY <2>1
<1> HIDE DEF grace, fresh
<1>5. entered \subseteq router.unresolved /\ router.trusted \in {"none", "zero", "positive"}
  BY DEF IInv, Remembered, Typed, RouterSet
<1>6. entered' \subseteq router'.unresolved
  BY <1>1, <1>3, <1>4, <1>5
<1>7. ASSUME last'.own PROVE entered' \cap last'.unasked = {}
  <2>1. grace = {} /\ last'.unasked \cap router.unresolved = {}
    BY <1>1, <1>5, <1>7, IntentsAsk DEF grace
  <2>2. entered' \subseteq router.unresolved
    BY <1>1, <1>4, <1>5, <2>1
  <2>3. QED
    BY <2>1, <2>2
<1>8. QED
  BY <1>2, <1>6, <1>7 DEF Remembered

\* What the cycle that crosses the boundary of its skill assigns: r is the router after
\* the cycle, s the reference it committed, t the terminal state of the skill.
CrossesTo(b, s, t, n, r) ==
  /\ Sensed(b) /\ Remember(b.seen, b.direction, b.decision) /\ mismatch' \in 0 .. Persist
  /\ s \in States /\ t \in States /\ n \in States /\ n = t + 1
  /\ ref <= s /\ s <= t /\ b.estimated <= t /\ b.estimated \in States
  /\ r = Committed(router, Route(router, s, b), b, s)
  /\ ref' = n /\ executed' \in {NoState, n} /\ estimated' = n /\ spread' = FALSE
  /\ last' = Outcome(b, Route(r, t, b))
  /\ router' = Committed(r, Merged(Route(r, t, b), Route(r, n, b)), b, n)
  /\ behind' = behind \cup {e \in Events : s < FirstOf(e)}
  /\ entered' = IF Decided(b) THEN {}
                ELSE entered \cup {e \in behind : b.paired /\ ref < FirstOf(e) /\ n \in Entry[e]}
  /\ probes' = [e \in Events |-> IF e \in Grace(r, t, b) \cup Grace(r, n, b) /\ n \notin Entry[e]
                                 THEN probes[e] + 1 ELSE probes[e]]
  /\ tested' = Tested(b)

LEMMA CrossesAssigns ==
  ASSUME IInv, NEW b, NEW s \in States, CycleOf(Crosses, b, s)
  PROVE  \E t, n, r : CrossesTo(b, s, t, n, r) /\ t = Terminal(ref)
<1> DEFINE r == Committed(router, Route(router, s, b), b, s)
           snap == Route(router, s, b)
           t == Terminal(s)
           n == Successor(t)
           source == Route(r, t, b)
           entry == Route(r, n, b)
<1>1. snap.state = s
  BY DEF Route
<1>2. source.grace = Grace(r, t, b) /\ entry.grace = Grace(r, n, b) /\ entry.state = n
  BY DEF Route
<1>3. Crosses(b, snap, r)
  BY DEF CycleOf
<1> HIDE DEF snap, r
<1>4. /\ t # LastState /\ SameSkill(b.estimated, t)
      /\ ref' = entry.state /\ estimated' = entry.state /\ spread' = FALSE
      /\ last' = Outcome(b, source)
      /\ router' = Committed(r, Merged(source, entry), b, entry.state)
      /\ Commanded(b, s, ref', source.grace \cup entry.grace)
      /\ executed' \in {NoState} \cup {u \in {ref'} : Available(source)}
  BY <1>1, <1>3 DEF Crosses
<1>5. /\ Sensed(b) /\ Remember(b.seen, b.direction, b.decision) /\ mismatch' \in 0 .. Persist
      /\ SameSkill(ref, s) /\ ref <= s /\ b.estimated \in States /\ ref \in States
  BY DEF CycleOf, IInv, Typed
<1>6. t \in States /\ SameSkill(s, t) /\ s <= t
  BY Terminals
<1>7. t = Terminal(ref)
  BY <1>5, Terminals
<1>8. b.estimated <= t
  <2>1. b.estimated <= Terminal(b.estimated)
    BY <1>5, Terminals
  <2>2. SameSkill(s, b.estimated)
    BY <1>4, <1>6 DEF SameSkill
  <2>3. Terminal(b.estimated) = t
    BY <1>5, <2>2, Terminals
  <2>4. QED
    BY <2>1, <2>3
<1>9. n \in States /\ n = t + 1
  BY <1>4, <1>6, Constants DEF States, Successor
<1> HIDE DEF t, n, source, entry
<1>10. /\ behind' = behind \cup {e \in Events : s < FirstOf(e)}
       /\ entered' = IF Decided(b) THEN {}
                     ELSE entered \cup {e \in behind : b.paired /\ ref < FirstOf(e) /\ n \in Entry[e]}
       /\ probes' = [e \in Events |->
                       IF e \in Grace(r, t, b) \cup Grace(r, n, b) /\ n \notin Entry[e]
                       THEN probes[e] + 1 ELSE probes[e]]
       /\ tested' = Tested(b)
  BY <1>2, <1>4 DEF Commanded
<1>11. ref' = n /\ executed' \in {NoState, n} /\ estimated' = n /\ spread' = FALSE
  BY <1>2, <1>4
<1>12. /\ last' = Outcome(b, Route(r, t, b))
       /\ router' = Committed(r, Merged(Route(r, t, b), Route(r, n, b)), b, n)
       /\ r = Committed(router, Route(router, s, b), b, s)
  BY <1>2, <1>4 DEF source, entry, r
<1>13. CrossesTo(b, s, t, n, r)
  BY <1>5, <1>6, <1>8, <1>9, <1>10, <1>11, <1>12 DEF CrossesTo
<1>14. QED
  BY <1>7, <1>13

\* The router after the cycle, and after the crossing.
LEMMA CrossingRoutes ==
  ASSUME IInv, NEW b, NEW s, NEW t, NEW n, NEW r, CrossesTo(b, s, t, n, r)
  PROVE  /\ Routable(r, behind') /\ r.committed = s
         /\ Settled(r) \subseteq Settled(router) \cup Owners(s)
         /\ ~ Decided(b) => /\ Settled(r) = Settled(router)
                            /\ router.unresolved \cup Grace(router, s, b) \subseteq r.unresolved
         /\ router' \in RouterSet /\ router'.committed = n
         /\ router'.unresolved \subseteq behind'
         /\ router'.unresolved \cap Settled(router') = {}
         /\ Settled(router') \subseteq Settled(r) \cup Owners(t) \cup Owners(n)
         /\ ~ Decided(b) => r.unresolved \cup Grace(r, n, b) \subseteq router'.unresolved
<1>1. /\ s \in States /\ t \in States /\ n \in States
      /\ r = Committed(router, Route(router, s, b), b, s)
      /\ router' = Committed(r, Merged(Route(r, t, b), Route(r, n, b)), b, n)
      /\ behind' = behind \cup {e \in Events : s < FirstOf(e)}
  BY DEF CrossesTo
<1>2. /\ r \in RouterSet /\ r.committed = s
      /\ r.unresolved \subseteq behind /\ r.unresolved \cap Settled(r) = {}
      /\ Settled(r) \subseteq Settled(router) \cup Owners(s)
      /\ ~ Decided(b) => /\ Settled(r) = Settled(router)
                         /\ router.unresolved \cup Grace(router, s, b) \subseteq r.unresolved
  BY <1>1, CommitsRoute, RouterRoutable
<1>3. Routable(r, behind')
  BY <1>1, <1>2 DEF Routable, IInv, Typed
<1>4. /\ router' \in RouterSet /\ router'.committed = n
      /\ router'.unresolved \subseteq behind'
      /\ router'.unresolved \cap Settled(router') = {}
      /\ Settled(router') \subseteq Settled(r) \cup Owners(t) \cup Owners(n)
      /\ ~ Decided(b) => r.unresolved \cup Grace(r, n, b) \subseteq router'.unresolved
  BY <1>1, <1>3, CommitsBoundary
<1>5. QED
  BY <1>2, <1>3, <1>4

LEMMA CrossingTyped ==
  ASSUME IInv, NEW b, NEW s, NEW t, NEW n, NEW r, CrossesTo(b, s, t, n, r)
  PROVE  Typed' /\ Aligned'
<1>1. /\ Sensed(b) /\ Remember(b.seen, b.direction, b.decision) /\ mismatch' \in 0 .. Persist
      /\ n \in States
      /\ ref' = n /\ executed' \in {NoState, n} /\ estimated' = n /\ spread' = FALSE
      /\ tested' = Tested(b)
  BY DEF CrossesTo
<1>2. entered' \subseteq Events /\ behind' \subseteq Events
  BY DEF CrossesTo, IInv, Typed
<1>3. probes' \in [Events -> Nat]
  BY DEF CrossesTo, IInv, Typed
<1>4. router' \in RouterSet /\ router'.committed = n
  BY CrossingRoutes
<1>5. /\ stable' \in Relations \cup {"none"} /\ evidence' \in Relations \cup {"none"}
      /\ sighted' \in Sights /\ tested' \in BOOLEAN
  BY <1>1, MemoryTested
<1>6. Typed'
  BY <1>1, <1>2, <1>3, <1>4, <1>5 DEF Typed
<1>7. Aligned'
  BY <1>1, <1>4 DEF Aligned, SameSkill
<1>8. QED
  BY <1>6, <1>7

LEMMA CrossingWindows ==
  ASSUME IInv, NEW b, NEW s, NEW t, NEW n, NEW r, CrossesTo(b, s, t, n, r)
  PROVE  Windows'
<1>1. /\ s \in States /\ t \in States /\ n \in States /\ n = t + 1
      /\ ref <= s /\ s <= t /\ ref \in States /\ ref' = n
      /\ behind' = behind \cup {e \in Events : s < FirstOf(e)}
      /\ probes' = [e \in Events |->
                      IF e \in Grace(r, t, b) \cup Grace(r, n, b) /\ n \notin Entry[e]
                      THEN probes[e] + 1 ELSE probes[e]]
  BY DEF CrossesTo, IInv, Typed
<1>2. /\ r.committed = s /\ r.unresolved \subseteq Events
      /\ Settled(r) \subseteq Settled(router) \cup Owners(s)
      /\ router'.committed = n
      /\ router'.unresolved \subseteq behind' /\ router'.unresolved \cap Settled(router') = {}
      /\ Settled(router') \subseteq Settled(r) \cup Owners(t) \cup Owners(n)
  BY CrossingRoutes DEF Routable
<1>3. n # NoState /\ probes \in [Events -> Nat] /\ router.committed \in {NoState, ref}
  BY <1>1, Constants DEF States, NoState, IInv, Typed, Aligned
<1>4. ASSUME NEW e \in Settled(router') PROVE FirstOf(e) <= n
  <2>1. CASE e \in Settled(router)
    <3>1. e \in Events /\ FirstOf(e) <= ref
      BY <2>1 DEF IInv, Typed, RouterSet, Windows, Settled
    <3>2. QED
      BY <1>1, <3>1, Intervals, Constants DEF States
  <2>2. CASE \E u \in {s, t, n} : e \in Owners(u)
    <3>1. PICK u \in {s, t, n} : e \in Owners(u)
      BY <2>2
    <3>2. e \in Events /\ FirstOf(e) <= u /\ FirstOf(e) \in States
      BY <1>1, <3>1, OwnersFollow, Intervals
    <3>3. QED
      BY <1>1, <3>1, <3>2, Constants DEF States
  <2>3. QED
    BY <1>2, <1>4, <2>1, <2>2
<1>5. /\ \A e \in Grace(r, t, b) : t \notin Entry[e] => s = LastOf(e) /\ t = LastOf(e) + 1
      /\ \A e \in Grace(r, n, b) : n \notin Entry[e] => s = LastOf(e) /\ n = LastOf(e) + 1
  BY <1>1, <1>2, GraceBegins
<1>6. ASSUME NEW e \in Events PROVE probes'[e] <= 1 /\ (probes'[e] = 1 => LastOf(e) < n)
  <2>1. probes[e] \in Nat /\ probes[e] <= 1 /\ LastOf(e) \in States /\ FirstOf(e) \in States
        /\ (probes[e] = 1 => LastOf(e) < ref)
        /\ (t \in Entry[e] <=> FirstOf(e) <= t /\ t <= LastOf(e))
        /\ (n \in Entry[e] <=> FirstOf(e) <= n /\ n <= LastOf(e))
    BY <1>1, <1>3, Intervals DEF IInv, Windows
  <2>2. CASE e \in Grace(r, t, b) \cup Grace(r, n, b) /\ n \notin Entry[e]
    <3>1. probes'[e] = probes[e] + 1
      BY <1>1, <2>2
    <3>2. s <= LastOf(e) /\ LastOf(e) < n
      <4>0. /\ s \in Int /\ t \in Int /\ n = t + 1 /\ s <= t
            /\ LastOf(e) \in Int /\ FirstOf(e) \in Int
        BY <1>1, <2>1, Constants DEF States
      <4>1. CASE t \in Entry[e]
        <5>1. FirstOf(e) <= t /\ t <= LastOf(e)
          BY <2>1, <4>1
        <5>2. ~ (FirstOf(e) <= n /\ n <= LastOf(e))
          BY <2>1, <2>2
        <5>3. QED
          BY <4>0, <5>1, <5>2
      <4>2. CASE t \notin Entry[e]
        <5>1. s = LastOf(e)
          BY <1>5, <2>2, <4>2
        <5>2. QED
          BY <1>1, <2>1, <5>1, Constants DEF States
      <4>3. QED
        BY <4>1, <4>2
    <3>3. probes[e] # 1
      BY <1>1, <2>1, <3>2, Constants DEF States
    <3>4. QED
      BY <2>1, <3>1, <3>2, <3>3
  <2>3. CASE ~ (e \in Grace(r, t, b) \cup Grace(r, n, b) /\ n \notin Entry[e])
    <3>1. probes'[e] = probes[e]
      BY <1>1, <2>3
    <3>2. QED
      BY <1>1, <2>1, <3>1, Constants DEF States
  <2>4. QED
    BY <2>2, <2>3
<1>7. {e \in Events : n < FirstOf(e)} \subseteq behind'
  BY <1>1, Intervals, Constants DEF States
<1>8. QED
  BY <1>1, <1>2, <1>3, <1>4, <1>6, <1>7 DEF Windows

LEMMA CrossingRemembered ==
  ASSUME IInv, NEW b, NEW s, NEW t, NEW n, NEW r, CrossesTo(b, s, t, n, r)
  PROVE  Remembered'
<1> DEFINE fresh == {e \in behind : b.paired /\ ref < FirstOf(e) /\ n \in Entry[e]}
<1>1. /\ Sensed(b) /\ Remember(b.seen, b.direction, b.decision) /\ tested' = Tested(b)
      /\ entered' = IF Decided(b) THEN {} ELSE entered \cup fresh
      /\ last' = Outcome(b, Route(r, t, b))
      /\ s \in States /\ t \in States /\ n \in States /\ n = t + 1
      /\ ref <= s /\ s <= t /\ ref \in States /\ b.estimated <= t /\ b.estimated \in States
  BY DEF CrossesTo, IInv, Typed
<1>2. stable' # "none" \/ evidence' # "none" => tested'
  BY <1>1, MemoryTested
<1>3. /\ r.committed = s /\ r.trusted \in {"none", "zero", "positive"}
      /\ ~ Decided(b) => /\ Settled(r) = Settled(router)
                         /\ router.unresolved \cup Grace(router, s, b) \subseteq r.unresolved
                         /\ r.unresolved \cup Grace(r, n, b) \subseteq router'.unresolved
  BY CrossingRoutes DEF Routable, RouterSet
<1>4. entered \subseteq router.unresolved
  BY DEF IInv, Remembered
<1>5. ASSUME ~ Decided(b), NEW e \in fresh
      PROVE  /\ e \in r.unresolved \/ e \in Grace(r, n, b)
             /\ t \in Entry[e] => e \in r.unresolved \/ e \in Grace(r, t, b)
             /\ FirstOf(e) <= n /\ n <= LastOf(e)
  <2>1. e \in Events /\ b.paired /\ ref < FirstOf(e) /\ n \in Entry[e] /\ behind # {}
        /\ b.decision # "linked"
    BY <1>5 DEF IInv, Typed, Decided
  <2>2. router.committed = ref /\ e \notin Settled(router) /\ e \notin Settled(r)
    BY <1>3, <1>5, <2>1, AheadUndecided DEF IInv, Aligned, Windows
  <2>3. FirstOf(e) \in States /\ LastOf(e) \in States /\ FirstOf(e) <= n /\ n <= LastOf(e)
    BY <1>1, <2>1, Intervals
  <2>4. CASE s < FirstOf(e)
    BY <1>1, <1>3, <2>1, <2>2, <2>3, <2>4, EntryIsGraced
  <2>5. CASE ~ (s < FirstOf(e))
    <3>1. FirstOf(e) <= s /\ s <= LastOf(e)
      BY <1>1, <2>3, <2>5, Constants DEF States
    <3>2. s \in Entry[e]
      BY <1>1, <2>1, <3>1, Intervals
    <3>3. e \in Grace(router, s, b)
      BY <1>1, <2>1, <2>2, <3>2, EntryIsGraced
    <3>4. QED
      BY <1>3, <1>5, <2>3, <3>3
  <2>6. QED
    BY <2>4, <2>5
<1>6. entered' \subseteq router'.unresolved
  BY <1>1, <1>3, <1>4, <1>5
<1>7. ASSUME last'.own PROVE entered' \cap last'.unasked = {}
  <2>1. /\ Grace(r, t, b) = {} /\ last'.unasked \cap r.unresolved = {}
        /\ last'.unasked # {} => last'.unasked \subseteq Owners(Context(t, b))
    BY <1>1, <1>3, <1>7, IntentsAsk
  <2>2. Context(t, b) = t
    BY <1>1, Constants DEF Context, States
  <2>3. ASSUME NEW e \in entered', e \in last'.unasked PROVE FALSE
    <3>1. ~ Decided(b) /\ e \notin r.unresolved
      BY <1>1, <2>1, <2>3
    <3>2. e \in fresh
      BY <1>1, <1>3, <1>4, <2>3, <3>1
    <3>3. e \in Owners(t)
      BY <2>1, <2>2, <2>3
    <3>4. e \in Events /\ FirstOf(e) <= t /\ FirstOf(e) \in States /\ LastOf(e) \in States
      BY <1>1, <3>3, OwnersFollow, Intervals
    <3>5. t <= LastOf(e)
      BY <1>1, <1>5, <3>1, <3>2, <3>4, Constants DEF States
    <3>6. t \in Entry[e]
      BY <1>1, <3>4, <3>5, Intervals
    <3>7. QED
      BY <1>5, <2>1, <3>1, <3>2, <3>6
  <2>4. QED
    BY <2>3
<1>8. QED
  BY <1>2, <1>6, <1>7 DEF Remembered

LEMMA FrozenSteps == IInv /\ FrozenCycle => IInv'
<1> SUFFICES ASSUME IInv, FrozenCycle PROVE IInv'
  OBVIOUS
<1>1. /\ ref' = ref /\ executed' = executed /\ spread' = spread /\ estimated' = estimated
      /\ router' = router /\ last' = last /\ mismatch' = mismatch /\ behind' = behind
      /\ probes' = probes
  BY DEF FrozenCycle, progress
<1> DEFINE Filtered ==
      /\ stable' \in Relations \cup {"none"} /\ evidence' \in Relations \cup {"none"}
      /\ sighted' \in Sights /\ tested' \in BOOLEAN
      /\ stable' # "none" \/ evidence' # "none" => tested'
      /\ entered' \subseteq entered
<1>2. Filtered
  <2>1. ASSUME NEW k \in Estimates, Remember(k.seen, k.direction, k.decision),
               entered' = (IF Decided(k) THEN {} ELSE entered), tested' = Tested(k)
        PROVE  Filtered
    BY <2>1, EstimatesSensed, MemoryTested
  <2>2. ASSUME NEW verdict \in Relations, stable' = verdict, evidence' = verdict,
               sighted' \in Sights, entered' = {}, tested' = TRUE
        PROVE  Filtered
    BY <2>2
  <2>3. QED
    BY <2>1, <2>2 DEF FrozenCycle
<1>3. Typed' /\ Aligned'
  BY <1>1, <1>2 DEF IInv, Typed, Aligned
<1>4. Windows'
  BY <1>1 DEF IInv, Windows
<1>5. Remembered'
  <2>1. entered' \subseteq router'.unresolved
    BY <1>1, <1>2 DEF IInv, Remembered
  <2>2. ASSUME last'.own PROVE entered' \cap last'.unasked = {}
    <3>1. entered \cap last.unasked = {}
      BY <1>1, <2>2, Zenon DEF IInv, Remembered
    <3>2. QED
      BY <1>1, <1>2, <3>1
  <2>3. QED
    BY <1>2, <2>1, <2>2 DEF Remembered
<1>6. QED
  BY <1>3, <1>4, <1>5 DEF IInv

LEMMA ReenterSteps ==
  ASSUME IInv, NEW s \in States, Reenter(s)
  PROVE  IInv' /\ router'.committed = NoState
<1>1. PICK k \in Estimates : /\ stable' = IF k.decision = "unknown" THEN "none" ELSE k.decision
                             /\ sighted' \in Sightings(k.seen) /\ tested' = Tested(k)
  BY DEF Reenter
<1>2. /\ evidence' = "none" /\ router' = FreshRouter(router)
      /\ ref' = s /\ estimated' = s /\ spread' = FALSE /\ last' = NothingYet /\ mismatch' = 0
      /\ behind' = {} /\ entered' = {} /\ probes' = [e \in Events |-> 0]
      /\ executed' = NoState
  BY DEF Reenter
<1>3. /\ stable' \in Relations \cup {"none"} /\ sighted' \in Sights /\ tested' \in BOOLEAN
      /\ stable' # "none" => tested'
  <2>1. Sensed(k)
    BY EstimatesSensed
  <2>2. stable' \in Relations \cup {"none"} /\ sighted' \in Sights
    BY <1>1, <2>1 DEF Sensed, Decisions, Sightings, Sights
  <2>3. tested' \in BOOLEAN
    BY <1>1, Zenon DEF Tested
  <2>4. stable # "none" \/ evidence # "none" => tested
    BY DEF IInv, Remembered
  <2>5. ASSUME stable' # "none" PROVE tested'
    <3>1. k.decision # "unknown"
      BY <1>1, <2>5
    <3>2. k.seen /\ (k.moved \/ stable # "none" \/ evidence # "none")
      BY <2>1, <3>1, Zenon DEF Sensed
    <3>3. QED
      BY <1>1, <2>4, <3>1, <3>2, Zenon DEF Tested
  <2>6. QED
    BY <2>2, <2>3, <2>5
<1>4. /\ router' \in RouterSet /\ router'.committed = NoState
      /\ router'.unresolved = {} /\ Settled(router') = {}
  BY <1>2 DEF FreshRouter, RouterSet, Settled
<1>5. Typed'
  <2>1. probes' \in [Events -> Nat]
    BY <1>2
  <2>2. mismatch' \in 0 .. Persist
    BY <1>2, Constants
  <2>3. QED
    BY <1>2, <1>3, <1>4, <2>1, <2>2 DEF Typed
<1>6. Aligned' /\ Windows'
  BY <1>2, <1>4 DEF Aligned, SameSkill, Windows
<1>7. Remembered'
  BY <1>2, <1>3, <1>4 DEF Remembered, NothingYet
<1>8. QED
  BY <1>4, <1>5, <1>6, <1>7 DEF IInv

LEMMA IInvInit == Init => IInv
<1> SUFFICES ASSUME Init PROVE IInv
  OBVIOUS
<1>1. 0 \in States
  BY Constants DEF States
<1>2. /\ router \in RouterSet /\ router.committed = NoState
      /\ router.unresolved = {} /\ Settled(router) = {}
  BY DEF Init, FreshRouter, RouterSet, Settled
<1>3. Typed
  <2>1. probes \in [Events -> Nat] /\ mismatch \in 0 .. Persist
    BY Constants DEF Init
  <2>2. QED
    BY <1>1, <1>2, <2>1 DEF Init, Typed, Sights
<1>4. Aligned /\ Windows /\ Remembered
  BY <1>2 DEF Init, Aligned, SameSkill, Windows, Remembered, NothingYet
<1>5. QED
  BY <1>3, <1>4 DEF IInv

LEMMA IInvNext == IInv /\ [Next]_vars => IInv'
<1> SUFFICES ASSUME IInv, [Next]_vars PROVE IInv'
  OBVIOUS
<1>1. CASE TaskCycle
  <2>1. PICK b : \E s \in States : CycleOf(Stays, b, s)
    BY <1>1, TaskCycles
  <2>2. PICK s \in States : CycleOf(Stays, b, s)
    BY <2>1
  <2>3. QED
    BY <2>2, TaskTyped, TaskWindows, TaskRemembered DEF IInv
<1>2. CASE CrossingCycle
  <2>1. PICK b : \E s \in States : CycleOf(Crosses, b, s)
    BY <1>2, CrossingCycles
  <2>2. PICK s \in States : CycleOf(Crosses, b, s)
    BY <2>1
  <2>3. PICK t, n, r : CrossesTo(b, s, t, n, r)
    BY <2>2, CrossesAssigns
  <2>4. QED
    BY <2>3, CrossingTyped, CrossingWindows, CrossingRemembered DEF IInv
<1>3. CASE FrozenCycle
  BY <1>3, FrozenSteps
<1>4. ASSUME NEW s \in States, Reenter(s) PROVE IInv'
  BY <1>4, ReenterSteps
<1>5. CASE UNCHANGED vars
  <2>1. /\ ref' = ref /\ executed' = executed /\ spread' = spread /\ estimated' = estimated
        /\ stable' = stable /\ evidence' = evidence /\ sighted' = sighted
        /\ router' = router /\ last' = last /\ mismatch' = mismatch /\ behind' = behind
        /\ entered' = entered /\ probes' = probes /\ tested' = tested
    BY <1>5 DEF vars, progress, memory, history
  <2>2. Typed' /\ Aligned'
    BY <2>1 DEF IInv, Typed, Aligned
  <2>3. Windows'
    BY <2>1 DEF IInv, Windows
  <2>4. Remembered'
    BY <2>1, Zenon DEF IInv, Remembered
  <2>5. QED
    BY <2>2, <2>3, <2>4 DEF IInv
<1>6. QED
  BY <1>1, <1>2, <1>3, <1>4, <1>5 DEF Next

LEMMA Invariance == Spec => []IInv
<1>1. QED
  BY IInvInit, IInvNext, PTL DEF Spec

-----------------------------------------------------------------------------
\* The theorems.

\* The cursor, the belief, the memories of the filter and the router stay within their
\* types, and the state that was executed is in the skill of the estimated one.
THEOREM TypesAreCorrect == Spec => []TypeOK
<1>1. IInv => TypeOK
  BY DEF IInv, Typed, Aligned, RouterSet, TypeOK, SameSkill
<1>2. QED
  BY <1>1, Invariance, PTL

\* The window in which an unconfirmed grasp is trusted is open only for an event the arm
\* has been before since the last reset and that is not decided, and it leads at most
\* one state beyond the interval of the event (_formal_link_confirmation_pending).
THEOREM GraceStaysBounded == Spec => []GraceIsBounded
<1>1. IInv => GraceIsBounded
  BY DEF IInv, Windows, GraceIsBounded
<1>2. QED
  BY <1>1, Invariance, PTL

\* A grasp that was entered in sight and that no motion has decided is verified before
\* its missing link counts as a mismatch of the reference (_verification_requests).
THEOREM MemoriesAreVerifiedFirst == Spec => []MemoryIsVerifiedFirst
<1>1. IInv => MemoryIsVerifiedFirst
  BY DEF IInv, Remembered, MemoryIsVerifiedFirst
<1>2. QED
  BY <1>1, Invariance, PTL

\* A relation is remembered only if a motion or a verification has decided it since the
\* frame was lost (RelationFilter.update, _commit_informative_evidence).
THEOREM TheLostAreTested == Spec => []LostMustBeTested
<1>1. IInv => LostMustBeTested
  BY DEF IInv, Remembered, LostMustBeTested
<1>2. QED
  BY <1>1, Invariance, PTL

\* The task never runs backwards in a skill and leaves a skill only for the entry of the
\* next, unless a recovery reenters it (_decision, query_after_boundary_transition).
THEOREM ExecutionMovesForward == Spec => NormalExecutionMovesForward
<1> DEFINE Forward ==
      \/ ref' >= ref /\ (SameSkill(ref, ref') \/ ref' = Successor(Terminal(ref)))
      \/ router'.committed = NoState
<1>1. IInv /\ [Next]_vars => [Forward]_vars
  <2> SUFFICES ASSUME IInv, Next PROVE Forward
    OBVIOUS
  <2>1. CASE TaskCycle
    <3>1. PICK b : \E s \in States : CycleOf(Stays, b, s)
      BY <2>1, TaskCycles
    <3>2. PICK s \in States : CycleOf(Stays, b, s)
      BY <3>1
    <3>3. ref' = s /\ ref <= s /\ SameSkill(ref, s)
      BY <3>2, StaysAssigns
    <3>4. QED
      BY <3>3
  <2>2. CASE CrossingCycle
    <3>1. PICK b : \E s \in States : CycleOf(Crosses, b, s)
      BY <2>2, CrossingCycles
    <3>2. PICK s \in States : CycleOf(Crosses, b, s)
      BY <3>1
    <3>3. PICK t, n, r : CrossesTo(b, s, t, n, r) /\ t = Terminal(ref)
      BY <3>2, CrossesAssigns
    <3>4. /\ ref' = n /\ n = t + 1 /\ ref <= s /\ s <= t
          /\ s \in States /\ t \in States /\ ref \in States
      BY <3>3 DEF CrossesTo, IInv, Typed
    <3>5. ref' >= ref
      BY <3>4, Constants DEF States
    <3>6. ref' = Successor(Terminal(ref))
      BY <3>3, <3>4 DEF Successor
    <3>7. QED
      BY <3>5, <3>6
  <2>3. CASE FrozenCycle
    <3>1. ref' = ref /\ ref \in States
      BY <2>3 DEF FrozenCycle, IInv, Typed
    <3>2. QED
      BY <3>1, Constants DEF States, SameSkill
  <2>4. ASSUME NEW s \in States, Reenter(s) PROVE Forward
    BY <2>4, ReenterSteps
  <2>5. QED
    BY <2>1, <2>2, <2>3, <2>4 DEF Next
<1>2. QED
  BY <1>1, Invariance, PTL DEF Spec, NormalExecutionMovesForward
=============================================================================
