----------------------- MODULE BoundaryTransactionProofs -----------------------
(***************************************************************************)
(* Theorems about BoundaryTransaction for any arms, skills, transaction    *)
(* groups, conditions and confirmation counts.                             *)
(*                                                                         *)
(* Both kinds of cycle commit in the same way: they evaluate the guards of *)
(* some current boundaries and cross a group-closed set of those whose     *)
(* counts reached H.  Lemma EveryStepCommits establishes that once, and    *)
(* every invariant is then shown to survive such a commit.                 *)
(***************************************************************************)
EXTENDS BoundaryTransaction, TLAPS

USE ConstantsAssumption

\* One commit: the boundaries of E are evaluated in tick t, and X is crossed.
Commit(t, E, obs, n, requests, X, S, support) ==
  /\ t \in Nat /\ t > tick
  /\ tick' = t
  /\ E \subseteq Current(Arms)
  /\ n = Counts(t, E, obs)
  /\ X \subseteq E
  /\ \A b \in X : Permitted(b, n)
  /\ \A b \in X : GroupOf(b) \subseteq X
  /\ \A a \in Arms : support[a] # {} /\ support[a] \subseteq Support(a)
  /\ Observe(t, E, obs, n)
  /\ Crossing(t, requests, X, S, support)

\* What a step that commits nothing leaves alone.
Stays == UNCHANGED <<tick, mode, cursorVars, guardVars, history>>

LEMMA BoundaryArms ==
  ASSUME NEW b \in Boundaries
  PROVE  b[1] \in Arms /\ b[2] \in 0 .. LastSkill[b[1]] - 1 /\ b = <<b[1], b[2]>>
BY DEF Boundaries

LEMMA BoundaryIntro ==
  ASSUME NEW a \in Arms, NEW k \in 0 .. LastSkill[a] - 1
  PROVE  <<a, k>> \in Boundaries
BY DEF Boundaries

\* The coordinator resolves only what was evaluated and permitted, and groups as
\* a whole.
LEMMA ResolveSound ==
  ASSUME NEW E \in SUBSET Boundaries, NEW n, NEW b \in Resolve(E, n)
  PROVE  /\ b \in E /\ Permitted(b, n)
         /\ \A m \in GroupOf(b) : m \in Resolve(E, n)
<1>1. b \in GroupOf(b)
  BY DEF GroupOf, Resolve
<1>2. ASSUME NEW m \in GroupOf(b) PROVE GroupOf(m) \subseteq GroupOf(b)
  BY DEF GroupOf
<1>3. QED
  BY <1>1, <1>2 DEF Resolve

LEMMA CurrentBoundaries ==
  ASSUME NEW S PROVE Current(S) \subseteq Boundaries
BY DEF Current

LEMMA EligibleSound ==
  ASSUME NEW E \in SUBSET Boundaries, NEW n, NEW R, NEW C, NEW next,
         NEW b \in Eligible(Resolve(E, n), R, C, next)
  PROVE  /\ b \in E /\ Permitted(b, n)
         /\ GroupOf(b) \subseteq Eligible(Resolve(E, n), R, C, next)
<1>1. b \in Resolve(E, n)
  BY DEF Eligible
<1>2. ASSUME NEW m \in GroupOf(b)
      PROVE  m \in Eligible(Resolve(E, n), R, C, next)
  <2>1. m \in Resolve(E, n)
    BY <1>1, <1>2, ResolveSound
  <2>2. GroupOf(m) \subseteq GroupOf(b)
    BY <1>2 DEF GroupOf
  <2>3. QED
    BY <2>1, <2>2 DEF Eligible
<1>3. QED
  BY <1>1, <1>2, ResolveSound

--------------------------------------------------------------------------------
\* The counts and cursors are typed.
TypeInv ==
  /\ tick \in Nat
  /\ skill \in [Arms -> Nat]
  /\ mass \in [Arms -> SUBSET Nat]
  /\ permit \subseteq Boundaries
  /\ streak \in [Boundaries -> [CondIds -> Nat]]
  /\ evalTick \in [Boundaries -> Nat]
  /\ seen \in [Boundaries -> [CondIds -> SUBSET Nat]]
  /\ crossedAt \in [Boundaries -> Nat]

\* Every auxiliary cycle commits what is eligible of the previewed boundaries.
LEMMA AuxiliaryCycleActs ==
  ASSUME AuxiliaryCycle
  PROVE  \E t, next, R, E, obs, n, C, done :
           /\ t \in Ticks /\ next \in [Arms -> Modes]
           /\ E = Current(ReentryBoundaryArms(R)) /\ n = Counts(t, E, obs)
           /\ AuxAct(t, obs, n, next, R, Eligible(Resolve(E, n), R, C, next), done)
<1>1. PICK t \in Ticks, next \in [Arms -> Modes] :
        \E R \in {{a \in Arms : next[a] = "reentry"}} :
        \E E \in {Current(ReentryBoundaryArms(R))} :
        \E obs \in SUBSET Observable(E) :
        \E n \in {Counts(t, E, obs)} :
        \E P \in {Resolve(E, n)} :
        \E C \in SUBSET {a \in R : <<a, skill[a]>> \in P \cup permit} :
        \E X \in {Eligible(P, R, C, next)}, D \in SUBSET (R \ C) :
           AuxAct(t, obs, n, next, R, X, D \cup {a \in R : \E b \in X : b[1] = a})
  BY DEF AuxiliaryCycle
<1>2. PICK R \in {{a \in Arms : next[a] = "reentry"}} :
        \E E \in {Current(ReentryBoundaryArms(R))} :
        \E obs \in SUBSET Observable(E) :
        \E n \in {Counts(t, E, obs)} :
        \E P \in {Resolve(E, n)} :
        \E C \in SUBSET {a \in R : <<a, skill[a]>> \in P \cup permit} :
        \E X \in {Eligible(P, R, C, next)}, D \in SUBSET (R \ C) :
           AuxAct(t, obs, n, next, R, X, D \cup {a \in R : \E b \in X : b[1] = a})
  BY <1>1
<1>3. PICK E \in {Current(ReentryBoundaryArms(R))} :
        \E obs \in SUBSET Observable(E) :
        \E n \in {Counts(t, E, obs)} :
        \E P \in {Resolve(E, n)} :
        \E C \in SUBSET {a \in R : <<a, skill[a]>> \in P \cup permit} :
        \E X \in {Eligible(P, R, C, next)}, D \in SUBSET (R \ C) :
           AuxAct(t, obs, n, next, R, X, D \cup {a \in R : \E b \in X : b[1] = a})
  BY <1>2
<1>4. PICK obs \in SUBSET Observable(E) :
        \E n \in {Counts(t, E, obs)} :
        \E P \in {Resolve(E, n)} :
        \E C \in SUBSET {a \in R : <<a, skill[a]>> \in P \cup permit} :
        \E X \in {Eligible(P, R, C, next)}, D \in SUBSET (R \ C) :
           AuxAct(t, obs, n, next, R, X, D \cup {a \in R : \E b \in X : b[1] = a})
  BY <1>3
<1>5. PICK n \in {Counts(t, E, obs)} :
        \E P \in {Resolve(E, n)} :
        \E C \in SUBSET {a \in R : <<a, skill[a]>> \in P \cup permit} :
        \E X \in {Eligible(P, R, C, next)}, D \in SUBSET (R \ C) :
           AuxAct(t, obs, n, next, R, X, D \cup {a \in R : \E b \in X : b[1] = a})
  BY <1>4
<1>6. PICK P \in {Resolve(E, n)} :
        \E C \in SUBSET {a \in R : <<a, skill[a]>> \in P \cup permit} :
        \E X \in {Eligible(P, R, C, next)}, D \in SUBSET (R \ C) :
           AuxAct(t, obs, n, next, R, X, D \cup {a \in R : \E b \in X : b[1] = a})
  BY <1>5
<1>7. PICK C \in SUBSET {a \in R : <<a, skill[a]>> \in P \cup permit} :
        \E X \in {Eligible(P, R, C, next)}, D \in SUBSET (R \ C) :
           AuxAct(t, obs, n, next, R, X, D \cup {a \in R : \E b \in X : b[1] = a})
  BY <1>6
<1>8. PICK X \in {Eligible(P, R, C, next)}, D \in SUBSET (R \ C) :
           AuxAct(t, obs, n, next, R, X, D \cup {a \in R : \E b \in X : b[1] = a})
  BY <1>7
<1>9. AuxAct(t, obs, n, next, R, Eligible(Resolve(E, n), R, C, next),
             D \cup {a \in R : \E b \in X : b[1] = a})
  BY <1>8
<1> DEFINE done == D \cup {a \in R : \E b \in X : b[1] = a}
<1> HIDE DEF done
<1>10. /\ E = Current(ReentryBoundaryArms(R)) /\ n = Counts(t, E, obs)
       /\ AuxAct(t, obs, n, next, R, Eligible(Resolve(E, n), R, C, next), done)
  BY <1>9 DEF done
<1>11. QED
  BY <1>10

\* Every step commits one batch of resolved boundaries, or nothing.
LEMMA EveryStepCommits ==
  ASSUME TypeInv, \A a \in Arms : mass[a] # {}, [Next]_vars
  PROVE  \/ Stays
         \/ \E t, E, obs, n, requests, X, S, support :
              Commit(t, E, obs, n, requests, X, S, support)
<1>1. CASE UNCHANGED vars
  BY <1>1 DEF vars, Stays
<1>2. CASE TaskCycle
  <2>1. PICK t \in Ticks, obs \in SUBSET Observable(Current(Arms)) :
          \E n \in {Counts(t, Current(Arms), obs)} :
          \E X \in {Resolve(Current(Arms), n)}, support \in Supports,
             D \in SUBSET Arms : TaskAct(t, obs, n, X, support, D)
    BY <1>2 DEF TaskCycle
  <2>2. PICK n \in {Counts(t, Current(Arms), obs)} :
          \E X \in {Resolve(Current(Arms), n)}, support \in Supports,
             D \in SUBSET Arms : TaskAct(t, obs, n, X, support, D)
    BY <2>1
  <2>3. PICK support \in Supports, D \in SUBSET Arms :
          TaskAct(t, obs, n, Resolve(Current(Arms), n), support, D)
    BY <2>2
  <2> DEFINE X == Resolve(Current(Arms), n)
  <2>4. t \in Nat /\ t > tick
    BY DEF Ticks, TypeInv
  <2>5. \A a \in Arms : support[a] # {} /\ support[a] \subseteq Support(a)
    BY DEF Supports
  <2>6. X \subseteq Current(Arms) /\ \A b \in X : Permitted(b, n) /\ GroupOf(b) \subseteq X
    BY ResolveSound, CurrentBoundaries
  <2>7. Stays \/ /\ Observe(t, Current(Arms), obs, n)
                 /\ Crossing(t, Current(Arms), X, D, support)
                 /\ tick' = t
    BY <2>3 DEF TaskAct, Refuse, Stays
  <2>8. CASE Stays
    BY <2>8
  <2>9. CASE /\ Observe(t, Current(Arms), obs, n)
             /\ Crossing(t, Current(Arms), X, D, support)
             /\ tick' = t
    <3>1. Commit(t, Current(Arms), obs, n, Current(Arms), X, D, support)
      BY <2>4, <2>5, <2>6, <2>9 DEF Commit
    <3>2. QED
      BY <3>1
  <2>10. QED
    BY <2>7, <2>8, <2>9
<1>3. CASE AuxiliaryCycle
  <2>1. PICK t, next, R, E, obs, n, C, S :
          /\ t \in Ticks /\ next \in [Arms -> Modes]
          /\ E = Current(ReentryBoundaryArms(R)) /\ n = Counts(t, E, obs)
          /\ AuxAct(t, obs, n, next, R, Eligible(Resolve(E, n), R, C, next), S)
    BY <1>3, AuxiliaryCycleActs
  <2> DEFINE X == Eligible(Resolve(E, n), R, C, next)
  <2>2. t \in Nat /\ t > tick
    BY <2>1 DEF Ticks, TypeInv
  <2>3. E \subseteq Current(Arms) /\ E \subseteq Boundaries
    <3>1. E \subseteq Boundaries
      BY <2>1, CurrentBoundaries
    <3>2. \A b \in E : b[2] = skill[b[1]]
      BY <2>1 DEF Current
    <3>3. QED
      BY <3>1, <3>2, BoundaryArms DEF Current
  <2>4. X \subseteq E /\ \A b \in X : Permitted(b, n) /\ GroupOf(b) \subseteq X
    BY <2>3, EligibleSound
  <2> HIDE DEF X
  <2>5. Stays \/ (Observe(t, E, obs, n) /\ Crossing(t, X, X, S, mass) /\ tick' = t)
    BY <2>1 DEF AuxAct, Refuse, Stays, X
  <2>6. \A a \in Arms : mass[a] # {} /\ mass[a] \subseteq Support(a)
    BY DEF Support
  <2>7. CASE Stays
    BY <2>7
  <2>8. CASE Observe(t, E, obs, n) /\ Crossing(t, X, X, S, mass) /\ tick' = t
    <3>1. Commit(t, E, obs, n, X, X, S, mass)
      BY <2>1, <2>2, <2>3, <2>4, <2>6, <2>8 DEF Commit
    <3>2. QED
      BY <3>1
  <2>9. QED
    BY <2>5, <2>7, <2>8
<1>4. QED
  BY <1>1, <1>2, <1>3 DEF Next

--------------------------------------------------------------------------------
\* Progress mass, the committed boundaries and the cursor agree.
CursorInv ==
  /\ CursorMatchesBelief
  /\ \A b \in permit : b[2] < skill[b[1]]

\* The counts are backed by the recorded ticks.  A count never exceeds its tick,
\* so a condition that was never evaluated has count 0.
CountInv ==
  \A b \in Boundaries, c \in CondIds :
    /\ evalTick[b] <= tick
    /\ streak[b][c] <= evalTick[b]
    /\ \A i \in 0 .. Confirm[b] - 1 :
         i < streak[b][c] => evalTick[b] - i \in seen[b][c]

IInv == TypeInv /\ CursorInv /\ CountInv /\ GroupAtomic /\ ConfirmedCrossing

LEMMA InitIInv == Init => IInv
<1> SUFFICES ASSUME Init PROVE IInv
  OBVIOUS
<1>1. TypeInv
  BY DEF Init, TypeInv
<1>2. CursorInv
  BY BoundaryIntro DEF Init, CursorInv, CursorMatchesBelief
<1>3. CountInv
  BY DEF Init, CountInv
<1>4. GroupAtomic /\ ConfirmedCrossing
  BY DEF Init, GroupAtomic, ConfirmedCrossing
<1>5. QED
  BY <1>1, <1>2, <1>3, <1>4 DEF IInv

\* A cursor is past its committed boundary, so the prior leaves all mass at the cursor.
LEMMA OnlyOwnSupport ==
  ASSUME TypeInv, CursorInv, NEW a \in Arms
  PROVE  Support(a) = {skill[a]}
<1>1. ASSUME <<a, skill[a]>> \in permit PROVE FALSE
  <2>1. skill[a] < skill[a] /\ skill[a] \in Nat
    BY <1>1 DEF CursorInv, TypeInv
  <2>2. QED
    BY <2>1
<1>2. QED
  BY <1>1 DEF Support, CursorInv, CursorMatchesBelief

\* What a commit does to the cursor of each arm.
LEMMA CommitMoves ==
  ASSUME TypeInv, CursorInv,
         NEW t, NEW E, NEW obs, NEW n, NEW requests, NEW X, NEW S, NEW support,
         Commit(t, E, obs, n, requests, X, S, support)
  PROVE  /\ X \subseteq Boundaries /\ \A b \in X : b[2] = skill[b[1]]
         /\ \A b \in E : b \in Boundaries /\ b[2] = skill[b[1]]
         /\ \A a \in Arms : IF <<a, skill[a]>> \in X
                            THEN skill'[a] = skill[a] + 1
                            ELSE skill'[a] = skill[a]
         /\ skill' \in [Arms -> Nat]
         /\ \A a \in Arms : mass'[a] = {skill'[a]}
<1>1. \A b \in E : b \in Boundaries /\ b[2] = skill[b[1]]
  BY DEF Commit, Current
<1>2. X \subseteq Boundaries /\ \A b \in X : b[2] = skill[b[1]]
  BY <1>1 DEF Commit
<1>3. ASSUME NEW a \in Arms
      PROVE  (\E b \in X : b[1] = a) <=> <<a, skill[a]>> \in X
  BY <1>2, BoundaryArms
<1>4. /\ skill' \in [Arms -> Nat]
      /\ \A a \in Arms : IF <<a, skill[a]>> \in X
                         THEN skill'[a] = skill[a] + 1
                         ELSE skill'[a] = skill[a]
  BY <1>3 DEF Commit, Crossing, TypeInv
<1>5. ASSUME NEW a \in Arms
      PROVE  support[a] = {skill[a]}
  BY OnlyOwnSupport DEF Commit
<1>6. \A a \in Arms : mass'[a] = {skill'[a]}
  BY <1>3, <1>4, <1>5 DEF Commit, Crossing
<1>7. QED
  BY <1>1, <1>2, <1>4, <1>6

LEMMA CommitTypes ==
  ASSUME TypeInv, CursorInv,
         NEW t, NEW E, NEW obs, NEW n, NEW requests, NEW X, NEW S, NEW support,
         Commit(t, E, obs, n, requests, X, S, support)
  PROVE  TypeInv'
<1>1. skill' \in [Arms -> Nat] /\ mass' \in [Arms -> SUBSET Nat]
  <2>1. mass' = [a \in Arms |-> mass'[a]]
    BY DEF Commit, Crossing
  <2>2. QED
    BY <2>1, CommitMoves
<1>2. permit' \subseteq Boundaries /\ crossedAt' \in [Boundaries -> Nat]
  <2>1. X \subseteq Boundaries
    BY CommitMoves
  <2>2. QED
    BY <2>1 DEF Commit, Crossing, TypeInv
<1>3. streak' \in [Boundaries -> [CondIds -> Nat]]
  BY DEF Commit, Observe, Counts, Carried, TypeInv
<1>4. evalTick' \in [Boundaries -> Nat] /\ tick' \in Nat
  BY DEF Commit, Observe, TypeInv
<1>5. seen' \in [Boundaries -> [CondIds -> SUBSET Nat]]
  BY DEF Commit, Observe, TypeInv
<1>6. QED
  BY <1>1, <1>2, <1>3, <1>4, <1>5 DEF TypeInv

LEMMA CommitCursor ==
  ASSUME TypeInv, CursorInv,
         NEW t, NEW E, NEW obs, NEW n, NEW requests, NEW X, NEW S, NEW support,
         Commit(t, E, obs, n, requests, X, S, support)
  PROVE  CursorInv'
<1>1. ASSUME NEW a \in Arms, NEW k \in 0 .. LastSkill[a] - 1
      PROVE  k < skill'[a] <=> crossedAt'[<<a, k>>] # 0
  <2>1. <<a, k>> \in Boundaries
    BY BoundaryIntro
  <2>2. crossedAt'[<<a, k>>] = IF <<a, k>> \in X THEN t ELSE crossedAt[<<a, k>>]
    BY <2>1 DEF Commit, Crossing
  <2>3. <<a, k>> \in X => k = skill[a]
    BY CommitMoves
  <2>4. k < skill[a] <=> crossedAt[<<a, k>>] # 0
    BY DEF CursorInv, CursorMatchesBelief
  <2>5. t # 0 /\ k \in Nat /\ skill[a] \in Nat
    BY DEF Commit, TypeInv
  <2>6. CASE <<a, k>> \in X
    <3>1. k = skill[a] /\ skill'[a] = skill[a] + 1
      BY <2>3, <2>6, CommitMoves
    <3>2. QED
      BY <2>2, <2>5, <2>6, <3>1
  <2>7. CASE <<a, k>> \notin X
    <3>1. CASE k = skill[a]
      BY <2>2, <2>4, <2>5, <2>7, <3>1, CommitMoves
    <3>2. CASE k # skill[a]
      <4>1. skill'[a] = skill[a] \/ skill'[a] = skill[a] + 1
        BY CommitMoves
      <4>2. QED
        BY <2>2, <2>4, <2>5, <2>7, <3>2, <4>1
    <3>3. QED
      BY <3>1, <3>2
  <2>8. QED
    BY <2>6, <2>7
<1>2. ASSUME NEW b \in permit' PROVE b[2] < skill'[b[1]]
  <2>1. b \in X
    BY DEF Commit, Crossing
  <2>2. b \in Boundaries /\ b[2] = skill[b[1]]
    BY <2>1, CommitMoves
  <2>3. b[1] \in Arms /\ b = <<b[1], skill[b[1]]>>
    BY <2>2, BoundaryArms
  <2>4. skill'[b[1]] = skill[b[1]] + 1 /\ skill[b[1]] \in Nat
    BY <2>1, <2>3, CommitMoves DEF TypeInv
  <2>5. QED
    BY <2>2, <2>4
<1>3. QED
  BY <1>1, <1>2, CommitMoves DEF CursorInv, CursorMatchesBelief

LEMMA CommitCounts ==
  ASSUME TypeInv, CountInv,
         NEW t, NEW E, NEW obs, NEW n, NEW requests, NEW X, NEW S, NEW support,
         Commit(t, E, obs, n, requests, X, S, support)
  PROVE  CountInv'
<1> SUFFICES ASSUME NEW b \in Boundaries, NEW c \in CondIds
             PROVE  /\ evalTick'[b] <= tick'
                    /\ streak'[b][c] <= evalTick'[b]
                    /\ \A i \in 0 .. Confirm[b] - 1 :
                         i < streak'[b][c] => evalTick'[b] - i \in seen'[b][c]
  BY DEF CountInv
<1>1. /\ t \in Nat /\ tick \in Nat /\ t > tick /\ tick' = t
      /\ evalTick[b] \in Nat /\ streak[b][c] \in Nat
      /\ Confirm[b] \in Nat \ {0}
  BY DEF Commit, TypeInv
<1>2. /\ evalTick[b] <= tick
      /\ streak[b][c] <= evalTick[b]
      /\ \A i \in 0 .. Confirm[b] - 1 :
           i < streak[b][c] => evalTick[b] - i \in seen[b][c]
  BY DEF CountInv
<1>3. CASE b \notin E
  <2>1. /\ evalTick'[b] = evalTick[b] /\ streak'[b] = streak[b]
        /\ seen'[b][c] = seen[b][c]
    BY <1>3 DEF Commit, Observe, Counts
  <2>2. QED
    BY <1>1, <1>2, <2>1
<1>4. CASE b \in E
  <2>1. evalTick'[b] = t
    BY <1>4 DEF Commit, Observe
  <2>2. streak'[b][c] = IF <<b, c>> \in obs THEN Carried(t, b)[c] + 1 ELSE 0
    BY <1>4 DEF Commit, Observe, Counts
  <2>3. seen'[b][c] = {u \in seen[b][c] : t - u < Confirm[b]}
                        \cup (IF <<b, c>> \in obs THEN {t} ELSE {})
    BY <1>4 DEF Commit, Observe
  <2>4. /\ Carried(t, b)[c] \in Nat
        /\ Carried(t, b)[c] # 0 => /\ Carried(t, b)[c] = streak[b][c]
                                   /\ evalTick[b] = t - 1
    BY <1>1, <1>2 DEF Carried
  <2>5. CASE <<b, c>> \notin obs
    BY <1>1, <2>1, <2>2, <2>5
  <2>6. CASE <<b, c>> \in obs
    <3>1. streak'[b][c] = Carried(t, b)[c] + 1
      BY <2>2, <2>6
    <3>2. streak'[b][c] <= t
      BY <1>1, <1>2, <2>4, <3>1
    <3>3. ASSUME NEW i \in 0 .. Confirm[b] - 1, i < streak'[b][c]
          PROVE  t - i \in seen'[b][c]
      <4>1. CASE i = 0
        BY <1>1, <2>3, <2>6, <4>1
      <4>2. CASE i # 0
        <5>1. i - 1 \in 0 .. Confirm[b] - 1 /\ i - 1 < Carried(t, b)[c]
          BY <1>1, <2>4, <3>1, <3>3, <4>2
        <5>2. evalTick[b] = t - 1 /\ i - 1 < streak[b][c]
          BY <2>4, <5>1
        <5>3. evalTick[b] - (i - 1) \in seen[b][c]
          BY <1>2, <5>1, <5>2
        <5>4. evalTick[b] - (i - 1) = t - i /\ t - (t - i) < Confirm[b]
          BY <1>1, <5>2
        <5>5. QED
          BY <2>3, <5>3, <5>4
      <4>3. QED
        BY <4>1, <4>2
    <3>4. QED
      BY <1>1, <2>1, <3>2, <3>3
  <2>7. QED
    BY <2>5, <2>6
<1>5. QED
  BY <1>3, <1>4

LEMMA CommitGroups ==
  ASSUME TypeInv, GroupAtomic,
         NEW t, NEW E, NEW obs, NEW n, NEW requests, NEW X, NEW S, NEW support,
         Commit(t, E, obs, n, requests, X, S, support)
  PROVE  GroupAtomic'
<1> SUFFICES ASSUME NEW b \in Boundaries, NEW m \in Boundaries,
                    Group[b] # NoGroup, Group[b] = Group[m]
             PROVE  crossedAt'[b] = crossedAt'[m]
  BY DEF GroupAtomic
<1>1. b \in GroupOf(m) /\ m \in GroupOf(b)
  BY DEF GroupOf
<1>2. b \in X <=> m \in X
  BY <1>1 DEF Commit
<1>3. QED
  BY <1>2 DEF Commit, Crossing, GroupAtomic

LEMMA CommitConfirmed ==
  ASSUME TypeInv, CursorInv, CountInv, ConfirmedCrossing,
         NEW t, NEW E, NEW obs, NEW n, NEW requests, NEW X, NEW S, NEW support,
         Commit(t, E, obs, n, requests, X, S, support)
  PROVE  ConfirmedCrossing'
<1> SUFFICES ASSUME NEW b \in Boundaries, crossedAt'[b] # 0,
                    NEW c \in Conditions[b], NEW i \in 0 .. Confirm[b] - 1
             PROVE  crossedAt'[b] - i \in seen'[b][c]
  BY DEF ConfirmedCrossing
<1>1. c \in CondIds /\ Confirm[b] \in Nat \ {0}
  BY DEF CondIds
<1>2. crossedAt'[b] = IF b \in X THEN t ELSE crossedAt[b]
  BY DEF Commit, Crossing
<1>3. CASE b \in X
  <2>1. b \in E /\ streak'[b][c] >= Confirm[b]
    BY <1>3 DEF Commit, Observe, Permitted
  <2>2. evalTick'[b] = t
    BY <2>1 DEF Commit, Observe
  <2>3. CountInv' /\ TypeInv'
    BY CommitCounts, CommitTypes
  <2>4. i < streak'[b][c]
    BY <1>1, <2>1, <2>3 DEF TypeInv
  <2>5. QED
    BY <1>1, <1>2, <1>3, <2>2, <2>3, <2>4 DEF CountInv
<1>4. CASE b \notin X
  <2>1. crossedAt[b] # 0 /\ crossedAt[b] - i \in seen[b][c]
    BY <1>2, <1>4 DEF ConfirmedCrossing
  <2>2. b[1] \in Arms /\ b[2] \in 0 .. LastSkill[b[1]] - 1 /\ b = <<b[1], b[2]>>
    BY BoundaryArms
  <2>3. b[2] < skill[b[1]] /\ skill[b[1]] \in Nat
    BY <2>1, <2>2 DEF CursorInv, CursorMatchesBelief, TypeInv
  <2>4. b \notin E
    BY <2>2, <2>3, CommitMoves
  <2>5. seen'[b][c] = seen[b][c]
    BY <1>1, <2>4 DEF Commit, Observe
  <2>6. QED
    BY <1>2, <1>4, <2>1, <2>5
<1>5. QED
  BY <1>3, <1>4

LEMMA NextIInv == IInv /\ [Next]_vars => IInv'
<1> SUFFICES ASSUME IInv, [Next]_vars PROVE IInv'
  OBVIOUS
<1>1. \A a \in Arms : mass[a] # {}
  BY DEF IInv, CursorInv, CursorMatchesBelief
<1>2. CASE Stays
  BY <1>2 DEF Stays, cursorVars, guardVars, history, IInv, TypeInv, CursorInv,
              CursorMatchesBelief, CountInv, GroupAtomic, ConfirmedCrossing
<1>3. CASE \E t, E, obs, n, requests, X, S, support :
             Commit(t, E, obs, n, requests, X, S, support)
  <2>1. PICK t, E, obs, n, requests, X, S, support :
          Commit(t, E, obs, n, requests, X, S, support)
    BY <1>3
  <2>2. TypeInv' /\ CursorInv'
    BY <2>1, CommitTypes, CommitCursor DEF IInv
  <2>3. CountInv' /\ GroupAtomic' /\ ConfirmedCrossing'
    BY <2>1, CommitCounts, CommitGroups, CommitConfirmed DEF IInv
  <2>4. QED
    BY <2>2, <2>3 DEF IInv
<1>4. QED
  BY <1>1, <1>2, <1>3, EveryStepCommits DEF IInv

LEMMA AlwaysIInv == Spec => []IInv
BY InitIInv, NextIInv, PTL DEF Spec

\* What TypeOK asks beyond TypeInv.
ActsTyped ==
  /\ mode \in [Arms -> Modes]
  /\ ctrlTick \in [Arms -> Nat]
  /\ coordTick \in Nat
  /\ refused \subseteq Boundaries

LEMMA TaskActTyped ==
  ASSUME ActsTyped, NEW t \in Nat, NEW obs, NEW n, NEW X, NEW support, NEW D,
         TaskAct(t, obs, n, X, support, D)
  PROVE  ActsTyped'
<1>1. CASE Refuse(Current(Arms))
  BY <1>1, CurrentBoundaries DEF Refuse, cursorVars, ActsTyped
<1>2. CASE ~Refuse(Current(Arms))
  BY <1>2 DEF TaskAct, Crossing, ActsTyped
<1>3. QED
  BY <1>1, <1>2

LEMMA AuxActTyped ==
  ASSUME ActsTyped, NEW t \in Nat, NEW obs, NEW n, NEW next \in [Arms -> Modes], NEW R,
         NEW X \in SUBSET Boundaries, NEW done, AuxAct(t, obs, n, next, R, X, done)
  PROVE  ActsTyped'
<1>1. CASE Refuse(X)
  BY <1>1 DEF Refuse, cursorVars, ActsTyped
<1>2. CASE ~Refuse(X)
  <2>1. /\ mode' = [a \in Arms |-> IF a \in done THEN "task" ELSE next[a]]
        /\ ctrlTick' = [a \in Arms |-> IF a \in done THEN 0 ELSE ctrlTick[a]]
        /\ coordTick' = IF X = {} THEN coordTick ELSE t
        /\ refused' = {}
    BY <1>2 DEF AuxAct, Crossing
  <2>2. "task" \in Modes
    BY DEF Modes
  <2>3. QED
    BY <2>1, <2>2 DEF ActsTyped
<1>3. QED
  BY <1>1, <1>2

LEMMA NextActsTyped ==
  ASSUME TypeInv, ActsTyped, [Next]_vars
  PROVE  ActsTyped'
<1>1. \A t \in Ticks : t \in Nat
  BY DEF Ticks, TypeInv
<1>2. CASE UNCHANGED vars
  BY <1>2 DEF vars, cursorVars, ActsTyped
<1>3. CASE TaskCycle
  BY <1>1, <1>3, TaskActTyped DEF TaskCycle
<1>4. CASE AuxiliaryCycle
  <2>1. PICK t, next, R, E, obs, n, C, done :
          /\ t \in Ticks /\ next \in [Arms -> Modes]
          /\ E = Current(ReentryBoundaryArms(R)) /\ n = Counts(t, E, obs)
          /\ AuxAct(t, obs, n, next, R, Eligible(Resolve(E, n), R, C, next), done)
    BY <1>4, AuxiliaryCycleActs
  <2>2. Eligible(Resolve(E, n), R, C, next) \in SUBSET Boundaries
    BY <2>1, CurrentBoundaries DEF Eligible, Resolve
  <2>3. QED
    BY <1>1, <2>1, <2>2, AuxActTyped
<1>5. QED
  BY <1>2, <1>3, <1>4 DEF Next

LEMMA InitActsTyped == Init => ActsTyped
BY DEF Init, ActsTyped, Modes

--------------------------------------------------------------------------------
\* The tick of the last committed batch is not ahead of the last act.
BatchInv == coordTick \in Nat /\ coordTick <= tick

LEMMA NextBatchInv ==
  ASSUME TypeInv, \A a \in Arms : mass[a] # {}, BatchInv, [Next]_vars
  PROVE  BatchInv'
<1>1. CASE Stays
  <2>1. tick' = tick /\ coordTick' = coordTick
    BY <1>1 DEF Stays, cursorVars
  <2>2. QED
    BY <2>1 DEF BatchInv
<1>2. CASE \E t, E, obs, n, requests, X, S, support :
             Commit(t, E, obs, n, requests, X, S, support)
  <2>1. PICK t, E, obs, n, requests, X, S, support :
          Commit(t, E, obs, n, requests, X, S, support)
    BY <1>2
  <2>2. t \in Nat /\ t > tick /\ tick' = t
    BY <2>1 DEF Commit
  <2>3. coordTick' \in {coordTick, t}
    BY <2>1 DEF Commit, Crossing
  <2>4. QED
    BY <2>2, <2>3 DEF BatchInv, TypeInv
<1>3. QED
  BY <1>1, <1>2, EveryStepCommits

\* In an ordinary cycle every validation of the batch succeeds: each boundary is the
\* one its arm stands before, its tick is new, and no prior mass lies beyond it.
LEMMA TaskCycleCommits ==
  ASSUME IInv, BatchInv, TaskCycle
  PROVE  refused' = {}
<1>1. PICK t \in Ticks, obs \in SUBSET Observable(Current(Arms)) :
        \E n \in {Counts(t, Current(Arms), obs)} :
        \E X \in {Resolve(Current(Arms), n)}, support \in Supports,
           D \in SUBSET Arms : TaskAct(t, obs, n, X, support, D)
  BY DEF TaskCycle
<1>2. PICK n \in {Counts(t, Current(Arms), obs)} :
        \E X \in {Resolve(Current(Arms), n)}, support \in Supports,
           D \in SUBSET Arms : TaskAct(t, obs, n, X, support, D)
  BY <1>1
<1>3. PICK support \in Supports, D \in SUBSET Arms :
        TaskAct(t, obs, n, Resolve(Current(Arms), n), support, D)
  BY <1>2
<1>4. coordTick < t
  BY DEF Ticks, IInv, TypeInv, BatchInv
<1>5. ASSUME NEW b \in Resolve(Current(Arms), n)
      PROVE  Valid(t, b, [a \in Arms |-> t], support)
  <2>1. b \in Boundaries /\ b[1] \in Arms /\ b[2] = skill[b[1]] /\ skill[b[1]] \in Nat
    BY BoundaryArms DEF Resolve, Current, IInv, TypeInv
  <2>2. Support(b[1]) = {skill[b[1]]}
    BY <2>1, OnlyOwnSupport DEF IInv
  <2>3. support[b[1]] \subseteq Support(b[1])
    BY <2>1 DEF Supports
  <2>4. QED
    BY <2>1, <2>2, <2>3 DEF Valid
<1>6. QED
  BY <1>3, <1>4, <1>5 DEF TaskAct

\* An auxiliary cycle that refuses its batch leaves the modes of the arms alone.
LEMMA AuxiliaryRefusals ==
  ASSUME AuxiliaryCycle
  PROVE  refused' = {} \/ \E a \in Arms : mode'[a] # "task"
<1>1. PICK t, next, R, E, obs, n, C, done :
        AuxAct(t, obs, n, next, R, Eligible(Resolve(E, n), R, C, next), done)
  BY AuxiliaryCycleActs
<1>2. refused' = {} \/ mode' = mode
  BY <1>1 DEF AuxAct, Refuse
<1>3. \E a \in Arms : mode[a] # "task"
  BY DEF AuxiliaryCycle
<1>4. QED
  BY <1>2, <1>3

--------------------------------------------------------------------------------
\* Every variable of the boundary transaction keeps its type: ticks, counts and cursors
\* are natural numbers, and only boundaries are permitted or refused.
THEOREM TypesAreCorrect == Spec => []TypeOK
<1>1. IInv /\ ActsTyped => TypeOK
  BY DEF IInv, TypeInv, ActsTyped, TypeOK
<1>2. IInv /\ ActsTyped /\ [Next]_vars => ActsTyped'
  BY NextActsTyped DEF IInv
<1>3. QED
  BY <1>1, <1>2, InitActsTyped, AlwaysIInv, PTL DEF Spec

\* A transaction group is crossed in one act or not at all, for any number of
\* arms and any grouping of their boundaries.
THEOREM GroupsAreAtomic == Spec => []GroupAtomic
<1>1. IInv => GroupAtomic
  BY DEF IInv
<1>2. QED
  BY <1>1, AlwaysIInv, PTL

\* No boundary is crossed without H consecutive confirmations of each condition.
THEOREM CrossingsAreConfirmed == Spec => []ConfirmedCrossing
<1>1. IInv => ConfirmedCrossing
  BY DEF IInv
<1>2. QED
  BY <1>1, AlwaysIInv, PTL

\* Progress mass and cursor stay in the same skill, however it was entered.
THEOREM CursorsMatchBeliefs == Spec => []CursorMatchesBelief
<1>1. IInv => CursorMatchesBelief
  BY DEF IInv, CursorInv
<1>2. QED
  BY <1>1, AlwaysIInv, PTL

\* No act is refused by the validations of its own commit while every arm executes
\* its task: only a batch that an arm crosses beside a reentry can be.
THEOREM TasksCommit == Spec => []TaskActsCommit
<1>1. Init => BatchInv /\ TaskActsCommit
  BY DEF Init, BatchInv, TaskActsCommit
<1>2. IInv /\ BatchInv /\ [Next]_vars => BatchInv'
  BY NextBatchInv DEF IInv, CursorInv, CursorMatchesBelief
<1>3. ASSUME IInv, BatchInv, TaskActsCommit, [Next]_vars
      PROVE  TaskActsCommit'
  <2>1. CASE UNCHANGED vars
    BY <1>3, <2>1 DEF vars, TaskActsCommit
  <2>2. CASE TaskCycle
    BY <1>3, <2>2, TaskCycleCommits DEF TaskActsCommit
  <2>3. CASE AuxiliaryCycle
    BY <2>3, AuxiliaryRefusals DEF TaskActsCommit
  <2>4. QED
    BY <1>3, <2>1, <2>2, <2>3 DEF Next
<1>4. QED
  BY <1>1, <1>2, <1>3, AlwaysIInv, PTL DEF Spec

\* The guards, the coordinator and reentry together implement the abstract
\* transaction.
THEOREM ImplementsAtomicCrossing == Spec => AtomicCrossingSpec
<1>1. Init => Abstract!Init
  BY DEF Init, Abstract!Init
<1>2. IInv /\ [Next]_vars => [Abstract!Next]_skill
  <2> SUFFICES ASSUME IInv, [Next]_vars PROVE [Abstract!Next]_skill
    OBVIOUS
  <2>1. \A a \in Arms : mass[a] # {}
    BY DEF IInv, CursorInv, CursorMatchesBelief
  <2>2. CASE Stays
    BY <2>2 DEF Stays, cursorVars
  <2>3. CASE \E t, E, obs, n, requests, X, S, support :
               Commit(t, E, obs, n, requests, X, S, support)
    <3>1. PICK t, E, obs, n, requests, X, S, support :
            Commit(t, E, obs, n, requests, X, S, support)
      BY <2>3
    <3>2. Abstract!Boundaries = Boundaries
      BY DEF Boundaries, Abstract!Boundaries
    <3>3. X \subseteq {b \in Boundaries : skill[b[1]] = b[2]}
      BY <3>1, CommitMoves DEF IInv
    <3>4. Abstract!Closed(X)
      BY <3>1, <3>2, <3>3 DEF Commit, GroupOf, Abstract!Closed
    <3>5. Abstract!Cross(X)
      BY <3>1, <3>2, <3>3, <3>4 DEF Commit, Crossing, Abstract!Cross
    <3>6. QED
      BY <3>2, <3>3, <3>5 DEF Abstract!Next
  <2>4. QED
    BY <2>1, <2>2, <2>3, EveryStepCommits DEF IInv
<1>3. QED
  BY <1>1, <1>2, AlwaysIInv, PTL DEF Spec, AtomicCrossingSpec, Abstract!Spec
================================================================================
