-------------------------- MODULE PhysicalFaultProofs --------------------------
(***************************************************************************)
(* Theorems about PhysicalFault for any objects, kinds of fault and limits.*)
(*                                                                         *)
(* A relation fault leaves its gripper either open or closed on nothing    *)
(* and with nothing to resolve: until it opens it attaches nothing, so     *)
(* what it holds later is a new grasp.  This rests on a close being        *)
(* resolved as soon as the gripper holds something.                        *)
(***************************************************************************)
EXTENDS PhysicalFault, FiniteSetTheorems, WellFoundedInduction, TLAPS

HandSet == [open : [Arms -> BOOLEAN], holds : [Arms -> SUBSET Graspable],
            pending : [Arms -> BOOLEAN]]

\* Grippers that hold at most one object each, and no two the same.
Separate(h) ==
  /\ h \in HandSet
  /\ \A a \in Arms : h.holds[a] = {} \/ \E o \in Graspable : h.holds[a] = {o}
  /\ h.holds["left"] \cap h.holds["right"] = {}

Sources == {"none", "attachment", "contact"}

FaultSet ==
  [triggered : BOOLEAN, active : 0 .. Duration, closing : BOOLEAN, counted : BOOLEAN,
   closes : 0 .. CloseOccurrence + 1, failing : BOOLEAN,
   locked : SUBSET Objects, targets : SUBSET Objects, source : Sources,
   stable : [source : Sources, objects : SUBSET Objects], cycles : 0 .. MinGrasped]

FaultTyped(f) ==
  /\ f \in FaultSet
  /\ f.locked \subseteq f.targets
  /\ f.failing => f.triggered /\ kind = "grasp_failure"

AuditSet == [effect : {"unknown", "seen", "unseen"}, restored : BOOLEAN,
             contact : 0 .. MinGrasped]

AuditTyped(u) == u \in AuditSet /\ (u.restored => u.effect = "seen")

\* A gripper that holds something has no close to resolve.
Resolved(h) == \A a \in Arms : h.holds[a] # {} => ~ h.pending[a]

\* The gripper of the fault has not been open since, so it attaches nothing.
Shut(h) == ~ h.open[arm] /\ ~ h.pending[arm] /\ h.holds[arm] = {}

Loose ==
  kind \in RelationKinds =>
    /\ Resolved(hands)
    /\ ~ fault.triggered => audit = NewAudit
    /\ fault.triggered =>
         /\ fault.source \in {"attachment", "contact"}
         /\ opened \/ (fault.source = "attachment" /\ Shut(hands))
                   \/ (fault.source = "contact" /\ audit.effect # "seen")
    /\ audit.restored => opened

IInv ==
  /\ Separate(hands)
  /\ kind \in Kinds /\ arm \in Arms
  /\ step \in 0 .. Earliest /\ segments \in 0 .. Segments
  /\ FaultTyped(fault)
  /\ AuditTyped(audit)
  /\ opened \in BOOLEAN /\ episode \in 1 .. Episodes
  /\ Loose
  /\ segments < Segments => fault = NewFault /\ audit = NewAudit

-----------------------------------------------------------------------------
\* Numbers, arms and their hands.

LEMMA Constants ==
  /\ Objects \subseteq Nat /\ Graspable \subseteq Objects
  /\ Duration \in Nat \ {0} /\ CloseOccurrence \in Nat \ {0}
  /\ MinGrasped \in Nat \ {0} /\ Episodes \in Nat \ {0}
  /\ Earliest \in Nat /\ Segments \in Nat
BY FaultSpecIsValid

LEMMA Peers ==
  /\ Peer("right") = "left" /\ Peer("left") = "right"
  /\ \A a \in Arms : Peer(a) \in Arms /\ Peer(a) # a /\ Arms = {a, Peer(a)}
BY DEF Arms, Peer

\* A set of naturals has a least element.
LEMMA LeastNatural ==
  ASSUME NEW S \in SUBSET Nat, S # {}
  PROVE  Min(S) \in S /\ \A x \in S : Min(S) <= x
<1> DEFINE Below == {p \in Nat \X Nat : p[1] < p[2]}
<1>1. IsWellFoundedOn(Below, Nat)
  BY NatLessThanWellFounded DEF OpToRel
<1>2. PICK x \in S : \A y \in S : ~ (<<y, x>> \in Below)
  BY <1>1, WFMin
<1>3. \A y \in S : ~ (y < x)
  BY <1>2
<1>4. \A y \in S : x <= y
  BY <1>3
<1>5. QED
  BY <1>4 DEF Min

LEMMA MinOfTwo ==
  ASSUME NEW m \in Nat, NEW n \in Nat
  PROVE  Min({m, n}) \in Nat /\ Min({m, n}) <= m /\ Min({m, n}) <= n
<1>1. {m, n} \in SUBSET Nat /\ {m, n} # {}
  OBVIOUS
<1>2. QED
  BY <1>1, LeastNatural

\* What becomes of the hands: they stay apart, what a gripper held one of them holds,
\* those that may not attach do not, nor those that have nothing to resolve.
Passes(h, r, off) ==
  /\ Separate(r)
  /\ \A a \in Arms : h.holds[a] \subseteq r.holds["left"] \cup r.holds["right"]
  /\ \A a \in off : a \in Arms => r.holds[a] \subseteq h.holds[a]
  /\ \A a \in Arms : ~ h.pending[a] => ~ r.pending[a] /\ r.holds[a] \subseteq h.holds[a]
  /\ r.open = h.open

\* An attempt of a gripper attaches the object it detects first, if it may.
LEMMA AttemptPasses ==
  ASSUME NEW h, Separate(h), NEW a \in Arms, NEW near \in [Arms -> SUBSET Objects],
         NEW off \in SUBSET Arms
  PROVE  LET r == Attempt(h, a, near, off) IN
         /\ Passes(h, r, off)
         /\ a \notin off /\ r.holds[a] # {} => ~ r.pending[a]
         /\ \A b \in Arms \ {a} : /\ r.pending[b] = h.pending[b]
                                  /\ r.holds[b] \subseteq h.holds[b]
<1> DEFINE detected == (near[a] \cup h.holds[a]) \cap Graspable
           o == Min(detected)
           r == Attempt(h, a, near, off)
<1>1. CASE ~ h.pending[a] \/ a \in off
  <2>1. r = h
    BY <1>1 DEF Attempt
  <2>2. Passes(h, h, off)
    <3>1. \A b \in Arms : h.holds[b] \subseteq h.holds["left"] \cup h.holds["right"]
      BY DEF Arms
    <3>2. QED
      BY <3>1, Zenon DEF Passes
  <2>3. a \in off \/ ~ h.pending[a]
    BY <1>1
  <2>4. QED
    BY <2>1, <2>2, <2>3, Zenon
<1>2. CASE ~ (~ h.pending[a] \/ a \in off) /\ h.holds[a] # {}
  <2>1. r = [h EXCEPT !.pending[a] = FALSE]
    BY <1>2 DEF Attempt
  <2> HIDE DEF r
  <2>2. /\ r \in HandSet /\ r.open = h.open /\ r.holds = h.holds
        /\ r.pending[a] = FALSE /\ \A b \in Arms \ {a} : r.pending[b] = h.pending[b]
    BY <2>1 DEF Separate, HandSet
  <2>3. \A b \in Arms : ~ h.pending[b] => ~ r.pending[b]
    BY <2>2, Zenon
  <2>4. h.holds[a] \subseteq h.holds["left"] \cup h.holds["right"]
    BY DEF Arms
  <2>5. Separate(r)
    BY <2>2 DEF Separate
  <2>6. Passes(h, r, off)
    BY <2>2, <2>3, <2>5 DEF Passes, Arms
  <2>7. QED
    BY <2>2, <2>6 DEF r
<1>3. CASE ~ (~ h.pending[a] \/ a \in off) /\ h.holds[a] = {} /\ detected = {}
  <2>1. r = h
    BY <1>3 DEF Attempt
  <2>2. QED
    BY <1>3, <2>1 DEF Passes, Separate, HandSet, Arms
<1>4. CASE ~ (~ h.pending[a] \/ a \in off) /\ h.holds[a] = {} /\ detected # {}
  <2>1. r = [h EXCEPT !.pending[a] = FALSE, !.holds[a] = {o},
                      !.holds[Peer(a)] = IF o \in @ THEN {} ELSE @]
    BY <1>4 DEF Attempt
  <2>2. o \in Graspable
    BY <1>4, LeastNatural, Constants
  <2> HIDE DEF o, detected
  <2>3. /\ r \in HandSet /\ r.open = h.open
        /\ r.pending[a] = FALSE /\ r.holds[a] = {o}
        /\ r.pending[Peer(a)] = h.pending[Peer(a)]
        /\ r.holds[Peer(a)] = IF o \in h.holds[Peer(a)] THEN {} ELSE h.holds[Peer(a)]
    <3>1. \A b \in Arms : b = a \/ b = Peer(a)
      BY Peers
    <3>2. r.open = h.open /\ r.pending = [h.pending EXCEPT ![a] = FALSE]
      BY <2>1 DEF Separate, HandSet
    <3>3. /\ r.holds \in [Arms -> SUBSET Graspable] /\ r.holds[a] = {o}
          /\ r.holds[Peer(a)] = IF o \in h.holds[Peer(a)] THEN {} ELSE h.holds[Peer(a)]
      BY <2>1, <2>2, Peers DEF Separate, HandSet
    <3>4. r.pending \in [Arms -> BOOLEAN] /\ r.pending[a] = FALSE
      BY <3>2 DEF Separate, HandSet
    <3>5. r.pending[Peer(a)] = h.pending[Peer(a)]
      BY <3>2, Peers DEF Separate, HandSet
    <3>6. r = [open |-> r.open, holds |-> r.holds, pending |-> r.pending]
      BY <2>1 DEF Separate, HandSet
    <3>7. r \in HandSet
      BY <3>2, <3>3, <3>4, <3>6 DEF Separate, HandSet
    <3>8. QED
      BY <3>2, <3>3, <3>4, <3>5, <3>7
  <2> HIDE DEF r
  <2>4. \A b \in Arms : r.holds[b] = {} \/ \E p \in Graspable : r.holds[b] = {p}
    BY <2>2, <2>3, Peers DEF Separate
  <2>5. r.holds["left"] \cap r.holds["right"] = {}
    BY <2>3, Peers DEF Arms, Separate
  <2>6. \A b \in Arms : h.holds[b] \subseteq r.holds["left"] \cup r.holds["right"]
    <3>1. h.holds[Peer(a)] \subseteq r.holds[a] \cup r.holds[Peer(a)]
      BY <2>3, Peers DEF Separate
    <3>2. QED
      BY <1>4, <3>1, Peers DEF Arms
  <2>7. Separate(r)
    BY <2>3, <2>4, <2>5 DEF Separate
  <2>8. \A b \in Arms \ {a} : r.pending[b] = h.pending[b] /\ r.holds[b] \subseteq h.holds[b]
    BY <2>3, Peers
  <2>9. QED
    BY <1>4, <2>3, <2>6, <2>7, <2>8 DEF Passes, r
<1>5. QED
  BY <1>1, <1>2, <1>3, <1>4

\* Both grippers attempt in turn.
LEMMA AttemptBothPasses ==
  ASSUME NEW h, Separate(h), NEW near \in [Arms -> SUBSET Objects], NEW off \in SUBSET Arms
  PROVE  LET r == AttemptBoth(h, near, off) IN
         /\ Passes(h, r, off)
         /\ off = {} => Resolved(r)
<1> DEFINE m == Attempt(h, "right", near, off)
           r == Attempt(m, "left", near, off)
<1>1. "right" \in Arms /\ "left" \in Arms /\ Arms = {"right", "left"}
  BY DEF Arms
<1>2. Passes(h, m, off) /\ ("right" \notin off /\ m.holds["right"] # {} => ~ m.pending["right"])
  BY <1>1, AttemptPasses
<1>3. Separate(m)
  BY <1>2 DEF Passes
<1>4. /\ Passes(m, r, off)
      /\ "left" \notin off /\ r.holds["left"] # {} => ~ r.pending["left"]
      /\ r.pending["right"] = m.pending["right"] /\ r.holds["right"] \subseteq m.holds["right"]
  BY <1>1, <1>3, AttemptPasses
<1> HIDE DEF m, r
<1>5. \A a \in Arms : h.holds[a] \subseteq r.holds["left"] \cup r.holds["right"]
  BY <1>1, <1>2, <1>4 DEF Passes
<1>6. \A a \in off : a \in Arms => r.holds[a] \subseteq h.holds[a]
  BY <1>2, <1>4 DEF Passes
<1>7. ASSUME NEW a \in Arms, ~ h.pending[a]
      PROVE  ~ r.pending[a] /\ r.holds[a] \subseteq h.holds[a]
  <2>1. ~ m.pending[a] /\ m.holds[a] \subseteq h.holds[a]
    BY <1>2, <1>7, Zenon DEF Passes
  <2>2. ~ r.pending[a] /\ r.holds[a] \subseteq m.holds[a]
    BY <1>4, <2>1, Zenon DEF Passes
  <2>3. QED
    BY <2>1, <2>2
<1>8. r.open = h.open /\ Separate(r)
  BY <1>2, <1>4 DEF Passes
<1>9. Passes(h, r, off)
  BY <1>5, <1>6, <1>7, <1>8, Zenon DEF Passes
<1>10. ASSUME off = {} PROVE Resolved(r)
  <2>1. r.holds["left"] # {} => ~ r.pending["left"]
    BY <1>4, <1>10, Zenon
  <2>2. r.holds["right"] # {} => ~ r.pending["right"]
    BY <1>2, <1>4, <1>10
  <2>3. QED
    BY <1>1, <2>1, <2>2 DEF Resolved
<1>11. QED
  BY <1>9, <1>10 DEF AttemptBoth, m, r

\* What a command makes of the hands.
Obeys(h, r, want, off) ==
  /\ Separate(r)
  /\ r.open = want
  /\ \A a \in Arms : \/ ~ h.open[a] /\ want[a]
                     \/ h.holds[a] \subseteq r.holds["left"] \cup r.holds["right"]
  /\ \A a \in off : a \in Arms => r.holds[a] \subseteq h.holds[a]
  /\ \A a \in Arms : ~ h.pending[a] /\ ~ h.open[a] /\ ~ want[a] =>
                       ~ r.pending[a] /\ r.holds[a] \subseteq h.holds[a]

LEMMA GripperObeys ==
  ASSUME NEW h, Separate(h), NEW want \in [Arms -> BOOLEAN],
         NEW near \in [Arms -> SUBSET Objects], NEW off \in SUBSET Arms
  PROVE  LET r == Gripper(h, want, near, off) IN
         /\ Obeys(h, r, want, off)
         /\ off = {} => Resolved(r)
<1> DEFINE changed == {a \in Arms : h.open[a] # want[a]}
           asked == [h EXCEPT
                       !.pending = [a \in Arms |-> IF a \in changed THEN ~want[a] ELSE @[a]],
                       !.holds = [a \in Arms |-> IF a \in changed /\ want[a] THEN {} ELSE @[a]]]
           first == AttemptBoth(asked, near, off)
           moved == [first EXCEPT !.open = want]
           r == Gripper(h, want, near, off)
<1>1. h.open \in [Arms -> BOOLEAN] /\ h.holds \in [Arms -> SUBSET Graspable]
      /\ h.pending \in [Arms -> BOOLEAN]
      /\ h = [open |-> h.open, holds |-> h.holds, pending |-> h.pending]
  BY DEF Separate, HandSet
<1>2. /\ asked.open = h.open
      /\ asked.holds = [a \in Arms |-> IF a \in changed /\ want[a] THEN {} ELSE h.holds[a]]
      /\ asked.pending = [a \in Arms |-> IF a \in changed THEN ~want[a] ELSE h.pending[a]]
      /\ asked = [open |-> asked.open, holds |-> asked.holds, pending |-> asked.pending]
  <2> DEFINE p == [a \in Arms |-> IF a \in changed THEN ~want[a] ELSE h.pending[a]]
             q == [a \in Arms |-> IF a \in changed /\ want[a] THEN {} ELSE h.holds[a]]
  <2>1. asked = [h EXCEPT !.pending = p, !.holds = q]
    OBVIOUS
  <2> HIDE DEF p, q, asked
  <2>2. asked = [open |-> h.open, holds |-> q, pending |-> p]
    BY <1>1, <2>1
  <2>3. QED
    BY <2>2 DEF p, q
<1>3. Separate(asked)
  <2>1. [a \in Arms |-> IF a \in changed THEN ~want[a] ELSE h.pending[a]] \in [Arms -> BOOLEAN]
    BY <1>1, Zenon
  <2>2. asked \in HandSet
    BY <1>1, <1>2, <2>1 DEF HandSet
  <2> HIDE DEF changed, asked
  <2>3. \A a \in Arms : asked.holds[a] \in {{}, h.holds[a]}
    BY <1>2
  <2>4. QED
    BY <2>2, <2>3 DEF Separate, Arms
<1>4. Passes(asked, first, off) /\ (off = {} => Resolved(first))
  BY <1>3, AttemptBothPasses
<1>5. \A a \in Arms : asked.holds[a] \subseteq h.holds[a]
  BY <1>1, <1>2
<1>6. \A a \in Arms : (~ h.open[a] /\ want[a]) \/ asked.holds[a] = h.holds[a]
  BY <1>1, <1>2
<1>7. \A a \in Arms : ~ h.pending[a] /\ ~ h.open[a] /\ ~ want[a] => ~ asked.pending[a]
  <2>1. ASSUME NEW a \in Arms, ~ h.pending[a], ~ h.open[a], ~ want[a] PROVE ~ asked.pending[a]
    <3>1. asked.pending[a] = IF a \in changed THEN ~want[a] ELSE h.pending[a]
      BY <1>2
    <3>2. a \notin changed
      BY <1>1, <2>1
    <3>3. QED
      BY <2>1, <3>1, <3>2, Zenon
  <2>2. QED
    BY <2>1, Zenon
<1>8. CASE changed = {}
  <2>1. r = first
    BY <1>8 DEF Gripper
  <2>2. h.open = want
    BY <1>1, <1>8
  <2>3. asked = h
    <3>1. asked.pending = h.pending /\ asked.holds = h.holds
      BY <1>1, <1>2, <1>8
    <3>2. QED
      BY <1>1, <1>2, <3>1
  <2> HIDE DEF asked, first, r, changed
  <2>4. Passes(h, r, off) /\ (off = {} => Resolved(r))
    BY <1>4, <2>1, <2>3
  <2>5. Obeys(h, r, want, off)
    BY <2>2, <2>4, Zenon DEF Passes, Obeys
  <2>6. QED
    BY <2>4, <2>5 DEF r
<1>9. CASE changed # {}
  <2>1. r = AttemptBoth(moved, near, off)
    BY <1>9 DEF Gripper
  <2>2. /\ moved.open = want /\ moved.holds = first.holds /\ moved.pending = first.pending
        /\ moved \in HandSet
    BY <1>4 DEF Passes, Separate, HandSet
  <2> HIDE DEF asked, moved, first, r, changed
  <2>3. Separate(moved)
    BY <1>4, <2>2 DEF Passes, Separate
  <2>4. Passes(moved, r, off) /\ (off = {} => Resolved(r))
    BY <2>1, <2>3, AttemptBothPasses
  <2>5. Separate(r) /\ r.open = want
    BY <2>2, <2>4 DEF Passes
  <2>6. \A a \in Arms : \/ ~ h.open[a] /\ want[a]
                        \/ h.holds[a] \subseteq r.holds["left"] \cup r.holds["right"]
    <3>1. \A a \in Arms : first.holds[a] \subseteq r.holds["left"] \cup r.holds["right"]
      BY <2>2, <2>4 DEF Passes
    <3>2. \A a \in Arms : asked.holds[a] \subseteq first.holds["left"] \cup first.holds["right"]
      BY <1>4 DEF Passes
    <3>3. "left" \in Arms /\ "right" \in Arms
      BY DEF Arms
    <3>4. \A a \in Arms : asked.holds[a] \subseteq r.holds["left"] \cup r.holds["right"]
      BY <3>1, <3>2, <3>3
    <3>5. QED
      BY <1>6, <3>4
  <2>7. \A a \in off : a \in Arms => r.holds[a] \subseteq h.holds[a]
    BY <1>4, <1>5, <2>2, <2>4 DEF Passes
  <2>8. ASSUME NEW a \in Arms, ~ h.pending[a], ~ h.open[a], ~ want[a]
        PROVE  ~ r.pending[a] /\ r.holds[a] \subseteq h.holds[a]
    <3>1. ~ asked.pending[a]
      BY <1>7, <2>8, Zenon
    <3>2. ~ first.pending[a] /\ first.holds[a] \subseteq asked.holds[a]
      BY <1>4, <3>1, Zenon DEF Passes
    <3>3. ~ moved.pending[a]
      BY <2>2, <3>2, Zenon
    <3>4. ~ r.pending[a] /\ r.holds[a] \subseteq moved.holds[a]
      BY <2>4, <3>3, Zenon DEF Passes
    <3>5. QED
      BY <1>5, <2>2, <3>2, <3>4
  <2>9. Obeys(h, r, want, off)
    BY <2>5, <2>6, <2>7, <2>8, Zenon DEF Obeys
  <2>10. QED
    BY <2>4, <2>9 DEF r
<1>10. QED
  BY <1>8, <1>9

\* The same for a step of the environment, in which only some grippers are authorised.
LEMMA EnvironmentObeys ==
  ASSUME NEW h, Separate(h), NEW want \in [Arms -> BOOLEAN], NEW authorised \in SUBSET Arms,
         NEW near \in [Arms -> SUBSET Objects], NEW off \in SUBSET Arms
  PROVE  LET r == EnvironmentStep(h, want, authorised, near, off) IN
         /\ \E w \in [Arms -> BOOLEAN] :
              /\ Obeys(h, r, w, off)
              /\ \A a \in authorised : w[a] = want[a]
         /\ off = {} /\ Resolved(h) => Resolved(r)
<1> DEFINE r == EnvironmentStep(h, want, authorised, near, off)
           w == [a \in Arms |-> IF a \in authorised THEN want[a] ELSE h.open[a]]
<1>1. h.open \in [Arms -> BOOLEAN]
  BY DEF Separate, HandSet
<1>2. CASE authorised = {}
  <2>1. r = h
    BY <1>2 DEF EnvironmentStep
  <2>2. Obeys(h, h, h.open, off)
    <3>1. \A a \in Arms : h.holds[a] \subseteq h.holds["left"] \cup h.holds["right"]
      BY DEF Arms
    <3>2. QED
      BY <3>1, Zenon DEF Obeys
  <2> HIDE DEF r
  <2>3. QED
    BY <1>1, <1>2, <2>1, <2>2 DEF r
<1>3. CASE authorised # {}
  <2>1. r = Gripper(h, w, near, off)
    BY <1>3 DEF EnvironmentStep
  <2>2. w \in [Arms -> BOOLEAN] /\ \A a \in authorised : w[a] = want[a]
    BY <1>1
  <2> HIDE DEF w, r
  <2>3. Obeys(h, r, w, off) /\ (off = {} => Resolved(r))
    BY <2>1, <2>2, GripperObeys
  <2>4. QED
    BY <2>2, <2>3 DEF r
<1>4. QED
  BY <1>2, <1>3

-----------------------------------------------------------------------------
\* The fault.

LEMMA NewTyped == FaultTyped(NewFault) /\ AuditTyped(NewAudit) /\ Separate(NewHands)
<1>1. FaultTyped(NewFault)
  BY Constants DEF FaultTyped, FaultSet, NewFault, Sources
<1>2. AuditTyped(NewAudit)
  BY Constants DEF AuditTyped, AuditSet, NewAudit
<1>3. Separate(NewHands)
  BY DEF Separate, HandSet, NewHands, Arms
<1>4. QED
  BY <1>1, <1>2, <1>3

LEMMA StalledTyped ==
  ASSUME FaultTyped(fault), NEW moving \in BOOLEAN
  PROVE  FaultTyped(Stalled(moving))
<1> DEFINE fires == ~fault.triggered /\ step >= Earliest /\ moving
           left == IF fires THEN Duration ELSE fault.active
           f == Stalled(moving)
<1>1. left \in 0 .. Duration /\ fires \in BOOLEAN
  BY Constants DEF FaultTyped, FaultSet
<1> HIDE DEF left, fires
<1>2. f = [fault EXCEPT !.triggered = @ \/ fires, !.active = IF left > 0 THEN left - 1 ELSE 0]
  BY DEF Stalled, left, fires
<1>3. (IF left > 0 THEN left - 1 ELSE 0) \in 0 .. Duration
  BY <1>1, Constants
<1>4. (fault.triggered \/ fires) \in BOOLEAN
  BY <1>1, Zenon DEF FaultTyped, FaultSet
<1> HIDE DEF f
<1>5. /\ f \in FaultSet /\ f.locked = fault.locked /\ f.targets = fault.targets
      /\ f.failing = fault.failing /\ f.triggered = (fault.triggered \/ fires)
  BY <1>2, <1>3, <1>4 DEF FaultTyped, FaultSet
<1>6. f.failing => f.triggered
  BY <1>5, Zenon DEF FaultTyped
<1>7. QED
  BY <1>5, <1>6 DEF FaultTyped, f

LEMMA MissedTyped ==
  ASSUME FaultTyped(fault), Separate(hands), arm \in Arms, kind = "grasp_failure",
         NEW close \in BOOLEAN, NEW look \in SUBSET Objects
  PROVE  FaultTyped(MissedGrasp(close, look))
<1> DEFINE counted == fault.counted /\ (fault.closing \/ ~close)
           fresh == close /\ ~counted /\ look # {}
           closes == IF fresh THEN Min({fault.closes + 1, CloseOccurrence + 1})
                     ELSE fault.closes
           fires == /\ ~fault.triggered
                    /\ step >= Earliest
                    /\ closes = CloseOccurrence
                    /\ close /\ look # {}
           failing == (fault.failing \/ fires) /\ close
           f == MissedGrasp(close, look)
<1>1. closes \in 0 .. CloseOccurrence + 1
  BY MinOfTwo, Constants DEF FaultTyped, FaultSet
<1>2. f = IF ~fault.triggered /\ ~fires
          THEN [fault EXCEPT !.closing = close,
                             !.counted = close /\ (counted \/ fresh),
                             !.closes = closes]
          ELSE IF failing
          THEN [NewFault EXCEPT !.triggered = TRUE,
                                !.failing = TRUE,
                                !.targets = fault.targets \cup look,
                                !.locked = fault.locked \cup (look \ hands.holds[Peer(arm)])]
          ELSE [NewFault EXCEPT !.triggered = TRUE]
  BY Zenon DEF MissedGrasp
<1>3. (close /\ (counted \/ fresh)) \in BOOLEAN
  OBVIOUS
<1> HIDE DEF closes, fires, failing, f, counted, fresh
<1>4. CASE ~fault.triggered /\ ~fires
  <2>1. f = [fault EXCEPT !.closing = close, !.counted = close /\ (counted \/ fresh),
                          !.closes = closes]
    BY <1>2, <1>4
  <2>2. /\ f \in FaultSet /\ f.locked = fault.locked /\ f.targets = fault.targets
        /\ f.failing = fault.failing /\ f.triggered = fault.triggered
    BY <1>1, <1>3, <2>1 DEF FaultTyped, FaultSet
  <2>3. f.failing => f.triggered
    BY <2>2, Zenon DEF FaultTyped
  <2>4. QED
    BY <2>2, <2>3 DEF FaultTyped, f
<1>5. CASE ~ (~fault.triggered /\ ~fires) /\ failing
  <2> DEFINE missed == fault.targets \cup look
             put == fault.locked \cup (look \ hands.holds[Peer(arm)])
  <2>1. missed \in SUBSET Objects /\ put \in SUBSET Objects /\ put \subseteq missed
    BY DEF FaultTyped, FaultSet
  <2>2. f = [NewFault EXCEPT !.triggered = TRUE, !.failing = TRUE, !.targets = missed,
                             !.locked = put]
    BY <1>2, <1>5
  <2> HIDE DEF missed, put
  <2>3. /\ f \in FaultSet /\ f.locked = put /\ f.targets = missed
        /\ f.triggered = TRUE
    BY <2>1, <2>2, NewTyped DEF FaultTyped, FaultSet, NewFault
  <2>4. QED
    BY <2>1, <2>3 DEF FaultTyped, f
<1>6. CASE ~ (~fault.triggered /\ ~fires) /\ ~failing
  <2>1. f = [NewFault EXCEPT !.triggered = TRUE]
    BY <1>2, <1>6
  <2>2. f \in FaultSet /\ f.locked = {} /\ f.triggered = TRUE
    BY <2>1, NewTyped DEF FaultTyped, FaultSet, NewFault
  <2>3. QED
    BY <2>2 DEF FaultTyped, f
<1>7. QED
  BY <1>4, <1>5, <1>6

\* A relation is loosened once: what the fault remembers is where it came from.
LEMMA LoosenedTyped ==
  ASSUME FaultTyped(fault), Separate(hands), arm \in Arms, kind \in RelationKinds,
         NEW close \in BOOLEAN, NEW look \in SUBSET Objects
  PROVE  LET f == Loosened(close, look) IN
         /\ FaultTyped(f)
         /\ \/ fault.triggered /\ f = fault
            \/ ~ fault.triggered /\ ~ f.triggered
            \/ /\ ~ fault.triggered /\ f.triggered
               /\ f.source = IF hands.holds[arm] # {} THEN "attachment" ELSE "contact"
<1> DEFINE held == hands.holds[arm]
           targets == IF held # {} THEN held ELSE IF close THEN look ELSE {}
           stable == IF targets = {} THEN NewFault.stable
                     ELSE [source |-> IF held # {} THEN "attachment" ELSE "contact",
                           objects |-> targets]
           cycles == IF targets = {} THEN 0
                     ELSE IF stable # fault.stable THEN 1
                     ELSE Min({fault.cycles + 1, MinGrasped})
           fires == ~fault.triggered /\ step >= Earliest /\ cycles >= MinGrasped
           f == Loosened(close, look)
<1>1. targets \in SUBSET Objects
  BY Constants DEF Separate, HandSet
<1>2. stable \in [source : Sources, objects : SUBSET Objects]
  BY <1>1 DEF Sources, NewFault
<1>3. cycles \in 0 .. MinGrasped
  BY MinOfTwo, Constants DEF FaultTyped, FaultSet
<1>4. fires => targets # {}
  BY Constants
<1>5. targets # {} => stable.source = IF hands.holds[arm] # {} THEN "attachment" ELSE "contact"
  OBVIOUS
<1>6. f = IF fault.triggered THEN fault
          ELSE IF fires
          THEN [NewFault EXCEPT !.triggered = TRUE, !.targets = targets,
                                !.source = stable.source]
          ELSE [fault EXCEPT !.stable = stable, !.cycles = cycles]
  BY Zenon DEF Loosened
<1>7. stable.source \in Sources
  BY <1>2
<1> HIDE DEF targets, stable, cycles, fires, f
<1>8. CASE fault.triggered
  BY <1>6, <1>8 DEF f
<1>9. CASE ~ fault.triggered /\ fires
  <2>1. f = [NewFault EXCEPT !.triggered = TRUE, !.targets = targets, !.source = stable.source]
    BY <1>6, <1>9
  <2>2. /\ f \in FaultSet /\ f.locked = {} /\ f.failing = FALSE /\ f.triggered = TRUE
        /\ f.source = stable.source
    BY <1>1, <1>7, <2>1, NewTyped DEF FaultTyped, FaultSet, NewFault
  <2>3. FaultTyped(f)
    BY <2>2 DEF FaultTyped
  <2>4. QED
    BY <1>4, <1>5, <1>9, <2>2, <2>3 DEF f
<1>10. CASE ~ fault.triggered /\ ~ fires
  <2>1. f = [fault EXCEPT !.stable = stable, !.cycles = cycles]
    BY <1>6, <1>10
  <2>2. /\ f \in FaultSet /\ f.locked = fault.locked /\ f.targets = fault.targets
        /\ f.failing = fault.failing /\ f.triggered = fault.triggered
    BY <1>2, <1>3, <2>1 DEF FaultTyped, FaultSet
  <2>3. FaultTyped(f)
    BY <2>2, Zenon DEF FaultTyped
  <2>4. ~ f.triggered
    BY <1>10, <2>2, Zenon
  <2>5. QED
    BY <1>10, <2>3, <2>4, Zenon DEF f
<1>11. QED
  BY <1>8, <1>9, <1>10

LEMMA InjectedTyped ==
  ASSUME FaultTyped(fault), Separate(hands), arm \in Arms, kind \in Kinds,
         NEW close \in BOOLEAN, NEW look \in SUBSET Objects, NEW moving \in BOOLEAN
  PROVE  FaultTyped(Injected(close, look, moving))
<1>1. CASE kind = "time_stall"
  BY <1>1, StalledTyped DEF Injected
<1>2. CASE kind = "grasp_failure"
  BY <1>2, MissedTyped DEF Injected
<1>3. CASE kind \notin {"time_stall", "grasp_failure"}
  <2>1. kind \in RelationKinds
    BY <1>3, FaultSpecIsValid
  <2>2. QED
    BY <1>3, <2>1, LoosenedTyped DEF Injected
<1>4. QED
  BY <1>1, <1>2, <1>3

-----------------------------------------------------------------------------
\* The audit.

LEMMA AuditedTyped ==
  ASSUME AuditTyped(audit), NEW f, NEW h, NEW near, NEW displaced \in BOOLEAN
  PROVE  /\ AuditTyped(AuditedStall(f))
         /\ AuditTyped(Audited(f, h, near, displaced))
<1>1. AuditTyped(AuditedStall(f))
  <2> DEFINE effect == IF f.triggered THEN "seen" ELSE audit.effect
             u == AuditedStall(f)
  <2>1. u = [audit EXCEPT !.effect = effect]
    BY DEF AuditedStall
  <2>2. effect \in {"unknown", "seen", "unseen"}
    BY DEF AuditTyped, AuditSet
  <2>3. audit.effect = "seen" => effect = "seen"
    OBVIOUS
  <2> HIDE DEF effect, u
  <2>4. u \in AuditSet /\ u.effect = effect /\ u.restored = audit.restored
    BY <2>1, <2>2 DEF AuditTyped, AuditSet
  <2>5. u.restored => u.effect = "seen"
    BY <2>3, <2>4, Zenon DEF AuditTyped
  <2>6. QED
    BY <2>4, <2>5 DEF AuditTyped, u
<1>2. AuditTyped(AuditedGrasp(f, h))
  <2> DEFINE missed == f.failing /\ (f.locked # {} \/ f.targets \cap h.holds[arm] = {})
             effect == IF missed THEN "seen" ELSE audit.effect
             again == effect = "seen" /\ ~f.failing /\ h.holds[arm] # {}
             u == AuditedGrasp(f, h)
  <2>1. u = [audit EXCEPT !.effect = effect, !.restored = @ \/ again]
    BY DEF AuditedGrasp
  <2>2. effect \in {"unknown", "seen", "unseen"}
    BY DEF AuditTyped, AuditSet
  <2>3. (audit.effect = "seen" => effect = "seen") /\ (again => effect = "seen")
    OBVIOUS
  <2>4. (audit.restored \/ again) \in BOOLEAN
    OBVIOUS
  <2> HIDE DEF effect, again, u
  <2>5. u \in AuditSet /\ u.effect = effect /\ u.restored = (audit.restored \/ again)
    BY <2>1, <2>2, <2>4 DEF AuditTyped, AuditSet
  <2>6. u.restored => u.effect = "seen"
    BY <2>3, <2>5, Zenon DEF AuditTyped
  <2>7. QED
    BY <2>5, <2>6 DEF AuditTyped, u
<1>3. AuditTyped(AuditedRelation(f, h, near, displaced))
  <2> DEFINE detached == IF f.source = "attachment" THEN f.targets \cap h.holds[arm] = {}
                         ELSE h.open[arm]
             touched == ~h.open[arm] /\ f.targets \subseteq near[arm] \cup h.holds[arm]
             contact == IF touched THEN Min({audit.contact + 1, MinGrasped}) ELSE 0
             back == IF f.source = "attachment" THEN ~detached ELSE contact >= MinGrasped
             effect == IF detached /\ displaced THEN "seen" ELSE "unseen"
             contacts == IF f.source = "contact" THEN contact ELSE audit.contact
             again == audit.effect = "seen" /\ back
             u == AuditedRelation(f, h, near, displaced)
  <2>1. u = IF ~f.triggered THEN audit
            ELSE IF audit.effect = "unknown" THEN [audit EXCEPT !.effect = effect]
            ELSE [audit EXCEPT !.contact = contacts, !.restored = @ \/ again]
    BY Zenon DEF AuditedRelation
  <2>2. contact \in 0 .. MinGrasped
    BY MinOfTwo, Constants DEF AuditTyped, AuditSet
  <2>3. contacts \in 0 .. MinGrasped /\ effect \in {"seen", "unseen"}
    BY <2>2 DEF AuditTyped, AuditSet
  <2>4. (audit.restored \/ again) \in BOOLEAN /\ (again => audit.effect = "seen")
    OBVIOUS
  <2> HIDE DEF effect, contacts, again, u
  <2>5. CASE ~f.triggered
    BY <2>1, <2>5 DEF u
  <2>6. CASE f.triggered /\ audit.effect = "unknown"
    <3>1. u \in AuditSet /\ u.restored = audit.restored
      BY <2>1, <2>3, <2>6 DEF AuditTyped, AuditSet
    <3>2. ~ audit.restored
      BY <2>6 DEF AuditTyped
    <3>3. QED
      BY <3>1, <3>2, Zenon DEF AuditTyped, u
  <2>7. CASE f.triggered /\ audit.effect # "unknown"
    <3>1. u \in AuditSet /\ u.effect = audit.effect /\ u.restored = (audit.restored \/ again)
      BY <2>1, <2>3, <2>4, <2>7 DEF AuditTyped, AuditSet
    <3>2. u.restored => u.effect = "seen"
      BY <2>4, <3>1, Zenon DEF AuditTyped
    <3>3. QED
      BY <3>1, <3>2 DEF AuditTyped, u
  <2>8. QED
    BY <2>5, <2>6, <2>7
<1>4. QED
  BY <1>1, <1>2, <1>3 DEF Audited

\* What the audit of a relation fault may conclude from the hands it sees.
LEMMA RelationAudited ==
  ASSUME AuditTyped(audit), kind \in RelationKinds,
         NEW f, NEW h, NEW near, NEW displaced \in BOOLEAN
  PROVE  LET u == Audited(f, h, near, displaced) IN
         /\ ~ f.triggered => u = audit
         /\ f.source = "contact" /\ u.effect = "seen" =>
              audit.effect = "seen" \/ h.open[arm]
         /\ u.restored => \/ audit.restored
                          \/ /\ audit.effect = "seen"
                             /\ f.source = "attachment" => h.holds[arm] # {}
<1> DEFINE detached == IF f.source = "attachment" THEN f.targets \cap h.holds[arm] = {}
                       ELSE h.open[arm]
           touched == ~h.open[arm] /\ f.targets \subseteq near[arm] \cup h.holds[arm]
           contact == IF touched THEN Min({audit.contact + 1, MinGrasped}) ELSE 0
           back == IF f.source = "attachment" THEN ~detached ELSE contact >= MinGrasped
           effect == IF detached /\ displaced THEN "seen" ELSE "unseen"
           contacts == IF f.source = "contact" THEN contact ELSE audit.contact
           again == audit.effect = "seen" /\ back
           u == Audited(f, h, near, displaced)
<1>1. kind \notin {"time_stall", "grasp_failure"}
  BY DEF RelationKinds
<1>2. u = IF ~f.triggered THEN audit
          ELSE IF audit.effect = "unknown" THEN [audit EXCEPT !.effect = effect]
          ELSE [audit EXCEPT !.contact = contacts, !.restored = @ \/ again]
  BY <1>1, Zenon DEF Audited, AuditedRelation
<1>3. effect = "seen" => detached
  OBVIOUS
<1>4. f.source = "contact" /\ detached => h.open[arm]
  OBVIOUS
<1>5. again => audit.effect = "seen" /\ (f.source = "attachment" => h.holds[arm] # {})
  OBVIOUS
<1> HIDE DEF effect, contacts, again, detached, u
<1>6. CASE ~f.triggered
  BY <1>2, <1>6 DEF u
<1>7. CASE f.triggered /\ audit.effect = "unknown"
  <2>1. u.effect = effect /\ u.restored = audit.restored
    BY <1>2, <1>7 DEF AuditTyped, AuditSet
  <2>2. u.restored => audit.restored
    BY <2>1, Zenon
  <2>3. QED
    BY <1>3, <1>4, <1>7, <2>1, <2>2 DEF u
<1>8. CASE f.triggered /\ audit.effect # "unknown"
  <2>1. u.effect = audit.effect /\ u.restored = (audit.restored \/ again)
    BY <1>2, <1>8 DEF AuditTyped, AuditSet
  <2>2. u.restored => audit.restored \/ again
    BY <2>1, Zenon
  <2>3. QED
    BY <1>5, <1>8, <2>1, <2>2, Zenon DEF u
<1>9. QED
  BY <1>6, <1>7, <1>8

-----------------------------------------------------------------------------
\* The steps.

Slackened(f) == IF Loosens(f) THEN [hands EXCEPT !.holds[arm] = {}] ELSE hands

LEMMA LooseHands ==
  ASSUME Separate(hands), arm \in Arms, NEW f
  PROVE  LET g == Slackened(f) IN
         /\ Separate(g)
         /\ g.open = hands.open /\ g.pending = hands.pending
         /\ \A a \in Arms : \/ g.holds[a] = hands.holds[a]
                            \/ a = arm /\ g.holds[a] = {} /\ Loosens(f)
         /\ Loosens(f) => g.holds[arm] = {}
         /\ Resolved(hands) => Resolved(g)
<1> DEFINE g == Slackened(f)
<1>1. CASE Loosens(f)
  <2>1. g = [hands EXCEPT !.holds[arm] = {}]
    BY <1>1 DEF Slackened
  <2> HIDE DEF g
  <2>2. /\ g \in HandSet /\ g.open = hands.open /\ g.pending = hands.pending
        /\ \A a \in Arms : g.holds[a] = IF a = arm THEN {} ELSE hands.holds[a]
    BY <2>1 DEF Separate, HandSet
  <2>3. Separate(g)
    BY <2>2 DEF Separate, Arms
  <2>4. Resolved(hands) => Resolved(g)
    BY <2>2 DEF Resolved
  <2>5. QED
    BY <1>1, <2>2, <2>3, <2>4 DEF g
<1>2. CASE ~ Loosens(f)
  BY <1>2 DEF Slackened
<1>3. QED
  BY <1>1, <1>2

\* The hands after a step of the policy: h obeys the command w, from hands of which a
\* relation may be loosened, before an object that is to be missed is put back.
LEMMA DisturbedHands ==
  ASSUME IInv, NEW want \in [Arms -> BOOLEAN], NEW authorised \in SUBSET Arms,
         NEW look \in SUBSET Objects, NEW near \in [Arms -> SUBSET Objects],
         NEW moving \in BOOLEAN, NEW displaced \in BOOLEAN,
         Disturbed(want, authorised, look, near, moving, displaced)
  PROVE  /\ FaultTyped(fault') /\ AuditTyped(audit')
         /\ \E h : \E w \in [Arms -> BOOLEAN], off \in SUBSET Arms :
              /\ Obeys(Slackened(fault'), h, w, off)
              /\ Loosens(fault') => w[arm]
              /\ kind = "grasp_failure" /\ fault'.failing => off = {arm}
              /\ hands' = PutBack(fault', h)
              /\ kind \in RelationKinds => hands' = h /\ (Resolved(hands) => Resolved(h))
<1> DEFINE close == ~want[arm]
           seen == look \cup hands.holds[arm]
           off == IF kind = "grasp_failure" /\ fault'.failing THEN {arm} ELSE {}
           asked == IF Loosens(fault') THEN [want EXCEPT ![arm] = TRUE] ELSE want
           allowed == IF Loosens(fault') THEN authorised \cup {arm} ELSE authorised
           h == EnvironmentStep(Slackened(fault'), asked, allowed, near, off)
<1>1. fault' = Injected(close, seen, moving) /\ hands' = PutBack(fault', h)
      /\ audit' = Audited(fault', hands', near, displaced)
  BY Zenon DEF Disturbed, Slackened
<1>2. arm \in Arms /\ Separate(hands) /\ FaultTyped(fault) /\ kind \in Kinds
  BY DEF IInv
<1>3. close \in BOOLEAN /\ seen \in SUBSET Objects
  BY <1>2, Constants DEF Separate, HandSet
<1>4. FaultTyped(Injected(close, seen, moving))
  BY <1>2, <1>3, InjectedTyped
<1>5. FaultTyped(fault')
  BY <1>1, <1>4, Zenon
<1>6. Separate(Slackened(fault')) /\ (Resolved(hands) => Resolved(Slackened(fault')))
  BY <1>2, LooseHands
<1>7. asked \in [Arms -> BOOLEAN] /\ allowed \in SUBSET Arms /\ off \in SUBSET Arms
  BY <1>2
<1>8. Loosens(fault') => asked[arm] /\ arm \in allowed
  BY <1>2
<1> HIDE DEF close, seen, asked, allowed, h
<1>9. /\ \E w \in [Arms -> BOOLEAN] : /\ Obeys(Slackened(fault'), h, w, off)
                                      /\ \A a \in allowed : w[a] = asked[a]
      /\ off = {} /\ Resolved(Slackened(fault')) => Resolved(h)
  BY <1>6, <1>7, EnvironmentObeys DEF h
<1>10. PICK w \in [Arms -> BOOLEAN] : /\ Obeys(Slackened(fault'), h, w, off)
                                      /\ \A a \in allowed : w[a] = asked[a]
  BY <1>9
<1>11. Loosens(fault') => w[arm]
  BY <1>8, <1>10, Zenon
<1>12. kind \in RelationKinds => hands' = h /\ (Resolved(hands) => Resolved(h))
  BY <1>1, <1>6, <1>9 DEF PutBack, RelationKinds
<1>13. AuditTyped(audit')
  BY <1>1, AuditedTyped DEF IInv
<1>14. kind = "grasp_failure" /\ fault'.failing => off = {arm}
  OBVIOUS
<1> HIDE DEF off
<1>15. QED
  BY <1>1, <1>5, <1>7, <1>10, <1>11, <1>12, <1>13, <1>14, Zenon

\* The hands stay apart, and what they lose has its cause within the episode.
Attributed ==
  /\ Separate(hands')
  /\ \A a \in Arms : \A o \in hands.holds[a] \ hands'.holds[a] :
       \/ ~hands.open[a] /\ hands'.open[a]
       \/ o \in hands'.holds[Peer(a)]
       \/ a = arm /\ (fault'.failing \/ fault'.triggered # fault.triggered)
  /\ fault'.failing => hands'.holds[arm] \subseteq hands.holds[arm]

LEMMA DisturbedSeparate ==
  ASSUME IInv, NEW want \in [Arms -> BOOLEAN], NEW authorised \in SUBSET Arms,
         NEW look \in SUBSET Objects, NEW near \in [Arms -> SUBSET Objects],
         NEW moving \in BOOLEAN, NEW displaced \in BOOLEAN,
         Disturbed(want, authorised, look, near, moving, displaced)
  PROVE  Attributed
<1> DEFINE g == Slackened(fault')
<1>1. PICK h : \E w \in [Arms -> BOOLEAN], off \in SUBSET Arms :
        /\ Obeys(g, h, w, off)
        /\ Loosens(fault') => w[arm]
        /\ kind = "grasp_failure" /\ fault'.failing => off = {arm}
        /\ hands' = PutBack(fault', h)
        /\ kind \in RelationKinds => hands' = h /\ (Resolved(hands) => Resolved(h))
  BY DisturbedHands, Zenon
<1>2. PICK w \in [Arms -> BOOLEAN], off \in SUBSET Arms :
        /\ Obeys(g, h, w, off)
        /\ kind = "grasp_failure" /\ fault'.failing => off = {arm}
        /\ hands' = PutBack(fault', h)
  BY <1>1, Zenon
<1>3. /\ g.open = hands.open
      /\ \A a \in Arms : g.holds[a] = hands.holds[a] \/ (a = arm /\ Loosens(fault'))
      /\ \A a \in Arms : g.holds[a] \subseteq hands.holds[a]
  BY LooseHands DEF IInv
<1>4. arm \in Arms /\ FaultTyped(fault') /\ Separate(hands) /\ Separate(h)
  BY <1>2, DisturbedHands, Zenon DEF IInv, Obeys
<1>5. h.open = w
  BY <1>2 DEF Obeys
<1> HIDE DEF g
<1> DEFINE missed == kind = "grasp_failure" /\ fault'.failing
<1>6. /\ hands'.open = h.open
      /\ \A a \in Arms : hands'.holds[a] = h.holds[a] \/ (a = arm /\ missed /\ hands'.holds[a] = {})
      /\ Separate(hands')
  <2>1. CASE missed /\ fault'.locked \cap h.holds[arm] # {}
    <3>1. hands' = [h EXCEPT !.holds[arm] = {}]
      BY <1>2, <2>1 DEF PutBack
    <3>2. /\ hands' \in HandSet /\ hands'.open = h.open
          /\ \A a \in Arms : hands'.holds[a] = IF a = arm THEN {} ELSE h.holds[a]
      BY <1>4, <3>1 DEF Separate, HandSet
    <3>3. Separate(hands')
      BY <1>4, <3>2 DEF Separate, Arms
    <3>4. QED
      BY <2>1, <3>2, <3>3
  <2>2. CASE ~ (missed /\ fault'.locked \cap h.holds[arm] # {})
    <3>1. hands' = h
      BY <1>2, <2>2 DEF PutBack
    <3>2. QED
      BY <1>4, <3>1
  <2>3. QED
    BY <2>1, <2>2
<1>7. fault'.failing => missed
  BY <1>4, Zenon DEF FaultTyped
<1>8. missed => h.holds[arm] \subseteq g.holds[arm]
  BY <1>2, <1>4 DEF Obeys
<1>9. fault'.failing => hands'.holds[arm] \subseteq hands.holds[arm]
  BY <1>3, <1>4, <1>6, <1>7, <1>8
<1>10. ASSUME NEW a \in Arms, NEW o \in hands.holds[a] \ hands'.holds[a],
              ~ (~hands.open[a] /\ hands'.open[a]),
              ~ (a = arm /\ (fault'.failing \/ fault'.triggered # fault.triggered))
       PROVE  o \in hands'.holds[Peer(a)]
  <2>1. a = arm => ~ missed /\ ~ Loosens(fault')
    BY <1>10 DEF Loosens
  <2>2. g.holds[a] = hands.holds[a]
    BY <1>3, <2>1
  <2>3. ~ (~ g.open[a] /\ w[a])
    BY <1>3, <1>5, <1>6, <1>10
  <2>4. o \in h.holds["left"] \cup h.holds["right"]
    BY <1>2, <1>10, <2>2, <2>3 DEF Obeys
  <2>5. o \notin h.holds[a]
    BY <1>6, <1>10, <2>1
  <2>6. o \in h.holds[Peer(a)] /\ Peer(a) \in Arms /\ Peer(a) # a
    BY <2>4, <2>5, Peers DEF Arms
  <2>7. ~ (Peer(a) = arm /\ missed)
    <3>1. ASSUME Peer(a) = arm, missed PROVE FALSE
      <4>1. o \in hands.holds[arm]
        BY <1>3, <1>4, <1>8, <2>6, <3>1
      <4>2. QED
        BY <1>4, <1>10, <2>6, <3>1, <4>1 DEF Separate, Arms
    <3>2. QED
      BY <3>1
  <2>8. QED
    BY <1>6, <2>6, <2>7
<1>11. QED
  BY <1>6, <1>9, <1>10, Zenon DEF Attributed

LEMMA ImpossibleTyped ==
  ASSUME IInv, NEW close \in BOOLEAN, NEW look \in SUBSET Objects, NEW moving \in BOOLEAN,
         Impossible(close, look, moving)
  PROVE  /\ FaultTyped(fault') /\ AuditTyped(audit')
         /\ hands' = Slackened(fault')
<1> DEFINE seen == look \cup hands.holds[arm]
<1>1. fault' = Injected(close, seen, moving) /\ hands' = Slackened(fault')
  BY DEF Impossible, Slackened
<1>2. seen \in SUBSET Objects
  BY Constants DEF IInv, Separate, HandSet
<1>3. FaultTyped(Injected(close, seen, moving))
  BY <1>2, InjectedTyped DEF IInv
<1>4. AuditTyped(audit')
  BY AuditedTyped DEF Impossible, IInv
<1>5. QED
  BY <1>1, <1>3, <1>4, Zenon

\* What a relation fault remembers, however the step ends.
LEMMA LooseFault ==
  ASSUME IInv, kind \in RelationKinds, NEW close \in BOOLEAN, NEW look \in SUBSET Objects,
         NEW moving, fault' = Injected(close, look \cup hands.holds[arm], moving)
  PROVE  \/ fault.triggered /\ fault' = fault /\ ~ Loosens(fault')
         \/ ~ fault.triggered /\ ~ fault'.triggered
         \/ /\ ~ fault.triggered /\ fault'.triggered /\ Loosens(fault')
            /\ fault'.source = IF hands.holds[arm] # {} THEN "attachment" ELSE "contact"
<1>1. kind \notin {"time_stall", "grasp_failure"}
  BY DEF RelationKinds
<1>2. PICK seen \in SUBSET Objects : seen = look \cup hands.holds[arm]
  BY Constants DEF IInv, Separate, HandSet
<1>3. fault' = Loosened(close, seen)
  BY <1>1, <1>2 DEF Injected
<1>4. FaultTyped(fault) /\ Separate(hands) /\ arm \in Arms
  BY DEF IInv
<1>5. \/ fault.triggered /\ fault' = fault
      \/ ~ fault.triggered /\ ~ fault'.triggered
      \/ /\ ~ fault.triggered /\ fault'.triggered
         /\ fault'.source = IF hands.holds[arm] # {} THEN "attachment" ELSE "contact"
  BY <1>2, <1>3, <1>4, LoosenedTyped, Zenon
<1>6. Loosens(fault') <=> fault'.triggered /\ ~fault.triggered
  BY Zenon DEF Loosens
<1>7. QED
  BY <1>5, <1>6, Zenon

LEMMA DisturbedLoose ==
  ASSUME IInv, kind \in RelationKinds,
         NEW want \in [Arms -> BOOLEAN], NEW authorised \in SUBSET Arms,
         NEW look \in SUBSET Objects, NEW near \in [Arms -> SUBSET Objects],
         NEW moving \in BOOLEAN, NEW displaced \in BOOLEAN,
         Disturbed(want, authorised, look, near, moving, displaced)
  PROVE  Loose'
<1>1. PICK h : \E w \in [Arms -> BOOLEAN], off \in SUBSET Arms :
        /\ Obeys(Slackened(fault'), h, w, off)
        /\ Loosens(fault') => w[arm]
        /\ kind = "grasp_failure" /\ fault'.failing => off = {arm}
        /\ hands' = PutBack(fault', h)
        /\ kind \in RelationKinds => hands' = h /\ (Resolved(hands) => Resolved(h))
  BY DisturbedHands, Zenon
<1>2. PICK w \in [Arms -> BOOLEAN], off \in SUBSET Arms :
        /\ Obeys(Slackened(fault'), hands', w, off)
        /\ Loosens(fault') => w[arm]
        /\ Resolved(hands) => Resolved(hands')
  BY <1>1, Zenon
<1>3. /\ kind' = kind /\ arm' = arm /\ arm \in Arms /\ AuditTyped(audit)
      /\ opened' = (fault'.triggered /\ (opened \/ hands'.open[arm]))
      /\ audit' = Audited(fault', hands', near, displaced)
  BY DEF Disturbed, HasOpened, IInv
<1>4. \/ fault.triggered /\ fault' = fault /\ ~ Loosens(fault')
      \/ ~ fault.triggered /\ ~ fault'.triggered
      \/ /\ ~ fault.triggered /\ fault'.triggered /\ Loosens(fault')
         /\ fault'.source = IF hands.holds[arm] # {} THEN "attachment" ELSE "contact"
  <2> DEFINE close == ~want[arm]
  <2>1. fault' = Injected(close, look \cup hands.holds[arm], moving)
    BY DEF Disturbed
  <2>2. close \in BOOLEAN
    BY <1>3
  <2> HIDE DEF close
  <2>3. QED
    BY <2>1, <2>2, LooseFault
<1>5. /\ Resolved(hands)
      /\ ~ fault.triggered => audit = NewAudit
      /\ fault.triggered =>
           /\ fault.source \in {"attachment", "contact"}
           /\ opened \/ (fault.source = "attachment" /\ Shut(hands))
                     \/ (fault.source = "contact" /\ audit.effect # "seen")
      /\ audit.restored => opened
  BY DEF IInv, Loose
<1>6. /\ ~ fault'.triggered => audit' = audit
      /\ fault'.source = "contact" /\ audit'.effect = "seen" =>
           audit.effect = "seen" \/ hands'.open[arm]
      /\ audit'.restored => \/ audit.restored
                            \/ /\ audit.effect = "seen"
                               /\ fault'.source = "attachment" => hands'.holds[arm] # {}
  BY <1>3, RelationAudited
<1>7. hands'.open = w /\ Resolved(hands')
  BY <1>2, <1>5 DEF Obeys
<1>8. CASE ~ fault.triggered /\ ~ fault'.triggered
  <2>1. audit' = NewAudit /\ ~ audit'.restored
    BY <1>5, <1>6, <1>8 DEF NewAudit
  <2>2. QED
    BY <1>7, <1>8, <2>1, Zenon DEF Loose, Resolved
<1>9. CASE ~ fault.triggered /\ fault'.triggered /\ Loosens(fault')
  <2>1. opened'
    BY <1>2, <1>3, <1>7, <1>9, Zenon
  <2>2. fault'.source \in {"attachment", "contact"}
    BY <1>4, <1>9
  <2>3. QED
    BY <1>7, <1>9, <2>1, <2>2, Zenon DEF Loose, Resolved
<1>10. CASE fault.triggered /\ fault' = fault /\ ~ Loosens(fault')
  <2>1. CASE opened'
    BY <1>5, <1>7, <1>10, <2>1, Zenon DEF Loose, Resolved
  <2>2. CASE ~ opened'
    <3>1. ~ opened /\ ~ hands'.open[arm]
      BY <1>3, <1>10, <2>2, Zenon
    <3>2. CASE fault.source = "attachment" /\ Shut(hands)
      <4>1. Slackened(fault') = hands
        BY <1>10 DEF Slackened
      <4>2. Shut(hands)'
        <5>1. ~ w[arm]
          BY <1>7, <3>1, Zenon
        <5>2. ~ hands'.pending[arm] /\ hands'.holds[arm] \subseteq hands.holds[arm]
          BY <1>2, <1>3, <3>2, <4>1, <5>1, Zenon DEF Obeys, Shut
        <5>3. hands'.holds[arm] = {}
          BY <3>2, <5>2 DEF Shut
        <5>4. QED
          BY <1>3, <3>1, <5>2, <5>3, Zenon DEF Shut
      <4>3. ~ audit'.restored
        BY <1>5, <1>6, <1>10, <3>1, <3>2, <4>2, <1>3 DEF Shut
      <4>4. QED
        BY <1>7, <1>10, <3>2, <4>2, <4>3, Zenon DEF Loose, Resolved
    <3>3. CASE fault.source = "contact" /\ audit.effect # "seen"
      <4>1. audit'.effect # "seen"
        BY <1>6, <1>10, <3>1, <3>3
      <4>2. ~ audit'.restored
        BY <1>5, <1>6, <3>1, <3>3
      <4>3. QED
        BY <1>7, <1>10, <3>3, <4>1, <4>2, Zenon DEF Loose, Resolved
    <3>4. QED
      BY <1>5, <1>10, <3>1, <3>2, <3>3
  <2>3. QED
    BY <2>1, <2>2
<1>11. QED
  BY <1>4, <1>8, <1>9, <1>10

LEMMA ImpossibleLoose ==
  ASSUME IInv, kind \in RelationKinds,
         NEW close \in BOOLEAN, NEW look \in SUBSET Objects, NEW moving \in BOOLEAN,
         Impossible(close, look, moving)
  PROVE  Loose'
<1>1. /\ kind' = kind /\ arm' = arm /\ arm \in Arms /\ audit' = audit
      /\ opened' = (fault'.triggered /\ (opened \/ hands'.open[arm]))
  BY DEF Impossible, HasOpened, IInv, RelationKinds
<1>2. \/ fault.triggered /\ fault' = fault /\ ~ Loosens(fault')
      \/ ~ fault.triggered /\ ~ fault'.triggered
      \/ /\ ~ fault.triggered /\ fault'.triggered /\ Loosens(fault')
         /\ fault'.source = IF hands.holds[arm] # {} THEN "attachment" ELSE "contact"
  BY LooseFault DEF Impossible
<1>3. /\ Resolved(hands)
      /\ ~ fault.triggered => audit = NewAudit
      /\ fault.triggered =>
           /\ fault.source \in {"attachment", "contact"}
           /\ opened \/ (fault.source = "attachment" /\ Shut(hands))
                     \/ (fault.source = "contact" /\ audit.effect # "seen")
      /\ audit.restored => opened
  BY DEF IInv, Loose
<1>4. hands' = Slackened(fault')
  BY ImpossibleTyped
<1>5. /\ hands'.open = hands.open /\ hands'.pending = hands.pending
      /\ Loosens(fault') => hands'.holds[arm] = {}
      /\ Resolved(hands')
  <2>1. /\ Slackened(fault').open = hands.open /\ Slackened(fault').pending = hands.pending
        /\ Loosens(fault') => Slackened(fault').holds[arm] = {}
        /\ Resolved(Slackened(fault'))
    BY <1>3, LooseHands DEF IInv
  <2>2. QED
    BY <1>4, <2>1
<1>6. CASE ~ fault.triggered /\ ~ fault'.triggered
  <2>1. audit' = NewAudit /\ ~ audit'.restored
    BY <1>1, <1>3, <1>6 DEF NewAudit
  <2>2. QED
    BY <1>5, <1>6, <2>1, Zenon DEF Loose, Resolved
<1>7. CASE ~ fault.triggered /\ fault'.triggered /\ Loosens(fault')
  <2>1. fault'.source = IF hands.holds[arm] # {} THEN "attachment" ELSE "contact"
    BY <1>2, <1>7, Zenon
  <2>2. ~ audit'.restored /\ audit'.effect # "seen"
    BY <1>1, <1>3, <1>7 DEF NewAudit
  <2>3. opened' \/ (fault'.source = "attachment" /\ Shut(hands)')
                \/ (fault'.source = "contact" /\ audit'.effect # "seen")
    <3>1. CASE opened'
      BY <3>1
    <3>2. CASE ~ opened' /\ hands.holds[arm] # {}
      <4>1. ~ hands'.open[arm]
        BY <1>1, <1>7, <3>2, Zenon
      <4>2. ~ hands'.pending[arm]
        BY <1>1, <1>3, <1>5, <3>2, Zenon DEF Resolved
      <4>3. QED
        BY <1>1, <1>5, <1>7, <2>1, <3>2, <4>1, <4>2, Zenon DEF Shut
    <3>3. CASE hands.holds[arm] = {}
      BY <2>1, <2>2, <3>3
    <3>4. QED
      BY <3>1, <3>2, <3>3
  <2>4. fault'.source \in {"attachment", "contact"}
    BY <2>1
  <2>5. QED
    BY <1>5, <1>7, <2>2, <2>3, <2>4, Zenon DEF Loose, Resolved
<1>8. CASE fault.triggered /\ fault' = fault /\ ~ Loosens(fault')
  <2>1. hands' = hands
    BY <1>4, <1>8 DEF Slackened
  <2>2. opened => opened'
    BY <1>1, <1>8, Zenon
  <2>3. opened' \/ (fault'.source = "attachment" /\ Shut(hands)')
                \/ (fault'.source = "contact" /\ audit'.effect # "seen")
    BY <1>1, <1>3, <1>8, <2>1, <2>2, Zenon DEF Shut
  <2>4. audit'.restored => opened'
    BY <1>1, <1>3, <2>2, Zenon
  <2>5. QED
    BY <1>3, <1>5, <1>8, <2>3, <2>4, Zenon DEF Loose, Resolved
<1>9. QED
  BY <1>2, <1>6, <1>7, <1>8

\* Until the scene has moved, the hands only obey the policy.
LEMMA UndisturbedHands ==
  ASSUME IInv, NEW want \in [Arms -> BOOLEAN], NEW authorised \in SUBSET Arms,
         NEW near \in [Arms -> SUBSET Objects], Undisturbed(want, authorised, near)
  PROVE  /\ Separate(hands') /\ (Resolved(hands) => Resolved(hands'))
         /\ \A a \in Arms : \/ ~hands.open[a] /\ hands'.open[a]
                            \/ hands.holds[a] \subseteq hands'.holds["left"] \cup hands'.holds["right"]
         /\ ~ fault'.failing /\ ~ fault.triggered
<1>1. hands' = EnvironmentStep(hands, want, authorised, near, {}) /\ fault' = fault
  BY DEF Undisturbed
<1>2. /\ \E w \in [Arms -> BOOLEAN] : Obeys(hands, hands', w, {})
      /\ Resolved(hands) => Resolved(hands')
  <2>1. Separate(hands) /\ {} \in SUBSET Arms
    BY DEF IInv
  <2>2. /\ \E w \in [Arms -> BOOLEAN] :
             Obeys(hands, EnvironmentStep(hands, want, authorised, near, {}), w, {})
        /\ Resolved(hands) => Resolved(EnvironmentStep(hands, want, authorised, near, {}))
    BY <2>1, EnvironmentObeys
  <2>3. QED
    BY <1>1, <2>2
<1>3. PICK w \in [Arms -> BOOLEAN] : Obeys(hands, hands', w, {})
  BY <1>2
<1>4. \A a \in Arms : \/ ~hands.open[a] /\ hands'.open[a]
                      \/ hands.holds[a] \subseteq hands'.holds["left"] \cup hands'.holds["right"]
  BY <1>3, Zenon DEF Obeys
<1>5. fault = NewFault
  BY DEF IInv, Undisturbed
<1>6. QED
  BY <1>1, <1>2, <1>3, <1>4, <1>5 DEF NewFault, Obeys

LEMMA IInvInit == Init => IInv
<1> SUFFICES ASSUME Init PROVE IInv
  OBVIOUS
<1>1. Separate(hands) /\ AuditTyped(audit) /\ FaultTyped(fault)
  BY NewTyped DEF Init
<1>2. Loose
  BY DEF Init, Loose, Resolved, NewHands, NewFault, NewAudit
<1>3. step \in 0 .. Earliest /\ segments \in 0 .. Segments /\ episode \in 1 .. Episodes
  BY Constants DEF Init
<1>4. /\ kind \in Kinds /\ arm \in Arms /\ opened \in BOOLEAN
      /\ fault = NewFault /\ audit = NewAudit
  BY DEF Init
<1>5. QED
  BY <1>1, <1>2, <1>3, <1>4, Zenon DEF IInv

\* The steps of the scene, the episode and the policy, with the inputs they may meet.
LEMMA Inputs ==
  /\ Commands \subseteq [Arms -> BOOLEAN] \X SUBSET Arms
  /\ Nears \subseteq [Arms -> SUBSET Objects]
  /\ Looks \subseteq SUBSET Objects /\ Motions \subseteq BOOLEAN
  /\ Displacements \subseteq BOOLEAN
<1>1. Commands \subseteq [Arms -> BOOLEAN] \X SUBSET Arms
  BY DEF Commands
<1>2. Nears \subseteq [Arms -> SUBSET Objects]
  BY DEF Nears
<1>3. QED
  BY <1>1, <1>2 DEF Looks, Motions, Displacements

LEMMA StepMoves == ASSUME IInv PROVE Min({step + 1, Earliest}) \in 0 .. Earliest
BY MinOfTwo, Constants DEF IInv

LEMMA IInvScene == IInv /\ SceneMotion => IInv'
<1> SUFFICES ASSUME IInv, SceneMotion PROVE IInv'
  OBVIOUS
<1>1. /\ hands' = hands /\ kind' = kind /\ arm' = arm /\ step' = step /\ fault' = fault
      /\ audit' = audit /\ opened' = opened /\ episode' = episode
      /\ segments' \in 0 .. Segments /\ segments < Segments
  BY Constants DEF IInv, SceneMotion
<1>2. FaultTyped(fault)' /\ Loose'
  BY <1>1 DEF IInv, FaultTyped, Loose, Resolved, Shut
<1>3. Separate(hands)' /\ AuditTyped(audit)'
  BY <1>1 DEF IInv
<1>4. fault' = NewFault /\ audit' = NewAudit
  BY <1>1 DEF IInv
<1>5. QED
  BY <1>1, <1>2, <1>3, <1>4 DEF IInv

LEMMA IInvEpisode == IInv /\ NextEpisode => IInv'
<1> SUFFICES ASSUME IInv, NextEpisode PROVE IInv'
  OBVIOUS
<1>1. /\ hands' = [NewHands EXCEPT !.pending = hands.pending]
      /\ kind' = kind /\ arm' = arm /\ step' = 0 /\ segments' = 0 /\ fault' = NewFault
      /\ audit' = NewAudit /\ opened' = FALSE /\ episode' \in 1 .. Episodes
  BY Constants DEF IInv, NextEpisode
<1>2. /\ hands' \in HandSet /\ hands'.holds = [a \in Arms |-> {}]
  BY <1>1 DEF NewHands, IInv, Separate, HandSet
<1>3. Separate(hands') /\ Resolved(hands')
  BY <1>2 DEF Separate, Resolved, Arms
<1>4. FaultTyped(fault)' /\ AuditTyped(audit)'
  BY <1>1, NewTyped DEF FaultTyped
<1>5. Loose'
  BY <1>1, <1>3 DEF Loose, NewFault, NewAudit, Resolved
<1>6. 0 \in 0 .. Earliest /\ 0 \in 0 .. Segments
  BY Constants
<1>7. QED
  BY <1>1, <1>3, <1>4, <1>5, <1>6, Zenon DEF IInv

LEMMA IInvUndisturbed ==
  ASSUME IInv, NEW want \in [Arms -> BOOLEAN], NEW authorised \in SUBSET Arms,
         NEW near \in [Arms -> SUBSET Objects], Undisturbed(want, authorised, near)
  PROVE  IInv'
<1>1. /\ kind' = kind /\ arm' = arm /\ segments' = segments /\ fault' = fault
      /\ audit' = audit /\ opened' = opened /\ episode' = episode
      /\ step' \in 0 .. Earliest /\ segments < Segments
  BY StepMoves DEF Undisturbed
<1>2. Separate(hands') /\ (Resolved(hands) => Resolved(hands')) /\ ~ fault.triggered
  BY UndisturbedHands
<1>3. Loose'
  BY <1>1, <1>2 DEF IInv, Loose, Resolved
<1>4. FaultTyped(fault)' /\ AuditTyped(audit)'
  BY <1>1 DEF IInv, FaultTyped
<1>5. QED
  BY <1>1, <1>2, <1>3, <1>4 DEF IInv

LEMMA IInvDisturbed ==
  ASSUME IInv, NEW want \in [Arms -> BOOLEAN], NEW authorised \in SUBSET Arms,
         NEW look \in SUBSET Objects, NEW near \in [Arms -> SUBSET Objects],
         NEW moving \in BOOLEAN, NEW displaced \in BOOLEAN,
         Disturbed(want, authorised, look, near, moving, displaced)
  PROVE  IInv'
<1>1. /\ kind' = kind /\ arm' = arm /\ segments' = segments /\ episode' = episode
      /\ step' \in 0 .. Earliest /\ ~ (segments < Segments)
  BY StepMoves, Constants DEF Disturbed, IInv
<1>2. opened' \in BOOLEAN
  BY Zenon DEF Disturbed, HasOpened
<1>3. FaultTyped(fault') /\ AuditTyped(audit')
  BY DisturbedHands
<1>4. FaultTyped(fault)' /\ AuditTyped(audit)'
  BY <1>1, <1>3 DEF FaultTyped
<1>5. Separate(hands')
  BY DisturbedSeparate DEF Attributed
<1>6. Loose'
  <2>1. CASE kind \in RelationKinds
    BY <2>1, DisturbedLoose
  <2>2. CASE kind \notin RelationKinds
    BY <1>1, <2>2 DEF Loose
  <2>3. QED
    BY <2>1, <2>2
<1>7. QED
  BY <1>1, <1>2, <1>4, <1>5, <1>6 DEF IInv

LEMMA IInvImpossible ==
  ASSUME IInv, NEW close \in BOOLEAN, NEW look \in SUBSET Objects, NEW moving \in BOOLEAN,
         Impossible(close, look, moving)
  PROVE  IInv'
<1>1. /\ kind' = kind /\ arm' = arm /\ segments' = segments /\ episode' = episode
      /\ step' = step /\ ~ (segments < Segments)
  BY Constants DEF Impossible, IInv
<1>2. opened' \in BOOLEAN
  BY Zenon DEF Impossible, HasOpened
<1>3. FaultTyped(fault') /\ AuditTyped(audit') /\ hands' = Slackened(fault')
  BY ImpossibleTyped
<1>4. FaultTyped(fault)' /\ AuditTyped(audit)'
  BY <1>1, <1>3 DEF FaultTyped
<1>5. Separate(hands')
  BY <1>3, LooseHands DEF IInv
<1>6. Loose'
  <2>1. CASE kind \in RelationKinds
    BY <2>1, ImpossibleLoose
  <2>2. CASE kind \notin RelationKinds
    BY <1>1, <2>2 DEF Loose
  <2>3. QED
    BY <2>1, <2>2
<1>7. QED
  BY <1>1, <1>2, <1>4, <1>5, <1>6 DEF IInv

LEMMA IInvNext == IInv /\ [Next]_vars => IInv'
<1> SUFFICES ASSUME IInv, [Next]_vars PROVE IInv'
  OBVIOUS
<1>1. ASSUME NEW c \in Commands, NEW near \in Nears, Undisturbed(c[1], c[2], near)
      PROVE  IInv'
  BY <1>1, Inputs, IInvUndisturbed
<1>2. ASSUME NEW c \in Commands, NEW near \in Nears, NEW look \in Looks,
             NEW moving \in Motions, NEW displaced \in Displacements,
             Disturbed(c[1], c[2], look, near, moving, displaced)
      PROVE  IInv'
  BY <1>2, Inputs, IInvDisturbed
<1>3. ASSUME NEW close \in BOOLEAN, NEW look \in Looks, NEW moving \in Motions,
             Impossible(close, look, moving)
      PROVE  IInv'
  BY <1>3, Inputs, IInvImpossible
<1>4. CASE UNCHANGED vars
  <2>1. /\ hands' = hands /\ kind' = kind /\ arm' = arm /\ step' = step /\ fault' = fault
        /\ audit' = audit /\ opened' = opened /\ episode' = episode /\ segments' = segments
    BY <1>4 DEF vars
  <2>2. QED
    BY <2>1 DEF IInv, FaultTyped, AuditTyped, Separate, Loose, Resolved, Shut
<1>5. QED
  BY <1>1, <1>2, <1>3, <1>4, IInvScene, IInvEpisode, Zenon DEF Next

LEMMA Invariance == Spec => []IInv
<1>1. QED
  BY IInvInit, IInvNext, PTL DEF Spec

-----------------------------------------------------------------------------
\* The theorems.

\* The grippers hold at most one graspable object each, and the fault and its audit
\* stay within their bounds, for any number of objects, episodes and cycles.
THEOREM TypesAreCorrect == Spec => []TypeOK
<1>1. IInv => TypeOK
  <2> SUFFICES ASSUME IInv PROVE TypeOK
    OBVIOUS
  <2>1. \A a \in Arms : Cardinality(hands.holds[a]) <= 1
    <3>1. ASSUME NEW a \in Arms PROVE Cardinality(hands.holds[a]) <= 1
      <4>1. CASE hands.holds[a] = {}
        BY <4>1, FS_EmptySet
      <4>2. CASE \E o \in Graspable : hands.holds[a] = {o}
        BY <4>2, FS_Singleton
      <4>3. QED
        BY <4>1, <4>2 DEF IInv, Separate
    <3>2. QED
      BY <3>1
  <2>2. /\ fault.active \in 0 .. Duration /\ fault.cycles \in 0 .. MinGrasped
        /\ fault.closes \in 0 .. CloseOccurrence + 1
        /\ fault.locked \subseteq fault.targets /\ fault.targets \subseteq Objects
        /\ fault.failing => fault.triggered
    <3>1. fault.failing => fault.triggered
      BY Zenon DEF IInv, FaultTyped
    <3>2. QED
      BY <3>1 DEF IInv, FaultTyped, FaultSet
  <2>3. /\ audit.effect \in {"unknown", "seen", "unseen"}
        /\ audit.contact \in 0 .. MinGrasped
        /\ audit.restored => audit.effect = "seen"
    BY DEF IInv, AuditTyped, AuditSet
  <2>4. QED
    BY <2>1, <2>2, <2>3 DEF IInv, TypeOK, Separate, HandSet
<1>2. QED
  BY <1>1, Invariance, PTL

\* An object leaves a gripper only when that gripper opens, when the other one takes
\* it, by the one fault of the episode or by a reset of the scene, and a gripper whose
\* grasp is to fail attaches nothing (ProtocolBimanualDiscrete.action,
\* FaultInjectingTaskEnvironment.step).
THEOREM GripsAlwaysHaveCauses == Spec => GripsHaveCauses
<1> DEFINE Caused ==
      /\ hands'.holds["left"] \cap hands'.holds["right"] = {}
      /\ \A a \in Arms : \A o \in hands.holds[a] \ hands'.holds[a] :
           \/ ~hands.open[a] /\ hands'.open[a]
           \/ o \in hands'.holds[Peer(a)]
           \/ a = arm /\ (fault'.failing \/ fault'.triggered # fault.triggered)
           \/ episode' # episode
      /\ fault'.failing => hands'.holds[arm] \subseteq hands.holds[arm]
<1>1. IInv /\ [Next]_vars => [Caused]_vars
  <2> SUFFICES ASSUME IInv, Next PROVE Caused
    OBVIOUS
  <2>1. CASE SceneMotion
    <3>1. hands' = hands
      BY <2>1 DEF SceneMotion
    <3>2. QED
      BY <3>1 DEF IInv, Separate
  <2>2. CASE NextEpisode
    <3>1. /\ episode' # episode /\ ~ fault'.failing
          /\ hands' = [NewHands EXCEPT !.pending = hands.pending]
      BY <2>2 DEF NextEpisode, NewFault, IInv
    <3>2. hands'.holds = [a \in Arms |-> {}]
      BY <3>1 DEF NewHands
    <3>3. QED
      BY <3>1, <3>2 DEF Arms
  <2>3. ASSUME NEW c \in Commands, NEW near \in Nears, Undisturbed(c[1], c[2], near)
        PROVE  Caused
    <3>1. /\ Separate(hands')
          /\ \A a \in Arms : \/ ~hands.open[a] /\ hands'.open[a]
                             \/ hands.holds[a] \subseteq hands'.holds["left"] \cup hands'.holds["right"]
          /\ ~ fault'.failing
      BY <2>3, Inputs, UndisturbedHands
    <3>2. \A a \in Arms : \A o \in hands.holds[a] \ hands'.holds[a] :
             (~hands.open[a] /\ hands'.open[a]) \/ o \in hands'.holds[Peer(a)]
      BY <3>1, Peers DEF Arms
    <3>3. QED
      BY <3>1, <3>2 DEF Separate
  <2>4. ASSUME NEW c \in Commands, NEW near \in Nears, NEW look \in Looks,
               NEW moving \in Motions, NEW displaced \in Displacements,
               Disturbed(c[1], c[2], look, near, moving, displaced)
        PROVE  Caused
    <3>1. Attributed
      BY <2>4, Inputs, DisturbedSeparate
    <3>2. QED
      BY <3>1, Zenon DEF Attributed, Separate
  <2>5. ASSUME NEW close \in BOOLEAN, NEW look \in Looks, NEW moving \in Motions,
               Impossible(close, look, moving)
        PROVE  Caused
    <3>1. hands' = Slackened(fault')
      BY <2>5, Inputs, ImpossibleTyped
    <3>2. /\ Separate(Slackened(fault'))
          /\ \A a \in Arms : \/ Slackened(fault').holds[a] = hands.holds[a]
                             \/ a = arm /\ Slackened(fault').holds[a] = {} /\ Loosens(fault')
      BY LooseHands DEF IInv
    <3>3. \A a \in Arms : \/ hands'.holds[a] = hands.holds[a]
                          \/ a = arm /\ hands'.holds[a] = {} /\ fault'.triggered # fault.triggered
      BY <3>1, <3>2 DEF Loosens
    <3>4. hands'.holds[arm] \subseteq hands.holds[arm]
      BY <3>3 DEF IInv
    <3>5. \A a \in Arms : \A o \in hands.holds[a] \ hands'.holds[a] :
             a = arm /\ fault'.triggered # fault.triggered
      BY <3>3
    <3>6. hands'.holds["left"] \cap hands'.holds["right"] = {}
      BY <3>1, <3>2 DEF Separate
    <3>7. QED
      BY <3>4, <3>5, <3>6, Zenon
  <2>6. QED
    BY <2>1, <2>2, <2>3, <2>4, <2>5, Zenon DEF Next
<1>2. QED
  BY <1>1, Invariance, PTL DEF Spec, GripsHaveCauses

\* The audit reports a relation fault as overcome only when the gripper of the fault
\* has been open since (_audit_physical_effect).
THEOREM RestorationsAreNewGrasps == Spec => []RestoredByNewGrasp
<1>1. IInv => RestoredByNewGrasp
  BY DEF IInv, Loose, RestoredByNewGrasp
<1>2. QED
  BY <1>1, Invariance, PTL
=============================================================================
