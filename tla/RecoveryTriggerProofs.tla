------------------------- MODULE RecoveryTriggerProofs -------------------------
(***************************************************************************)
(* Theorems about RecoveryTrigger for any arms, relations, guards, skills  *)
(* and thresholds.                                                         *)
(*                                                                         *)
(* The counts of the tracker are those of the history variable stood, as   *)
(* both are voided by the same cycles; and a boundary that has seen a      *)
(* realignment is spent, although skills change between the trigger and    *)
(* the next act.                                                           *)
(***************************************************************************)
EXTENDS RecoveryTrigger, TLAPS

USE ConstantsAssumption

IInv ==
  /\ TypeOK
  /\ stood = count
  /\ \A g \in began.guard : stood[g] >= BoundaryPersist
  /\ \A b \in Boundaries : broad[b] = 0 \/ (broad[b] = 1 /\ b \in spent)

LEMMA BoundaryArms ==
  ASSUME NEW b \in Boundaries
  PROVE  b[1] \in Arms /\ b[2] \in Nat /\ b = <<b[1], b[2]>>
BY DEF Boundaries

LEMMA LeastTyped ==
  ASSUME NEW m \in Nat, NEW n \in Nat
  PROVE  Least(m, n) \in Nat /\ Least(m, n) <= n /\ (n > 0 /\ m > 0 => Least(m, n) > 0)
BY DEF Least

\* The counts of the guards stay within their threshold.
LEMMA StoodTyped ==
  ASSUME TypeOK, NEW wrong
  PROVE  Stood(wrong) \in [Guards -> 0 .. BoundaryPersist]
BY DEF TypeOK, Stood, Least

\* The counters of an arm, whatever mismatches it shows.
LEMMA CountedTyped ==
  ASSUME TypeOK, NEW a \in Arms, NEW active
  PROVE  Counted(a, active) \in [Kinds -> Nat]
BY DEF TypeOK, Counted, Least

\* The end of an act leaves modes, spells and the lifecycle typed.
LEMMA EndsTyped ==
  ASSUME TypeOK, NEW begun, Ends(begun)
  PROVE  /\ mode' \in [Arms -> {"task", "verify", "recover"}]
         /\ spell' \in [Arms -> 0 .. MaxSpell]
         /\ failed' \in BOOLEAN
<1>1. spell' \in [Arms -> 0 .. MaxSpell]
  <2>1. \A a \in Arms : spell'[a] \in Nat /\ spell'[a] <= MaxSpell
    BY DEF TypeOK, Ends
  <2>2. QED
    BY <2>1 DEF Ends
<1>2. failed' \in BOOLEAN
  BY Zenon DEF Ends
<1>3. QED
  BY <1>1, <1>2 DEF Ends

LEMMA TrackedTyped ==
  ASSUME NEW begun, NEW runs \in [Arms -> [Kinds -> Nat]],
         NEW marks \in [Arms -> SUBSET Kinds], Tracked(begun, runs, marks)
  PROVE  run' \in [Arms -> [Kinds -> Nat]] /\ emitted' \in [Arms -> SUBSET Kinds]
BY DEF Tracked

LEMMA AttemptsTyped ==
  ASSUME TypeOK, NEW verified, NEW decided \in [Relations -> Decisions],
         NEW skills \in [Arms -> Nat]
  PROVE  Attempts(verified, decided, skills)
           \in [Relations -> (Decisions \X Nat) \cup {NoAttempt}]
BY DEF TypeOK, Attempts, Signature

\* The trigger stage has the effects of some events, of those its mismatches show.
LEMMA TriggeredBy ==
  ASSUME NEW intents, NEW asked, NEW lost, Triggered(intents, asked, lost)
  PROVE  \E active, events, verified, recovering, wanted, begun :
           /\ active = [a \in Arms |-> Active(a, intents, lost)]
           /\ events = [a \in Arms |-> Events(a, active[a])]
           /\ Triggers(intents, active, events, verified, recovering, wanted, begun)
BY DEF Triggered

LEMMA TriggerTyped ==
  ASSUME TypeOK, NEW intents \in SUBSET Relations, NEW asked, NEW lost,
         Triggered(intents, asked, lost), decision' \in [Relations -> Decisions],
         skill' \in [Arms -> Nat]
  PROVE  /\ mode' \in [Arms -> {"task", "verify", "recover"}]
         /\ spell' \in [Arms -> 0 .. MaxSpell] /\ failed' \in BOOLEAN
         /\ goals' \in [Arms -> SUBSET Learned]
         /\ run' \in [Arms -> [Kinds -> Nat]] /\ emitted' \in [Arms -> SUBSET Kinds]
         /\ spent' \subseteq Boundaries
         /\ attempted' \in [Relations -> (Decisions \X Nat) \cup {NoAttempt}]
         /\ stood' \in [Guards -> Nat]
         /\ began' \in [event : SUBSET Relations, guard : SUBSET Guards]
         /\ broad' \in [Boundaries -> Nat]
<1>1. PICK active, events, verified, recovering, wanted, begun :
        /\ active = [a \in Arms |-> Active(a, intents, lost)]
        /\ events = [a \in Arms |-> Events(a, active[a])]
        /\ Triggers(intents, active, events, verified, recovering, wanted, begun)
  BY TriggeredBy
<1>2. [a \in Arms |-> Counted(a, active[a])] \in [Arms -> [Kinds -> Nat]]
  BY CountedTyped
<1>3. [a \in Arms |-> (emitted[a] \cap active[a]) \cup events[a]] \in [Arms -> SUBSET Kinds]
  <2>1. ASSUME NEW a \in Arms PROVE events[a] \subseteq Kinds
    BY <1>1 DEF Events, Active
  <2>2. QED
    BY <2>1 DEF TypeOK
<1>4. run' \in [Arms -> [Kinds -> Nat]] /\ emitted' \in [Arms -> SUBSET Kinds]
  <2>1. Tracked(begun, [a \in Arms |-> Counted(a, active[a])],
                       [a \in Arms |-> (emitted[a] \cap active[a]) \cup events[a]])
    BY <1>1 DEF Triggers
  <2>2. QED
    BY <1>2, <1>3, <2>1, TrackedTyped
<1>5. spent' \subseteq Boundaries
  BY <1>1 DEF Triggers, TypeOK, Spent
<1>6. attempted' \in [Relations -> (Decisions \X Nat) \cup {NoAttempt}]
  BY <1>1, AttemptsTyped DEF Triggers
<1>7. goals' \in [Arms -> SUBSET Learned]
  BY <1>1 DEF Triggers
<1>8. stood' \in [Guards -> Nat]
  BY <1>1, LeastTyped DEF Triggers, TypeOK
<1>9. began' \in [event : SUBSET Relations, guard : SUBSET Guards]
  BY <1>1 DEF Triggers
<1>10. broad' \in [Boundaries -> Nat]
  <2>1. ASSUME NEW b \in Boundaries
        PROVE  Least(broad[b] + 1, 2) \in Nat /\ broad[b] \in Nat
    BY LeastTyped DEF TypeOK
  <2>2. QED
    BY <1>1, <2>1 DEF Triggers
<1>11. QED
  BY <1>1, <1>4, <1>5, <1>6, <1>7, <1>8, <1>9, <1>10, EndsTyped DEF Triggers

\* A boundary is realigned by the trigger stage only if it is not spent, and spent then.
LEMMA TriggerRealignsOnce ==
  ASSUME TypeOK, NEW intents, NEW asked, NEW lost, Triggered(intents, asked, lost),
         \A b \in Boundaries : broad[b] = 0 \/ (broad[b] = 1 /\ b \in spent)
  PROVE  \A b \in Boundaries : broad'[b] = 0 \/ (broad'[b] = 1 /\ b \in spent')
<1>1. PICK active, events, verified, recovering, wanted, begun :
        /\ active = [a \in Arms |-> Active(a, intents, lost)]
        /\ events = [a \in Arms |-> Events(a, active[a])]
        /\ Triggers(intents, active, events, verified, recovering, wanted, begun)
  BY TriggeredBy
<1>2. SUFFICES ASSUME NEW b \in Boundaries
               PROVE  broad'[b] = 0 \/ (broad'[b] = 1 /\ b \in spent')
  OBVIOUS
<1>3. spent' = spent \cup Spent(events)
  BY <1>1 DEF Triggers
<1>4. CASE broad'[b] = broad[b]
  BY <1>3, <1>4
<1>5. CASE broad'[b] # broad[b]
  <2>1. Realigns(b[1], events) /\ skill[b[1]] = b[2] /\ broad'[b] = Least(broad[b] + 1, 2)
    BY <1>1, <1>5 DEF Triggers
  <2>2. b \notin spent /\ b \in Spent(events)
    BY <2>1, BoundaryArms DEF Realigns, Spent
  <2>3. broad[b] = 0
    BY <2>2
  <2>4. QED
    BY <1>3, <2>1, <2>2, <2>3 DEF Least
<1>6. QED
  BY <1>4, <1>5

\* A guard that begins a recovery in this stage has just been counted to its threshold.
LEMMA TriggerRestsOnCounts ==
  ASSUME TypeOK, stood = count, count' = Stood(refuted'),
         NEW intents, NEW asked, NEW lost, Triggered(intents, asked, lost)
  PROVE  stood' = count' /\ \A g \in began'.guard : stood'[g] >= BoundaryPersist
<1>1. PICK active, events, verified, recovering, wanted, begun :
        Triggers(intents, active, events, verified, recovering, wanted, begun)
  BY TriggeredBy
<1>2. stood' = count'
  BY <1>1 DEF Triggers, Stood
<1>3. \A g \in began'.guard : count'[g] >= BoundaryPersist
  BY <1>1 DEF Triggers
<1>4. QED
  BY <1>2, <1>3

--------------------------------------------------------------------------------
LEMMA IInvInit == Init => IInv
<1> SUFFICES ASSUME Init PROVE IInv
  OBVIOUS
<1>1. /\ mode \in [Arms -> {"task", "verify", "recover"}]
      /\ goals \in [Arms -> SUBSET Learned]
      /\ spell \in [Arms -> 0 .. MaxSpell]
  BY ConstantsAssumption DEF Init
<1>2. skill \in [Arms -> Nat] /\ \A a \in Arms : skill[a] <= LastSkill[a]
  BY ConstantsAssumption DEF Init
<1>3. /\ run \in [Arms -> [Kinds -> Nat]] /\ emitted \in [Arms -> SUBSET Kinds]
      /\ count \in [Guards -> 0 .. BoundaryPersist]
      /\ attempted \in [Relations -> (Decisions \X Nat) \cup {NoAttempt}]
      /\ stood \in [Guards -> Nat]
      /\ broad \in [Boundaries -> Nat]
  BY ConstantsAssumption DEF Init
<1>4. began \in [event : SUBSET Relations, guard : SUBSET Guards] /\ failed \in BOOLEAN
  BY DEF Init, Nothing
<1>5. TypeOK
  BY <1>1, <1>2, <1>3, <1>4 DEF Init, TypeOK
<1>6. QED
  BY <1>5 DEF Init, IInv, Nothing

\* An act in which every arm executes its task.
LEMMA TaskCycleKeepsIInv ==
  ASSUME IInv, TaskCycle
  PROVE  IInv'
<1>1. TypeOK /\ stood = count
  BY DEF IInv
<1>2. /\ decision' \in [Relations -> Decisions]
      /\ refuted' \subseteq Guards /\ mismatch' \subseteq Relations
      /\ count' = Stood(refuted')
  BY DEF TaskCycle, Refutable
<1>3. PICK crossing \in SUBSET {a \in Arms : /\ skill[a] < LastSkill[a]
                                             /\ \A g \in refuted' : g[1] # a} :
        /\ skill' = [a \in Arms |-> skill[a] + IF a \in crossing THEN 1 ELSE 0]
        /\ \E intents \in {S \in SUBSET {r \in Relations : decision'[r] # "unknown"} :
                            mismatch' \subseteq S},
             asked \in SUBSET {r \in Verifiable \ mismatch' : decision'[r] # "linked"},
             lost \in SUBSET (Arms \ crossing) :
             Triggered(intents, asked, lost)
  BY DEF TaskCycle
<1>4. PICK intents, asked, lost :
        intents \in SUBSET Relations /\ Triggered(intents, asked, lost)
  BY <1>3
<1>5. skill' \in [Arms -> Nat] /\ \A a \in Arms : skill'[a] <= LastSkill[a]
  BY <1>1, <1>3 DEF TypeOK
<1>6. count' \in [Guards -> 0 .. BoundaryPersist]
  BY <1>1, <1>2, StoodTyped
<1>7. TypeOK'
  BY <1>1, <1>2, <1>4, <1>5, <1>6, TriggerTyped DEF TypeOK
<1>8. stood' = count' /\ \A g \in began'.guard : stood'[g] >= BoundaryPersist
  BY <1>1, <1>2, <1>4, TriggerRestsOnCounts
<1>9. \A b \in Boundaries : broad'[b] = 0 \/ (broad'[b] = 1 /\ b \in spent')
  BY <1>1, <1>4, TriggerRealignsOnce DEF IInv
<1>10. QED
  BY <1>7, <1>8, <1>9 DEF IInv

\* An act in which some arm verifies or recovers.
LEMMA AuxiliaryCycleKeepsIInv ==
  ASSUME IInv, AuxiliaryCycle
  PROVE  IInv'
<1>1. TypeOK
  BY DEF IInv
<1>2. /\ mode' \in [Arms -> {"task", "verify", "recover"}]
      /\ spell' \in [Arms -> 0 .. MaxSpell] /\ failed' \in BOOLEAN
  BY <1>1, EndsTyped DEF AuxiliaryCycle
<1>3. run' \in [Arms -> [Kinds -> Nat]] /\ emitted' \in [Arms -> SUBSET Kinds]
  BY <1>1, TrackedTyped DEF AuxiliaryCycle, TypeOK
<1>4. PICK over \in SUBSET {a \in Arms : /\ mode[a] = "recover" /\ mode'[a] = "task"
                                         /\ skill[a] < LastSkill[a]} :
        skill' = [a \in Arms |-> skill[a] + IF a \in over THEN 1 ELSE 0]
  BY DEF AuxiliaryCycle
<1>5. skill' \in [Arms -> Nat] /\ \A a \in Arms : skill'[a] <= LastSkill[a]
  BY <1>1, <1>4 DEF TypeOK
<1>6. count' = [g \in Guards |-> 0] /\ stood' = count' /\ began' = Nothing
  BY DEF AuxiliaryCycle, Stood
<1>7. began' \in [event : SUBSET Relations, guard : SUBSET Guards] /\ began'.guard = {}
  BY <1>6 DEF Nothing
<1>8. TypeOK'
  BY <1>1, <1>2, <1>3, <1>5, <1>6, <1>7 DEF AuxiliaryCycle, TypeOK
<1>9. QED
  BY <1>6, <1>7, <1>8 DEF AuxiliaryCycle, IInv

LEMMA IInvStep == IInv /\ [Next]_vars => IInv'
<1> SUFFICES ASSUME IInv, [Next]_vars PROVE IInv'
  OBVIOUS
<1>1. CASE Next
  BY <1>1, TaskCycleKeepsIInv, AuxiliaryCycleKeepsIInv DEF Next
<1>2. CASE UNCHANGED vars
  BY <1>2 DEF vars, evidence, trackers, history, IInv, TypeOK
<1>3. QED
  BY <1>1, <1>2

LEMMA Invariance == Spec => []IInv
BY IInvInit, IInvStep, PTL DEF Spec

\* Every variable has its type: an arm that verifies or recovers does so for a bounded
\* spell, and no count passes its threshold (RecoveryTriggerTracker, MismatchTracker).
THEOREM TypesAreCorrect == Spec => []TypeOK
<1>1. IInv => TypeOK
  BY DEF IInv
<1>2. QED
  BY <1>1, Invariance, PTL

\* An arm is realigned at most once before each of its boundaries, however often the
\* evidence comes and goes and whatever the other arms do (RecoveryTriggerTracker.update).
THEOREM RealignsOncePerBoundary == Spec => []OneRealignmentPerBoundary
<1>1. IInv => OneRealignmentPerBoundary
  BY DEF IInv, OneRealignmentPerBoundary
<1>2. QED
  BY <1>1, Invariance, PTL

\* A recovery on a guard rests on as many consecutive acts that refuted it as the
\* threshold asks for, auxiliary cycles counted (RecoveryTriggerTracker.update, reset).
THEOREM GuardsAreRefutedConsecutively == Spec => []GuardsRefutedConsecutively
<1>1. IInv => GuardsRefutedConsecutively
  BY DEF IInv, GuardsRefutedConsecutively
<1>2. QED
  BY <1>1, Invariance, PTL
================================================================================
