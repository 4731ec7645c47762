-------------------------- MODULE BoundaryTransaction --------------------------
(***************************************************************************)
(* The skill-boundary transaction of the closed-loop policy: the entry     *)
(* guards of all arms (EntryGuard), the batch coordinator                  *)
(* (TransitionTransactionCoordinator), the boundary side of the execution  *)
(* cursor and of the progress posterior, and the two places of             *)
(* ClosedLoopPolicy._act_impl that drive them: the ordinary cycle in which *)
(* every arm executes its task, and the auxiliary cycle in which arms that *)
(* finish a relation recovery may cross a boundary by reentry.             *)
(*                                                                         *)
(* One step is one call of act.  Scores, poses and posteriors are          *)
(* abstracted to what the guards read of them: which conditions of a       *)
(* boundary hold in this observation.  A tick is a positive number and 0   *)
(* stands for the code's None.                                             *)
(***************************************************************************)
EXTENDS Integers

CONSTANTS Arms,        \* the controlled arms
          LastSkill,   \* LastSkill[a] is the index of the last skill of a
          Group,       \* transaction_group of each boundary, or NoGroup
          NoGroup,
          Conditions,  \* local completion and the guards of each boundary
          Confirm,     \* confirmation_cycles (H) of each boundary
          MaxTick,     \* bound: ticks explored
          MaxGap       \* bound: largest increase between two observations

Boundaries == UNION {{a} \X (0 .. LastSkill[a] - 1) : a \in Arms}
CondIds == UNION {Conditions[b] : b \in Boundaries}
Modes == {"task", "verify", "recover", "reentry"}

ASSUME ConstantsAssumption ==
  /\ LastSkill \in [Arms -> Nat]
  /\ Confirm \in [Boundaries -> Nat \ {0}]
  /\ Conditions \in [Boundaries -> SUBSET CondIds]
  /\ \A b \in Boundaries : Conditions[b] # {}
  /\ MaxTick \in Nat /\ MaxGap \in Nat

VARIABLES
  tick,       \* tick of the last act that returned
  mode,       \* ExecutionMode of each arm, RECOVERY split by its REENTRY phase
  skill,      \* skill of each arm's reference_state
  mass,       \* skills that carry posterior progress mass
  ctrlTick,   \* ClosedLoopExecutionController._last_tick
  coordTick,  \* TransitionTransactionCoordinator._last_tick
  permit,     \* ClosedLoopPolicy._permitted_boundaries
  streak,     \* EntryGuard._local_streaks and _condition_streaks
  evalTick,   \* EntryGuard._last_ticks
  refused,    \* the requests of the last act when their commit raised, or {}
  seen,       \* history: the last H ticks, those at which a condition held
  crossedAt   \* history: the tick at which a boundary was crossed

guardVars == <<streak, evalTick>>
cursorVars == <<skill, mass, ctrlTick, coordTick, permit>>
history == <<seen, crossedAt>>
vars == <<tick, mode, cursorVars, guardVars, refused, history>>

Init ==
  /\ tick = 0
  /\ mode = [a \in Arms |-> "task"]
  /\ skill = [a \in Arms |-> 0]
  /\ mass = [a \in Arms |-> {0}]
  /\ ctrlTick = [a \in Arms |-> 0]
  /\ coordTick = 0
  /\ permit = {}
  /\ streak = [b \in Boundaries |-> [c \in CondIds |-> 0]]
  /\ evalTick = [b \in Boundaries |-> 0]
  /\ refused = {}
  /\ seen = [b \in Boundaries |-> [c \in CondIds |-> {}]]
  /\ crossedAt = [b \in Boundaries |-> 0]

--------------------------------------------------------------------------------
(* EntryGuard and TransitionTransactionCoordinator *)

\* The boundaries the arms of S stand before; an arm in its last skill has none.
Current(S) == {b \in Boundaries : b[1] \in S /\ b[2] = skill[b[1]]}

\* What one evaluation of the boundaries of E can observe.
Observable(E) == {p \in E \X CondIds : p[2] \in Conditions[p[1]]}

\* Mutant of Carried: a lost tick does not void the counts.
CarriedOverGaps(t, b) == streak[b]

\* _begin_tick: a tick that does not follow the last evaluation voids the counts.
Carried(t, b) == IF evalTick[b] # 0 /\ t # evalTick[b] + 1
                 THEN [c \in CondIds |-> 0] ELSE streak[b]

\* Mutant of Counts: a condition that fails wears its count down.
CountsWearingDown(t, E, obs) ==
  [b \in Boundaries |->
     IF b \in E
     THEN [c \in CondIds |->
             Carried(t, b)[c] + (IF <<b, c>> \in obs THEN 1 ELSE -1)]
     ELSE streak[b]]

\* The counts after evaluating E when exactly the pairs of obs hold.
Counts(t, E, obs) ==
  [b \in Boundaries |->
     IF b \in E
     THEN [c \in CondIds |-> IF <<b, c>> \in obs THEN Carried(t, b)[c] + 1 ELSE 0]
     ELSE streak[b]]

Permitted(b, n) == \A c \in Conditions[b] : n[b][c] >= Confirm[b]

GroupOf(b) == IF Group[b] = NoGroup THEN {b}
              ELSE {m \in Boundaries : Group[m] = Group[b]}

\* Mutant of Resolve: every permitted request is released on its own.
ResolveAlone(E, n) == {b \in E : Permitted(b, n)}

\* _resolve: an independent request when permitted, a group when all of it was
\* requested and permitted.
Resolve(E, n) == {b \in E : \A m \in GroupOf(b) : m \in E /\ Permitted(m, n)}

\* validate_boundary_transition of the cursor and of the progress posterior.
Valid(t, b, lastTick, support) ==
  /\ lastTick[b[1]] = t
  /\ skill[b[1]] = b[2]
  /\ \A k \in support[b[1]] : k <= b[2]

Observe(t, E, obs, n) ==
  /\ streak' = n
  /\ evalTick' = [b \in Boundaries |-> IF b \in E THEN t ELSE evalTick[b]]
  /\ seen' = [b \in Boundaries |-> [c \in CondIds |->
                IF b \notin E THEN seen[b][c]
                ELSE {u \in seen[b][c] : t - u < Confirm[b]}
                       \cup (IF <<b, c>> \in obs THEN {t} ELSE {})]]

\* Mutant of Crossing: the posterior is not projected onto the new cursor.
CrossingCursorOnly(t, requests, X, S, support) ==
  /\ skill' = [a \in Arms |-> skill[a] + (IF \E b \in X : b[1] = a THEN 1 ELSE 0)]
  /\ mass' = support
  /\ coordTick' = IF requests = {} THEN coordTick ELSE t
  /\ permit' = X
  /\ crossedAt' = [b \in Boundaries |-> IF b \in X THEN t ELSE crossedAt[b]]

\* The cursors of the arms that cross the boundaries of X move to the entry
\* state of the next skill; the posterior of every arm in S becomes one-hot at
\* its cursor, and keeps the given support elsewhere.
Crossing(t, requests, X, S, support) ==
  /\ skill' = [a \in Arms |-> skill[a] + (IF \E b \in X : b[1] = a THEN 1 ELSE 0)]
  /\ mass' = [a \in Arms |-> IF a \in S \/ \E b \in X : b[1] = a
                             THEN {skill'[a]} ELSE support[a]]
  /\ coordTick' = IF requests = {} THEN coordTick ELSE t
  /\ permit' = X
  /\ crossedAt' = [b \in Boundaries |-> IF b \in X THEN t ELSE crossedAt[b]]

\* The commit of the requests raises: act restores its snapshot and re-raises.
Refuse(requests) ==
  /\ refused' = requests
  /\ UNCHANGED <<tick, mode, cursorVars, guardVars, history>>

--------------------------------------------------------------------------------
(* The ordinary cycle: every arm is in TASK mode *)

\* Mutant of Support: the prior lets mass over a boundary nobody permitted.
SupportUnpermitted(a) == mass[a] \cup {k + 1 : k \in {j \in mass[a] : j < LastSkill[a]}}

\* The progress prior may move mass over a boundary committed in the last cycle.
Support(a) == mass[a] \cup {k + 1 : k \in {j \in mass[a] : <<a, j>> \in permit}}

Supports == {f \in [Arms -> SUBSET UNION {Support(a) : a \in Arms}] :
               \A a \in Arms : f[a] # {} /\ f[a] \subseteq Support(a)}

\* The batch X of the boundaries resolved from the counts n is committed, and
\* the trigger stage follows.  An arm starts to verify or to recover a relation;
\* recovery without relation goals enters REENTRY in the cycle that starts it, and
\* may find a state of its skill at once (the arms of D), which puts the arm back
\* in TASK with its controller reset.
TaskAct(t, obs, n, X, support, D) ==
  IF /\ Current(Arms) = {} \/ coordTick < t
     /\ \A b \in X : Valid(t, b, [a \in Arms |-> t], support)
  THEN /\ Observe(t, Current(Arms), obs, n)
       /\ Crossing(t, Current(Arms), X, D, support)
       /\ mode' \in [Arms -> Modes]
       /\ \A a \in D : mode'[a] = "task"
       /\ ctrlTick' = [a \in Arms |-> IF a \in D THEN 0 ELSE t]
       /\ tick' = t
       /\ refused' = {}
  ELSE Refuse(Current(Arms))

--------------------------------------------------------------------------------
(* The auxiliary cycle: some arm verifies or recovers a relation *)

\* The modes an arm may have when the reentry stage begins: a verification may
\* end, a recovery may have completed its goals.
Continue == [task    |-> {"task"},
             verify  |-> {"verify", "task"},
             recover |-> {"recover", "reentry"},
             reentry |-> {"reentry"}]

\* _reentry_boundary_arms: the reentering arms and every arm with a boundary in
\* a group one of them stands before.
ReentryBoundaryArms(R) ==
  R \cup {m[1] : m \in UNION {GroupOf(b) : b \in Current(R)}}

\* Mutant of Eligible: a reentering arm does not wait for its group.
EligibleAlone(P, R, C, next) == {b \in P : b[1] \in R => b[1] \in C}

\* The previewed boundaries that are committed, the arms of C having selected a
\* state of the next skill and next being the modes of this cycle.
Eligible(P, R, C, next) ==
  {b \in P : \A m \in GroupOf(b) :
               IF m[1] \in R THEN m[1] \in C ELSE next[m[1]] = "task"}

\* The arms of R reenter, those of done successfully: over a boundary of X, or
\* within their skill.  Selections over a boundary that is not committed are
\* dropped.
AuxAct(t, obs, n, next, R, X, done) ==
  IF /\ X = {} \/ coordTick < t
     /\ \A b \in X : b[1] \in R \/ Valid(t, b, ctrlTick, mass)
  THEN /\ Observe(t, Current(ReentryBoundaryArms(R)), obs, n)
       /\ Crossing(t, X, X, done, mass)
       /\ mode' = [a \in Arms |-> IF a \in done THEN "task" ELSE next[a]]
       /\ ctrlTick' = [a \in Arms |-> IF a \in done THEN 0 ELSE ctrlTick[a]]
       /\ tick' = t
       /\ refused' = {}
  ELSE Refuse(X)

--------------------------------------------------------------------------------
Ticks == {t \in tick + 1 .. tick + MaxGap : t <= MaxTick}

TaskCycle ==
  /\ \A a \in Arms : mode[a] = "task"
  /\ \E t \in Ticks, obs \in SUBSET Observable(Current(Arms)) :
     \E n \in {Counts(t, Current(Arms), obs)} :
     \E X \in {Resolve(Current(Arms), n)}, support \in Supports, D \in SUBSET Arms :
        TaskAct(t, obs, n, X, support, D)

\* The arms of C select a state over their boundary, those of D one within their
\* skill; the other arms of R find no state yet.
AuxiliaryCycle ==
  /\ \E a \in Arms : mode[a] # "task"
  /\ \E t \in Ticks, next \in [Arms -> Modes] :
       /\ \A a \in Arms : next[a] \in Continue[mode[a]]
       /\ \E R \in {{a \in Arms : next[a] = "reentry"}} :
          \E E \in {Current(ReentryBoundaryArms(R))} :
          \E obs \in SUBSET Observable(E) :
          \E n \in {Counts(t, E, obs)} :
          \E P \in {Resolve(E, n)} :
          \E C \in SUBSET {a \in R : <<a, skill[a]>> \in P \cup permit} :
          \E X \in {Eligible(P, R, C, next)}, D \in SUBSET (R \ C) :
             AuxAct(t, obs, n, next, R, X, D \cup {a \in R : \E b \in X : b[1] = a})

Next == TaskCycle \/ AuxiliaryCycle

Spec == Init /\ [][Next]_vars

--------------------------------------------------------------------------------
TypeOK ==
  /\ tick \in Nat
  /\ mode \in [Arms -> Modes]
  /\ skill \in [Arms -> Nat]
  /\ mass \in [Arms -> SUBSET Nat]
  /\ ctrlTick \in [Arms -> Nat]
  /\ coordTick \in Nat
  /\ permit \subseteq Boundaries
  /\ streak \in [Boundaries -> [CondIds -> Nat]]
  /\ evalTick \in [Boundaries -> Nat]
  /\ refused \subseteq Boundaries
  /\ seen \in [Boundaries -> [CondIds -> SUBSET Nat]]
  /\ crossedAt \in [Boundaries -> Nat]

\* The boundaries of a transaction group are crossed in one and the same act, or
\* not at all (README of the package: a group is committed atomically, and only
\* when every member is released in the same cycle).
GroupAtomic ==
  \A b, m \in Boundaries :
    Group[b] # NoGroup /\ Group[b] = Group[m] => crossedAt[b] = crossedAt[m]

\* A boundary is crossed only on top of H consecutive ticks at which local
\* completion and every guard held; an evaluation skipped, by a lost tick or by an
\* auxiliary cycle of any arm, never counts.
ConfirmedCrossing ==
  \A b \in Boundaries : crossedAt[b] # 0 =>
    \A c \in Conditions[b], i \in 0 .. Confirm[b] - 1 :
      crossedAt[b] - i \in seen[b][c]

\* The cursor and the progress posterior never part at a boundary: whether an
\* arm crossed by the coordinator or by reentry, all mass lies in the skill of the
\* cursor, and that skill was entered over its own boundary.
CursorMatchesBelief ==
  \A a \in Arms :
    /\ mass[a] = {skill[a]}
    /\ \A k \in 0 .. LastSkill[a] - 1 : k < skill[a] <=> crossedAt[<<a, k>>] # 0

\* While every arm executes its task, no act is refused by the validations of its own
\* commit; only the boundaries committed beside a reentry are (see JointReentryCommits).
TaskActsCommit == refused # {} => \E a \in Arms : mode[a] # "task"

\* The docstring of TransitionTransactionCoordinator.commit ("Commit one resolved
\* batch, allowing recovery to own selected cursors") and the test
\* test_joint_transaction_can_delegate_one_cursor_to_reentry_atomically say that a
\* jointly permitted group is committed when one of its arms reenters.
JointReentryCommits == \A b \in refused : Group[b] = NoGroup

Abstract == INSTANCE AtomicCrossing

\* The cursors implement the abstract transaction.
AtomicCrossingSpec == Abstract!Spec
================================================================================
