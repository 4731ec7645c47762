---------------------------- MODULE RecoveryTrigger ----------------------------
(***************************************************************************)
(* How evidence becomes a change of mode: the mismatch counters of every   *)
(* arm (MismatchTracker), the triggers they and the boundary guards feed   *)
(* (RecoveryTriggerTracker), the register of verification attempts, and    *)
(* the stage of ClosedLoopPolicy._act_impl in which each arm in TASK may   *)
(* begin to verify or to recover a relation.                               *)
(*                                                                         *)
(* One step is one act of an episode.  What the filters and frame roles    *)
(* say of an observation is chosen freely: the decision for each relation, *)
(* the relations in mismatch and those of them with fresh evidence, the    *)
(* guards refuted by a stable estimate, the LINK events that ask for       *)
(* verification, the arms no state explains.  A relation that asks has no  *)
(* fresh evidence and a known approach direction; the policy server names  *)
(* no grasp event, so none is in the signature of an attempt.  The         *)
(* counters of holds and stalls feed no trigger and are left out.          *)
(***************************************************************************)
EXTENDS Integers

CONSTANTS Arms,
          Relations,        \* the relations of all arms, in the order of their events
          Owner,            \* the arm of each relation
          Learned,          \* the relations some recovery goal can repair
          Verifiable,       \* the relations with a LINK event to verify
          Guards,           \* pairs of an arm and a relation that guards its boundaries
          LastSkill,        \* LastSkill[a] is the index of the last skill of a
          Persist,          \* MismatchConfig: cycles until a mismatch is an event
          BoundaryPersist,  \* RecoveryConfig: cycles until a refuted guard is an intent
          MaxSpell          \* bound: cycles of one verification or recovery

Kinds == {"no_plausible", "relation"}
Decisions == {"linked", "external", "unknown"}
Boundaries == UNION {{a} \X (0 .. LastSkill[a] - 1) : a \in Arms}

ASSUME ConstantsAssumption ==
  /\ Relations \subseteq Nat
  /\ Owner \in [Relations -> Arms]
  /\ Learned \subseteq Relations /\ Verifiable \subseteq Relations
  /\ Guards \subseteq Arms \X Relations
  /\ LastSkill \in [Arms -> Nat]
  /\ Persist \in [Kinds -> Nat \ {0}]
  /\ BoundaryPersist \in Nat \ {0} /\ MaxSpell \in Nat \ {0}

VARIABLES
  mode,       \* ExecutionMode of each arm
  goals,      \* the relations the recovery of an arm repairs
  spell,      \* how long an arm has been verifying or recovering
  skill,      \* skill of each arm's reference_state
  decision,   \* decision_state of each relation
  mismatch,   \* the relations in mismatch by fresh evidence in the last TASK cycle
  refuted,    \* the refuted guards of the last TASK cycle
  run,        \* MismatchCounters of each arm
  emitted,    \* MismatchTracker._emitted of each arm
  count,      \* RecoveryTriggerTracker._boundary_counts
  spent,      \* _boundary_progress_reentry_attempted
  attempted,  \* VerificationAttemptRegistry._attempted
  failed,     \* the lifecycle is FAILED
  stood,      \* history: consecutive acts a guard was refuted
  began,      \* history: the evidence the last act began recoveries on
  broad       \* history: recoveries begun in each skill as no state was plausible

evidence == <<decision, mismatch, refuted>>
trackers == <<run, emitted, count, spent, attempted>>
history == <<stood, began, broad>>
vars == <<mode, goals, spell, skill, evidence, trackers, failed, history>>

Nothing == [event |-> {}, guard |-> {}]
NoAttempt == <<"none", 0>>
Least(m, n) == IF m < n THEN m ELSE n
Owned(a, S) == {r \in S : Owner[r] = a}

Init ==
  /\ mode = [a \in Arms |-> "task"] /\ goals = [a \in Arms |-> {}]
  /\ spell = [a \in Arms |-> 0] /\ skill = [a \in Arms |-> 0]
  /\ decision \in [Relations -> Decisions]
  /\ mismatch = {} /\ refuted = {}
  /\ run = [a \in Arms |-> [k \in Kinds |-> 0]] /\ emitted = [a \in Arms |-> {}]
  /\ count = [g \in Guards |-> 0] /\ spent = {}
  /\ attempted = [r \in Relations |-> NoAttempt]
  /\ failed = FALSE
  /\ stood = [g \in Guards |-> 0]
  /\ began = Nothing /\ broad = [b \in Boundaries |-> 0]

--------------------------------------------------------------------------------
(* MismatchTracker.update *)

\* The kinds of mismatch an arm shows, out of the relations and arms in mismatch.
Active(a, intents, lost) ==
  {k \in Kinds : IF k = "relation" THEN Owned(a, intents) # {} ELSE a \in lost}

Counted(a, active) ==
  [k \in Kinds |-> IF k \in active THEN Least(run[a][k] + 1, Persist[k]) ELSE 0]

\* A kind is emitted once, until it stops to hold.
Events(a, active) ==
  {k \in active \ emitted[a] : Counted(a, active)[k] >= Persist[k]}

--------------------------------------------------------------------------------
(* RecoveryTriggerTracker.update *)

\* Mutant of Stood: counts outlive the cycles in which a guard is not refuted.
StoodAccumulating(wrong) ==
  [g \in Guards |-> IF g \in wrong THEN Least(count[g] + 1, BoundaryPersist) ELSE count[g]]

Stood(wrong) ==
  [g \in Guards |-> IF g \in wrong THEN Least(count[g] + 1, BoundaryPersist) ELSE 0]

\* Mutant of Realigns: no boundary remembers its attempt.
RealignsAgain(a, events) == "no_plausible" \in events[a]

\* NO_PLAUSIBLE_STATE triggers once before each boundary, always in the last skill.
Realigns(a, events) == /\ "no_plausible" \in events[a]
                       /\ <<a, skill[a]>> \notin spent

\* Mutant of Spent: the last skill, which has no boundary, is marked as well.
SpentAlways(events) == {<<a, skill[a]>> : a \in {b \in Arms : "no_plausible" \in events[b]}}

Spent(events) == {b \in Boundaries : "no_plausible" \in events[b[1]] /\ skill[b[1]] = b[2]}

\* Mutant of IntentsOf: a standing guard speaks to the arm it guards.
IntentsOfGuarded(a, intents, events, counts) ==
  (IF "relation" \in events[a] THEN Owned(a, intents) ELSE {})
    \cup Owned(a, {g[2] : g \in {h \in Guards : h[1] = a /\ counts[h] >= BoundaryPersist}})

\* The intents of an arm: those of its own event, and those of standing guards.
IntentsOf(a, intents, events, counts) ==
  (IF "relation" \in events[a] THEN Owned(a, intents) ELSE {})
    \cup Owned(a, {g[2] : g \in {h \in Guards : counts[h] >= BoundaryPersist}})

--------------------------------------------------------------------------------
(* The register of attempts: the same event is verified again only when the *)
(* relation decision or the skill has changed.                               *)

Signature(r, decided, skills) == <<decided[r], skills[Owner[r]]>>

\* The request of an arm is the least of those made; it is dropped when it repeats
\* the last attempt.
Verifies(a, asked, decided, skills) ==
  {r \in Owned(a, asked) : /\ \A q \in Owned(a, asked) : r <= q
                           /\ attempted[r] # Signature(r, decided, skills)}

\* Mutant of Attempts: attempts are not recorded.
AttemptsForgotten(verified, decided, skills) == attempted

Attempts(verified, decided, skills) ==
  [r \in Relations |-> IF r \in verified THEN Signature(r, decided, skills)
                                         ELSE attempted[r]]

\* The reason of a standing guard names the arm it guards, whoever owns the relation.
Alarmed(a, counts) == \E g \in Guards : g[1] = a /\ counts[g] >= BoundaryPersist

\* begin_recovery: an arm with intents recovers if it may repair one of them; with
\* reasons only, it recovers without goals, to reenter any state of its task.
Recovers(a, intents, events, counts) ==
  LET wanted == IntentsOf(a, intents, events, counts) IN
  IF wanted = {} THEN Realigns(a, events) \/ Alarmed(a, counts)
                 ELSE wanted \cap Learned # {}

--------------------------------------------------------------------------------
(* One act *)

\* The ends of the spells of the arms, begun being their modes after the trigger
\* stage: an arm verifies or recovers on, returns to TASK, or the policy fails.
Ends(begun) ==
  /\ mode' \in [Arms -> {"task", "verify", "recover"}]
  /\ \A a \in Arms : mode'[a] \in {begun[a], "task"}
  /\ spell' = [a \in Arms |-> IF mode'[a] = "task" THEN 0 ELSE spell[a] + 1]
  /\ \A a \in Arms : spell'[a] <= MaxSpell
  /\ failed' \in {FALSE, \E a \in Arms : begun[a] # "task"}

\* An arm that ends its recovery resets its execution controller.
Tracked(begun, runs, marks) ==
  LET reset == {a \in Arms : begun[a] = "recover" /\ mode'[a] = "task"} IN
  /\ run' = [a \in Arms |-> IF a \in reset THEN [k \in Kinds |-> 0] ELSE runs[a]]
  /\ emitted' = [a \in Arms |-> IF a \in reset THEN {} ELSE marks[a]]

\* The effects of the trigger stage, in which the arms verify those of the relations
\* verified that are theirs, and those recovering begin to, for what they want repaired.
Triggers(intents, active, events, verified, recovering, wanted, begun) ==
  /\ spent' = spent \cup Spent(events)
  /\ attempted' = Attempts(verified, decision', skill')
  /\ goals' = [a \in Arms |-> wanted[a] \cap Learned]
  /\ stood' = [g \in Guards |->
                 IF g \in refuted' THEN Least(stood[g] + 1, BoundaryPersist) ELSE 0]
  /\ began' = [event |-> {r \in intents : /\ r \in wanted[Owner[r]]
                                         /\ "relation" \in events[Owner[r]]},
               guard |-> {g \in Guards : g[2] \in wanted[Owner[g[2]]]
                                         /\ count'[g] >= BoundaryPersist}]
  /\ broad' = [b \in Boundaries |->
                 IF /\ b[1] \in recovering /\ wanted[b[1]] = {}
                    /\ Realigns(b[1], events) /\ skill[b[1]] = b[2]
                 THEN Least(broad[b] + 1, 2) ELSE broad[b]]
  /\ Ends(begun)
  /\ Tracked(begun, [a \in Arms |-> Counted(a, active[a])],
                    [a \in Arms |-> (emitted[a] \cap active[a]) \cup events[a]])

\* The trigger stage, with the relations in mismatch, those asked to be verified and
\* the arms with no plausible state.
Triggered(intents, asked, lost) ==
  \E active \in {[a \in Arms |-> Active(a, intents, lost)]},
     verified \in {UNION {Verifies(a, asked, decision', skill') : a \in Arms}} :
  \E events \in {[a \in Arms |-> Events(a, active[a])]} :
  \E recovering \in {{a \in Arms : /\ Owned(a, verified) = {}
                                   /\ Recovers(a, intents, events, count')}} :
  \E wanted \in {[a \in Arms |-> IF a \in recovering
                                 THEN IntentsOf(a, intents, events, count') ELSE {}]},
     begun \in {[a \in Arms |-> IF Owned(a, verified) # {} THEN "verify"
                                ELSE IF a \in recovering THEN "recover" ELSE "task"]} :
    Triggers(intents, active, events, verified, recovering, wanted, begun)

\* The guards a decision may refute: that of a peer only once its LINK has failed.
Refutable(decided) ==
  {g \in Guards : /\ skill[g[1]] < LastSkill[g[1]]
                  /\ decided[g[2]] \in IF g[1] = Owner[g[2]] THEN {"linked", "external"}
                                                              ELSE {"external"}}

\* Every arm executes its task, some first commit a boundary; then the trackers count
\* the relations in mismatch, fresh or stale, and the arms with no plausible state, and
\* an arm verifies the relation it is asked to, or recovers, or executes its task.
TaskCycle ==
  /\ ~failed /\ \A a \in Arms : mode[a] = "task"
  /\ decision' \in [Relations -> Decisions]
  /\ refuted' \in SUBSET Refutable(decision')
  /\ mismatch' \in SUBSET {r \in Relations : decision'[r] # "unknown"}
  /\ count' = Stood(refuted')
  /\ \E crossing \in SUBSET {a \in Arms : /\ skill[a] < LastSkill[a]
                                       /\ \A g \in refuted' : g[1] # a} :
       /\ skill' = [a \in Arms |-> skill[a] + IF a \in crossing THEN 1 ELSE 0]
       /\ \E intents \in {S \in SUBSET {r \in Relations : decision'[r] # "unknown"} :
                           mismatch' \subseteq S},
            asked \in SUBSET {r \in Verifiable \ mismatch' : decision'[r] # "linked"},
            lost \in SUBSET (Arms \ crossing) :
            Triggered(intents, asked, lost)

\* Some arm verifies or recovers: nothing is counted and nothing begins; the guards,
\* which are not evaluated, lose their counts.  An arm that has recovered reenters its
\* skill or the next one.
AuxiliaryCycle ==
  /\ ~failed /\ \E a \in Arms : mode[a] # "task"
  /\ decision' \in [Relations -> Decisions]
  /\ Ends(mode)
  /\ Tracked(mode, run, emitted)
  /\ \E over \in SUBSET {a \in Arms : /\ mode[a] = "recover" /\ mode'[a] = "task"
                                      /\ skill[a] < LastSkill[a]} :
       skill' = [a \in Arms |-> skill[a] + IF a \in over THEN 1 ELSE 0]
  /\ count' = Stood({})
  /\ stood' = [g \in Guards |-> 0] /\ began' = Nothing
  /\ UNCHANGED <<goals, mismatch, refuted, spent, attempted, broad>>

Next == TaskCycle \/ AuxiliaryCycle

\* The evaluator acts until the policy fails or completes.
Spec == Init /\ [][Next]_vars /\ WF_vars(Next)

--------------------------------------------------------------------------------
TypeOK ==
  /\ mode \in [Arms -> {"task", "verify", "recover"}]
  /\ goals \in [Arms -> SUBSET Learned]
  /\ spell \in [Arms -> 0 .. MaxSpell]
  /\ skill \in [Arms -> Nat] /\ \A a \in Arms : skill[a] <= LastSkill[a]
  /\ decision \in [Relations -> Decisions]
  /\ mismatch \subseteq Relations /\ refuted \subseteq Guards
  /\ run \in [Arms -> [Kinds -> Nat]] /\ emitted \in [Arms -> SUBSET Kinds]
  /\ count \in [Guards -> 0 .. BoundaryPersist]
  /\ spent \subseteq Boundaries
  /\ attempted \in [Relations -> (Decisions \X Nat) \cup {NoAttempt}]
  /\ failed \in BOOLEAN
  /\ stood \in [Guards -> Nat]
  /\ began \in [event : SUBSET Relations, guard : SUBSET Guards]
  /\ broad \in [Boundaries -> Nat]

\* An arm that no state explains is realigned with its task at most once before each
\* boundary: a second time could replay the manipulation backwards while the arm waits
\* there for its peer.
OneRealignmentPerBoundary == \A b \in Boundaries : broad[b] <= 1

\* A guard that causes a recovery was refuted in BoundaryPersist consecutive acts; an
\* auxiliary cycle of any arm, which does not evaluate guards, starts the count anew.
GuardsRefutedConsecutively == \A g \in began.guard : stood[g] >= BoundaryPersist

\* Verification does not keep the policy busy: once the decisions stop to change, no
\* arm verifies any more (README: the same event is verified again only after the
\* relation state, the task state or the grasp has changed).
VerificationsSettle ==
  \A d \in [Relations -> Decisions] :
    <>[](decision = d) => <>[](failed \/ \A a \in Arms : mode[a] # "verify")

\* A guard whose relation stays refuted is repaired by the arm that owns the
\* relation, once the decisions stop to change, even if that arm finds no plausible
\* state over and over: its intent is raised in every cycle until then.  This needs
\* BoundaryPersist <= Persist["no_plausible"], as in the configuration files; else
\* the realignments of an arm in its last skill void the count of the guard forever.
RefutedGuardsRecover ==
  \A d \in [Relations -> Decisions] :
    <>[](decision = d) =>
      \A g \in {h \in Guards : h[2] \in Learned} :
        []<>(g \notin refuted \/ g[2] \in goals[Owner[g[2]]] \/ failed)

\* A relation that fresh evidence keeps contradicting is recovered: the README of the
\* package says that such evidence goes straight to LINK recovery and "must not be
\* masked by the verification branch".
MismatchesRecover ==
  \A r \in Learned : []<>(r \notin mismatch \/ r \in goals[Owner[r]] \/ failed)
================================================================================
