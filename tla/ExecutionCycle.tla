----------------------------- MODULE ExecutionCycle -----------------------------
(***************************************************************************)
(* The TASK cycle of one arm: the relation filter and the progress prior   *)
(* (BeliefUpdater), the dynamic roles of one object frame and the          *)
(* lifecycle of its formal LINK events (FrameRoleRouter), the decision to  *)
(* hold, advance or realign (ClosedLoopExecutionController), and the       *)
(* crossing of a skill boundary with its preview of the target entry.      *)
(* Around it, the cycles in which the task is frozen, by this arm or a     *)
(* peer that verifies or recovers, and the two ways back to TASK.          *)
(*                                                                         *)
(* One step is one call of act.  A StateId is its global index: the        *)
(* topology is a chain.  Probabilities are abstracted to what the code     *)
(* compares them with: the relation the posterior favours beyond the       *)
(* decision threshold, the direction of this motion's likelihood, the      *)
(* state of largest progress mass.  A weight is none, zero or positive.    *)
(***************************************************************************)
EXTENDS Integers, FiniteSets

CONSTANTS LastState,  \* the states of the task are 0 .. LastState
          Skill,      \* the skill of each state
          Events,     \* the formal LINK events of the frame
          Entry,      \* linked_entry_states of each event
          Owned,      \* the states whose link_origin is the event
          Releases,   \* release_state of the frame's UNLINK events
          Selected,   \* the states in which the frame is a selected stream
          Alone,      \* those in which it is the only one
          Window,     \* the states of the learned completion windows
          Persist     \* relation_mismatch_cycles

States == 0 .. LastState
NoState == -1
Relations == {"external", "linked"}
Decisions == Relations \cup {"unknown"}
Sights == {"none", "faint", "clear"}
FirstOf(e) == CHOOSE s \in Entry[e] : \A u \in Entry[e] : s <= u
LastOf(e) == CHOOSE s \in Entry[e] : \A u \in Entry[e] : u <= s

ASSUME ConstantsAssumption ==
  /\ LastState \in Nat
  /\ Skill \in [States -> Nat]
  /\ \A s, u \in States : s <= u => Skill[s] <= Skill[u]
  /\ Entry \in [Events -> SUBSET States] /\ Owned \in [Events -> SUBSET States]
  /\ \A e \in Events : /\ Entry[e] # {}
                       /\ Entry[e] = FirstOf(e) .. LastOf(e)
                       /\ FirstOf(e) \in Owned[e] /\ Owned[e] \subseteq FirstOf(e) .. LastState
  /\ Releases \subseteq States /\ Alone \subseteq Selected
  /\ Selected \subseteq States /\ Window \subseteq States
  /\ Persist \in Nat \ {0}

VARIABLES
  ref,       \* reference_state of the cursor
  executed,  \* ClosedLoopPolicy._last_executed_reference, or NoState
  spread,    \* whether states besides the estimated one may have progress mass
  estimated, \* estimated_state of the last belief
  stable,    \* BeliefUpdater._stable_decisions
  evidence,  \* BeliefUpdater._informative_evidence_decisions
  sighted,   \* how the frame was seen in _previous_observation, one of Sights
  router,    \* the state of the FrameRoleRouter
  last,      \* what the last TASK cycle made of the frame
  mismatch,  \* MismatchCounters.relation_mismatch, up to Persist
  behind,    \* history: events an earlier state of which was the reference since the reset
  entered,   \* history: events entered in sight, and not decided by any motion since
  probes,    \* history: commands beyond its interval under the grace of an event
  tested     \* history: a motion has decided the relation since the frame was lost

memory == <<stable, evidence, sighted>>
history == <<behind, entered, probes, tested>>
progress == <<spread, estimated>>
vars == <<ref, executed, progress, memory, router, last, mismatch,
          history>>

--------------------------------------------------------------------------------
(* RelationFilter.update and the memories of BeliefUpdater *)

\* How a frame that is seen, or is not, is found in the observation before the next: in
\* clear sight when it is visible and reliable, faint when it is visible only.
Sightings(seen) == IF seen THEN {"clear"} ELSE {"none", "faint"}

\* What a cycle may observe of the frame: seen when it is visible and reliable; paired
\* when it was so in the observation before as well; moved when the information weight
\* reaches its minimum, for which it must have been visible before, though it may have
\* been faint.  direction is that of the likelihood of the motion, posterior the relation
\* that reaches the decision threshold, and leans says whether external is the likelier one.
Observations ==
  {o \in [seen : BOOLEAN, paired : BOOLEAN, moved : BOOLEAN,
          direction : Decisions, posterior : Decisions, leans : BOOLEAN] :
     /\ o.paired = (o.seen /\ sighted = "clear")
     /\ o.moved => o.seen /\ sighted # "none"
     /\ o.direction # "unknown" => o.moved
     /\ o.posterior # "unknown" => o.leans = (o.posterior = "external") /\ o.seen
     /\ o.leans => o.seen}

\* Mutant of DecisionOf: the memory of motion speaks for a frame that is not tracked.
DecisionOfLost(o) ==
  IF o.moved THEN o.posterior
  ELSE IF o.seen /\ stable = o.posterior /\ stable # "none" THEN stable
  ELSE IF evidence # "none" THEN evidence
  ELSE "unknown"

\* An informative motion decides by the posterior; without one, the last decision
\* persists as long as the posterior agrees, and then the last relation that a motion
\* has confirmed.
DecisionOf(o) ==
  IF o.moved THEN o.posterior
  ELSE IF o.seen /\ stable = o.posterior /\ stable # "none" THEN stable
  ELSE IF o.seen /\ evidence # "none" THEN evidence
  ELSE "unknown"

\* _commit_informative_evidence and _relation_changes.
Remember(seen, direction, d) ==
  /\ evidence' = IF ~seen THEN "none"
                 ELSE IF d \in Relations /\ direction = d THEN d
                 ELSE evidence
  /\ stable' = IF d # "unknown" THEN d ELSE IF ~seen THEN "none" ELSE stable
  /\ sighted' \in Sightings(seen)

--------------------------------------------------------------------------------
(* ProgressPriorBuilder.build, the candidates of BeliefUpdater.update, ProgressFilter *)

Successor(s) == s + 1
SameSkill(s, u) == Skill[s] = Skill[u]
InSkillAfter(s) == {u \in States : u > s /\ SameSkill(s, u)}

\* nominal_state: the state commanded last, or else the one of largest mass.
Nominal == IF executed # NoState THEN executed ELSE estimated

\* Mutant of Candidates: the mass near the nominal state spreads over a boundary.
CandidatesAcross ==
  IF ~spread /\ executed = NoState THEN {estimated}
  ELSE {s \in States : Nominal - 1 <= s /\ s <= Nominal + 2}

\* The states with progress mass: those near the nominal one, as only a committed
\* crossing moves mass over a boundary, or the estimated one alone until an action has
\* been executed from it.
Candidates ==
  IF ~spread /\ executed = NoState THEN {estimated}
  ELSE {s \in States : SameSkill(s, Nominal) /\ Nominal - 1 <= s /\ s <= Nominal + 2}

\* Which of the candidates keep mass is for the scores to say.  When the relation of any
\* frame has changed and no candidate is plausible, states ahead in the same skill join
\* them; the other frames are not modelled, so this may be the case in every cycle.
Masses == {{Nominal} \cup others : others \in SUBSET (Candidates \cup InSkillAfter(Nominal))}

Owners(s) == {e \in Events : s \in Owned[e]}
ExpectedAt(s) == IF Owners(s) # {} THEN "linked" ELSE "external"

\* _expected_decision of the demonstrated relation, weighted by the progress mass.
Expectations(mass) ==
  LET at == {ExpectedAt(s) : s \in mass} IN IF at = Relations THEN Decisions ELSE at

--------------------------------------------------------------------------------
(* FrameRoleRouter.route, of state s, by router r and belief b *)

\* Mutant of FreshRouter: a reset keeps the windows that are open.
FreshRouterGraced(r) == [confirmed |-> {}, rejected |-> {}, unresolved |-> r.unresolved,
                         committed |-> NoState, trusted |-> "none"]

\* reset: committed is _last_committed_state, trusted the weight in
\* _last_trusted_weights.
FreshRouter(r) == [confirmed |-> {}, rejected |-> {}, unresolved |-> {},
                   committed |-> NoState, trusted |-> "none"]

Settled(r) == r.confirmed \cup r.rejected

\* _formal_link_confirmation_events.
FormalEvents(r, s) == {e \in Events : s \in Entry[e]} \ Settled(r)

\* _causally_enters_link_interval: the arm was commanded a state before the interval.
CausallyEnters(r, e, s) == /\ r.committed # NoState
                        /\ s \in Entry[e] /\ r.committed < FirstOf(e)

\* This motion speaks for the link, though the posterior may not yet.
Responds(b) == b.moved /\ b.direction = "linked"

\* Mutant of Probed: the state behind the interval has its grace as long as it is held.
ProbedRepeatedly(r, s, b) ==
  IF Responds(b)
  THEN {e \in r.unresolved \ Settled(r) : s = Successor(LastOf(e))} ELSE {}

\* The one state behind the interval, as an answer to a response to its last state.
Probed(r, s, b) ==
  IF Responds(b)
  THEN {e \in r.unresolved \ Settled(r) : /\ r.committed = LastOf(e)
                                            /\ s = Successor(LastOf(e))} ELSE {}

\* The end of the interval has been commanded and reached, without a response.
Consumed(r, e, s, b) ==
  /\ r.committed = s /\ b.estimated = s /\ s = LastOf(e) /\ ~Responds(b)

\* _formal_link_confirmation_pending: the events in the window of their confirmation.
Pending(r, s, b) ==
  IF b.decision = "linked" \/ ~b.paired THEN {}
  ELSE {e \in FormalEvents(r, s) \cup Probed(r, s, b) :
          /\ e \in r.unresolved \/ CausallyEnters(r, e, s)
          /\ ~Consumed(r, e, s, b)}

PlannedLink(s) == \E e \in Events : Successor(s) = FirstOf(e)
PlannedUnlink(s) == Successor(s) \in Releases

\* Whether the frame has a role at s at all.
Routed(r, s, b) == \/ s \in Selected \/ FormalEvents(r, s) # {}
                \/ \E u \in b.mass : Owners(u) # {}
Confirmed(r, s, b) == IF Routed(r, s, b) /\ b.decision = "linked" THEN Owners(s) ELSE {}
Grace(r, s, b) == IF Routed(r, s, b) THEN Pending(r, s, b) ELSE {}

\* A fresh and informative motion contradicts the link that is expected here.
Contradicted(r, s, b, grace) ==
  IF /\ Routed(r, s, b) /\ grace = {}
     /\ b.expected = "linked" /\ b.decision = "external"
     /\ b.moved /\ b.direction = "external"
  THEN Owners(s) ELSE {}

SafeWeight(b) == IF b.seen THEN "positive" ELSE "zero"
TrustedWeight(r, b) == IF r.trusted = "none" THEN SafeWeight(b) ELSE r.trusted

\* An Unknown of the first cycles, with everything pointing to external, may act.
SafeBootstrap(r, s, b) ==
  /\ s \in Selected /\ r.trusted = "none"
  /\ b.expected = "external" /\ b.leans /\ b.seen

Role(name, weight, blocks) ==
  [role |-> name, weight |-> weight, blocks |-> blocks, intent |-> FALSE]
NoRole == Role("none", "zero", FALSE)

\* The decision for the frame, in the order of the branches of route.
RoleAt(r, s, b, grace) ==
  LET d == b.decision
      planned == /\ PlannedLink(s) \/ PlannedUnlink(s)
                 /\ b.expected = "linked" /\ d # "linked"
      unwatched == /\ s \notin Selected /\ grace = {} /\ b.expected # "linked"
                   /\ ~(b.expected = "unknown" /\ d = "linked")
  IN IF ~Routed(r, s, b) \/ unwatched THEN NoRole
     ELSE IF grace # {} \/ planned THEN Role("defer", "zero", FALSE)
     ELSE IF d = "unknown"
          THEN Role("defer", IF s \in Selected THEN TrustedWeight(r, b) ELSE "zero",
                    ~SafeBootstrap(r, s, b))
     ELSE IF b.expected = "unknown"
          THEN Role("defer", IF d = "linked" THEN "zero" ELSE TrustedWeight(r, b), FALSE)
     ELSE IF b.expected # d THEN [Role("recover", "zero", TRUE) EXCEPT !.intent = TRUE]
     ELSE IF d = "external" THEN Role("execute", "positive", FALSE)
     ELSE Role("monitor", "zero", FALSE)

\* The later of the routed and the estimated state.
Context(s, b) == IF s < b.estimated THEN b.estimated ELSE s

\* _verification_requests for the formal events: unresolved, outside their window, and
\* no motion to decide them.
Requests(r, s, b, settled) ==
  IF b.decision = "linked" \/ ~b.paired \/ b.moved THEN {}
  ELSE (r.unresolved \cap Owners(Context(s, b))) \ settled

Route(r, s, b) ==
  LET grace == Grace(r, s, b)
      confirmed == Confirmed(r, s, b)
      rejected == Contradicted(r, s, b, grace)
  IN [state |-> s, frame |-> RoleAt(r, s, b, grace), grace |-> grace,
      confirmed |-> confirmed, rejected |-> rejected,
      unresolved |-> (r.unresolved \cup grace) \ (confirmed \cup rejected),
      requests |-> Requests(r, s, b, grace \cup confirmed \cup rejected)]

\* WeightedPoEExecutor.query: some selected stream has a positive weight.
Available(snap) ==
  snap.state \notin Alone \/ snap.frame.weight = "positive"

--------------------------------------------------------------------------------
(* FrameRoleRouter.commit and commit_boundary_entry *)

\* The weight remembered is that of the last relation known in sight, then that of the
\* last stable role.
Committed(r, snap, b, causal) ==
  [confirmed |-> r.confirmed \cup snap.confirmed,
   rejected |-> r.rejected \cup snap.rejected,
   unresolved |-> snap.unresolved,
   committed |-> causal,
   trusted |-> IF snap.frame.role \notin {"none", "defer"} THEN snap.frame.weight
               ELSE IF b.seen /\ b.decision = "external" THEN "positive"
               ELSE IF b.seen /\ b.decision = "linked" THEN "zero"
               ELSE r.trusted]

\* Mutant of Merged: the lifecycle of the source terminal is committed as it is.
MergedSourceOnly(source, entry) == source

\* The snapshot of the source terminal with the lifecycles of both.
Merged(source, entry) ==
  LET confirmed == source.confirmed \cup entry.confirmed
      rejected == source.rejected \cup entry.rejected
  IN [source EXCEPT !.confirmed = confirmed, !.rejected = rejected,
        !.unresolved = (@ \cup entry.unresolved) \ (confirmed \cup rejected)]

--------------------------------------------------------------------------------
(* ClosedLoopExecutionController *)

\* The direct successor of s in its skill, or s at the end of it.
NextInSkill(s) == IF Successor(s) \in InSkillAfter(s) THEN Successor(s) ELSE s

\* What _roles_equivalent compares of the route of s.
Controls(r, s, b) ==
  LET snap == Route(r, s, b)
  IN <<snap.frame, s \in Selected, snap.grace = {}, snap.confirmed, snap.rejected, snap.requests>>

\* The states between the estimate and the reference may be one class of controls.
MayTie(r, b) ==
  /\ b.estimated < ref /\ SameSkill(b.estimated, ref) /\ b.estimated .. ref \subseteq b.mass
  /\ Cardinality({Controls(r, s, b) : s \in b.estimated .. ref}) = 1

\* The reasons of _decision to hold the reference.
Held(b, snap) == snap.frame.blocks \/ ~SameSkill(b.estimated, ref)

\* Mutant of Proposals: an estimate behind the reference realigns the task to it.
ProposalsBackward(r, b, snap) ==
  {ref} \cup IF Held(b, snap) THEN {}
             ELSE IF b.estimated # ref THEN {b.estimated}
             ELSE IF Nominal # ref \/ executed # NoState THEN {NextInSkill(ref)} ELSE {}

\* _decision: the reference is held at any time, as no state may be plausible, the class
\* of equivalent controls may have little mass, or the gripper may not have followed the
\* command of the reference yet.  Else an estimate ahead is adopted, a reference that is
\* reached, or tied to the estimate, is followed by its successor, and an estimate
\* behind is waited for.
Proposals(r, b, snap) ==
  {ref} \cup IF Held(b, snap) THEN {}
             ELSE IF b.estimated > ref THEN {b.estimated}
             ELSE IF \/ b.estimated = ref /\ (Nominal # ref \/ executed # NoState)
                     \/ MayTie(r, b)
                  THEN {NextInSkill(ref)} ELSE {}

\* update: a proposal that its own roles block, or without a stream, is not adopted.
Adopted(there) == ~there.frame.blocks /\ Available(there)

--------------------------------------------------------------------------------
(* The acts of the policy *)

\* What the filter makes of what it may observe; leans is asked for only as long as no
\* weight is trusted.
Estimates ==
  {LET d == DecisionOf(o) IN
   [seen |-> o.seen, paired |-> o.paired, moved |-> o.moved, direction |-> o.direction,
    decision |-> d,
    leans |-> d = "unknown" /\ router.trusted = "none" /\ o.leans] : o \in Observations}

\* The beliefs with the estimate k of the relation.
Beliefs(k) ==
  UNION {{[seen |-> k.seen, paired |-> k.paired, moved |-> k.moved,
           direction |-> k.direction, decision |-> k.decision, leans |-> k.leans,
           mass |-> mass, expected |-> expected, estimated |-> e] :
            expected \in Expectations(mass), e \in mass} : mass \in Masses}

NothingYet == [own |-> FALSE, unasked |-> {}]

Init ==
  /\ ref = 0 /\ executed = NoState /\ spread = FALSE /\ estimated = 0
  /\ stable = "none" /\ evidence = "none" /\ sighted = "none"
  /\ router = FreshRouter([unresolved |-> {}])
  /\ last = NothingYet /\ mismatch = 0
  /\ behind = {} /\ entered = {} /\ probes = [e \in Events |-> 0]
  /\ tested = FALSE

\* A motion of this cycle decides the relation, or it is that of the event.
Decided(b) == b.decision = "linked" \/ (b.moved /\ b.decision # "unknown")

Tested(k) == k.seen /\ (tested \/ (k.moved /\ k.decision # "unknown"))

\* The history after the roles of state at are committed and s is the reference, under
\* the grace of some events.
Commanded(b, at, s, grace) ==
  /\ behind' = behind \cup {e \in Events : at < FirstOf(e)}
  /\ entered' = IF Decided(b) THEN {}
                ELSE entered \cup {e \in behind : b.paired /\ ref < FirstOf(e) /\ s \in Entry[e]}
  /\ probes' = [e \in Events |-> IF e \in grace /\ s \notin Entry[e]
                                 THEN probes[e] + 1 ELSE probes[e]]
  /\ tested' = Tested(b)

Counted(wrong) == IF ~wrong THEN 0 ELSE IF mismatch < Persist THEN mismatch + 1 ELSE Persist

\* What the trigger stage reads of snapshot snap: own tells a recovery intent of its own
\* from that of a proposal which is not adopted, unasked are the links that are missing
\* in a cycle without motion, and of which no verification is requested.
Outcome(b, snap) ==
  [own |-> snap.frame.intent,
   unasked |-> IF b.paired /\ ~b.moved /\ b.decision = "external"
               THEN Owners(Context(snap.state, b)) \ snap.requests ELSE {}]

\* BeliefUpdater.update and ClosedLoopExecutionController.update, up to the roles that
\* are committed: here at the reference, there at the proposal, snap at the one adopted.
Cycle(Commit(_, _, _)) ==
  \E k \in Estimates : \E b \in Beliefs(k) :
  \E here \in {Route(router, ref, b)} : \E s \in Proposals(router, b, here) :
  \E there \in {Route(router, s, b)} : \E snap \in {IF Adopted(there) THEN there ELSE here} :
    /\ Remember(b.seen, b.direction, b.decision)
    /\ mismatch' = Counted(IF there.frame.blocks THEN there.frame.intent ELSE snap.frame.intent)
    /\ Commit(b, snap, Committed(router, snap, b, snap.state))

\* The action of the cycle is executed, or rejected; or the arm or a peer begins to
\* verify or recover.
Stays(b, snap, r) ==
  /\ ref' = snap.state
  /\ estimated' = b.estimated
  /\ spread' = (spread \/ executed # NoState \/ b.mass # {b.estimated})
  /\ last' = Outcome(b, snap)
  /\ router' = r
  /\ Commanded(b, snap.state, ref', snap.grace)
  /\ executed' \in {NoState} \cup {s \in {ref'} : Available(snap)}

TaskCycle == Cycle(Stays)

\* The last state of the skill of s.
Terminal(s) == CHOOSE u \in States : /\ SameSkill(s, u)
                                     /\ u = LastState \/ ~SameSkill(u, Successor(u))

\* BeliefUpdater.commit_boundary_transition and query_after_boundary_transition: the
\* joint transaction commits the crossing in the same act, after the cycle committed its
\* roles.  The command is that of the source terminal, with the gripper of the entry.
Crosses(b, snap, r) ==
  \E terminal \in {Terminal(snap.state)} :
  \E source \in {Route(r, terminal, b)}, entry \in {Route(r, Successor(terminal), b)} :
    /\ b.estimated \in Window /\ terminal # LastState
    /\ SameSkill(b.estimated, terminal)
    /\ ref' = entry.state
    /\ estimated' = entry.state /\ spread' = FALSE
    /\ last' = Outcome(b, source)
    /\ router' = Committed(r, Merged(source, entry), b, entry.state)
    /\ Commanded(b, snap.state, ref', source.grace \cup entry.grace)
    /\ executed' \in {NoState} \cup {s \in {ref'} : Available(source)}

\* Behind the last skill there is no boundary.
CrossingCycle == Terminal(ref) # LastState /\ Cycle(Crosses)

\* update_frozen: the arm or a peer verifies or recovers; only the relation is filtered.
\* So may an arm find it that has just reentered, and waits for its peer.  A verification
\* of the arm's own, which a TASK cycle has requested, writes its verdict to the memories
\* of the filter when it concludes.
FrozenCycle ==
  /\ executed = NoState
  /\ \/ \E k \in Estimates : /\ Remember(k.seen, k.direction, k.decision)
                             /\ entered' = IF Decided(k) THEN {} ELSE entered
                             /\ tested' = Tested(k)
     \/ \E verdict \in Relations : /\ router.committed # NoState
                                   /\ stable' = verdict /\ evidence' = verdict
                                   /\ sighted' \in Sights /\ entered' = {}
                                   /\ tested' = TRUE
  /\ UNCHANGED <<ref, executed, progress, router, last, mismatch, behind, probes>>

\* ReentrySelector.apply, at the end of a recovery, which a TASK cycle has triggered: the
\* task resumes at a state of the skill or of the next one, whose boundary alone is
\* asked for; the router is reset and of the relation only the decision is kept.
Reenter(s) ==
  /\ executed = NoState /\ router.committed # NoState
  /\ Skill[s] \in {Skill[ref], Skill[ref] + 1}
  /\ \E k \in Estimates : /\ stable' = IF k.decision = "unknown" THEN "none" ELSE k.decision
                          /\ sighted' \in Sightings(k.seen) /\ tested' = Tested(k)
  /\ evidence' = "none"
  /\ router' = FreshRouter(router)
  /\ ref' = s /\ estimated' = s /\ spread' = FALSE
  /\ last' = NothingYet /\ mismatch' = 0
  /\ behind' = {} /\ entered' = {} /\ probes' = [e \in Events |-> 0]
  /\ UNCHANGED executed

Next == \/ TaskCycle
        \/ CrossingCycle
        \/ FrozenCycle
        \/ \E s \in States : Reenter(s)

Spec == Init /\ [][Next]_vars

--------------------------------------------------------------------------------
(* Properties *)

TypeOK ==
  /\ ref \in States /\ executed \in {NoState, ref}
  /\ spread \in BOOLEAN /\ estimated \in States
  /\ stable \in Relations \cup {"none"} /\ evidence \in Relations \cup {"none"}
  /\ sighted \in Sights
  /\ router \in [confirmed : SUBSET Events, rejected : SUBSET Events,
                 unresolved : SUBSET Events, committed : States \cup {NoState},
                 trusted : {"none", "zero", "positive"}]
  /\ executed # NoState => SameSkill(executed, estimated)
  /\ mismatch \in 0 .. Persist

\* The window in which an unconfirmed grasp is trusted is never open for an arm that has
\* not been before the interval since the last reset, nor for an event that is decided,
\* and leads the arm at most one state beyond the interval, however often the object
\* responds (FrameRoleRouter.commit, _formal_link_confirmation_pending).
GraceIsBounded ==
  /\ router.unresolved \subseteq behind
  /\ router.unresolved \cap Settled(router) = {}
  /\ \A e \in Events : probes[e] <= 1

\* A grasp that was entered in sight and that no motion has decided is verified by a
\* probe before its missing link counts as a mismatch that triggers a recovery: the older
\* knowledge of the relation is not held against it, as far as the roles of the reference
\* itself, and not those of a successor that is only proposed, intend the recovery
\* (commit_boundary_entry, _verification_requests).
MemoryIsVerifiedFirst ==
  last.own /\ mismatch = Persist => entered \cap last.unasked = {}

\* What is remembered of the relation of a frame that was lost has been decided by a
\* motion, or a verification, since: it is never revived by the return of the frame
\* (RelationFilter.update, _commit_informative_evidence, _relation_changes).
LostMustBeTested == (stable # "none" \/ evidence # "none") => tested

\* The task never runs backwards in a skill, nor leaves a skill but for the entry of the
\* next, unless a recovery reenters it (_decision, query_after_boundary_transition).
NormalExecutionMovesForward ==
  [][\/ ref' >= ref /\ (SameSkill(ref, ref') \/ ref' = Successor(Terminal(ref)))
     \/ router'.committed = NoState]_vars
================================================================================
