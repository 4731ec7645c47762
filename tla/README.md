# TLA+ models of the closed-loop multi-stream policy

This directory holds formal models of the closed-loop manipulation policy in
`source/policy/closed_loop`, of the protocol by which the RLBench integration
drives it, of the grippers and physical faults it is evaluated with, and of the
launcher of the formal evaluation. TLC checks the models on small instances; TLAPS proves every
safety property they check for all values of the constants. Paths below are relative to the
repository root; `cl/` abbreviates `source/policy/closed_loop/`.

Contents: 1 the system, 2 the modules, 3 what the runs check, 4 what the runs
refute, 5 what is proved, 6 assumptions and abstractions, 7 what is not modelled,
8 plan, 9 how to run.

## 1. The system

A policy controls one or two arms. The task of an arm is a linear sequence of
skills; each skill is a sequence of states learned from demonstrations (DynaMAC
on top of MiDiGaP). The closed-loop part estimates from observations where the
arm is in its task and which objects move with which gripper ("relations"), and
decides in every control cycle whether to execute the task, to cross into the
next skill, to verify a doubtful grasp, or to recover a lost relation.

| Component | Source | State | Operations |
|---|---|---|---|
| Inference | `cl/inference/*` | progress posterior over states, binary posterior of each relation, last decisions | `BeliefUpdater.update`, `update_frozen`, `commit`, `commit_boundary_transition`, `commit_relation_confirmation`, `reset` |
| Frame roles | `cl/control/frame_roles.py` | confirmed, rejected and unresolved LINK events, trusted weights | `route`, `commit`, `commit_boundary_entry` |
| Execution controller | `cl/control/execution_controller.py`, `execution_cursor.py` | reference state (cursor), tick, mismatch counters | `update`, `validate/commit_boundary_transition`, `query_after_boundary_transition`, `reset` |
| Mismatch tracker | `cl/control/mismatch.py` | one counter and one "emitted" mark per kind of mismatch | `update`, `reset` |
| Boundary guards and transaction | `cl/control/entry_guard.py`, `bimanual_controller.py`, `transition_transaction.py` | confirmation counts per condition, last ticks | `evaluate`, `preview`, `commit`, `commit_requests` |
| Recovery trigger | `cl/recovery/manager.py` 188-400 | counts of refuted guards, boundaries whose one realignment is spent | `update`, `reset` |
| Active verification | `cl/recovery/relation_verification.py` | phase, path out and back, response window, register of attempts | `start`, `update` |
| Relation recovery | `cl/recovery/manager.py`, `relation_goals.py`, `reentry.py` | goals, attempt counters, waypoint, probe, phase | `begin_recovery`, `update`, `select_reentry`, `commit_reentry` |
| Link anchors | `cl/model/link_anchors.py` | Pending anchors activated in this episode | `activate_pending`, `release`, `resolve*` |
| Policy | `cl/policy.py` | all of the above, snapshot of the pending cycle, lifecycle, executed references | `reset`, `act`, `commit`, `abort` |
| Policy server | `integrations/rlbench/rlbench_closed_loop/policy_server.py` | pending transaction, next id, tick, previous command | `reset`, `act`, `commit`, `abort`, `close` over a pipe |
| Evaluator | `integrations/rlbench/rlbench_dynamac/eval/direct_evaluate.py`, `core/runtime.py` | episode, committed steps, worker process, the scenario and its applied events | loop over episodes and actions, `ScenarioController.apply`, `_finalize_episode_intervention_status` |
| Gripper protocol | `core/runtime.py` 1844-2130, action modes in `direct_evaluate.py` | what each gripper holds, closes that are still to be resolved, authorisation of the next command | `action`, `_attempt_pending_close`, `set_policy_gripper_authorization` |
| Fault injection | `rlbench_closed_loop/eval/fault_injection.py` | trigger, stable interaction, captured objects, audit of the effect | `step`, `record_background_event` |
| Formal launcher | `evaluations/development/phase6_formal_evaluation/{launch,run_cell,resources}.py`, `core/records.py` | results, locks and `execute.lock` on disk; queue, lanes and worker processes of a launch | `preflight`, `execute`, `merge_formal_cell`, `reserve_output`, `_mark_result` |
| Task model, base policies, data, other reports | see section 7 | learned constants, files | offline |

How they interact: the evaluator calls the server over a pipe, one request at a
time; the server calls `act`, and the evaluator then moves the simulator and sends
`commit` or `abort`. Inside `act` everything runs in one thread: all arms'
beliefs, then either the ordinary cycle (every arm in TASK: execution, boundary
transaction, trigger stage) or the auxiliary cycle (some arm verifies or
recovers: beliefs are frozen, other arms hold their references, arms that have
finished a recovery may reenter). State is shared through the policy object:
`_permitted_boundaries`, the cursors, the modes of the managers. An experiment may
wrap the simulator in the fault injector, which sees every step and reaches into
the gripper protocol. The launcher starts one evaluator per shard as a process of
its own; launchers and workers share nothing but files.

What is hard about it, and therefore modelled:

* **Interleaving of arms in one act.** A boundary of a joint skill may only be
  crossed by all arms at once, while one of them may be crossing by reentry; a
  trigger is computed for all arms and split by arm; an auxiliary cycle of one
  arm suspends the guards and counters of the others.
* **Stale evidence.** Confirmation counts, mismatch counters, response windows
  and stable estimates survive cycles in which they are not updated.
* **Rollback.** `act` changes a dozen objects in place and must be undone exactly
  when the simulator refuses the action, or when anything raises.
* **Limits and termination.** Recoveries nest attempts, waypoints, probes, returns
  and a search for reentry, each with its own limit.
* **Failure of the worker.** It may die or answer too late at any point.
* **The life of a grasp in the roles.** A LINK event is pending, confirmed, rejected
  or unresolved across states, skills, gaps in visibility and frozen cycles.
* **Two grippers, one object, and a fault between them.** A close is resolved cycles
  later, by an object the other gripper may hold and a fault may take away.
* **Files under several processes.** A launcher may fail or be killed at any step
  while its workers, or another launcher, go on writing, and HEAD may move.

What makes each component correct is stated as properties in section 3; the
places where it could go wrong are listed under `hazards` in `PROJECT.json`.

## 2. The modules

| Module | Models | Correspondence |
|---|---|---|
| `AtomicCrossing` | the promise of the boundary transaction | one variable, the skill of every arm; one step crosses a set of boundaries closed under groups |
| `BoundaryTransaction` | entry guards, coordinator, cursor and posterior at a boundary, both kinds of cycle of `_act_impl` | one step is one `act`. `TaskAct` is the ordinary cycle: evaluate every current boundary, resolve, validate, commit, trigger stage. `AuxAct` is the auxiliary cycle: evaluate the boundaries of reentering arms and of their groups, preview, select, filter (`Eligible`), commit. `Refuse` is a commit that raises |
| `RelationRecovery` | `RelationRecoveryController` and the RECOVERY half of the manager | one step is one call of the manager. Operators bear the names of the methods: `Noted` is the evidence of an estimate, `Stabilised` is `_link_probe_stable`, `ProbeCycle` and `ReturnCycle` are the two halves of `_update_link_probe`, `RetryOrFail` is `_retry_or_fail`, `CompleteGoal` is `_complete_goal` |
| `RelationVerification` | `RelationVerificationController`, the VERIFY_LINK half of the manager, what the policy commits | one step is one act. `Begin` starts a verification and runs its first update, as `_act_impl` does; `Cycle` is every later update |
| `RecoveryTrigger` | `MismatchTracker`, `RecoveryTriggerTracker`, the register of attempts, the trigger stage | one step is one act: `TaskCycle` counts the evidence, `Triggered` splits it by arm and begins verifications and recoveries; `AuxiliaryCycle` counts nothing and voids the counts of the guards |
| `PolicyTransaction` | `act`/`commit`/`abort`, server, pipe, evaluator, simulator outcome, death of the worker | one step is one request served, one step of the evaluator's loop, or the death of the worker. `Act` asks for an action after it has moved the scene when a segment is `Due`; `Finish` audits the events of the scene |
| `ExecutionCycle` | relation filter memories, progress candidates, `FrameRoleRouter`, `ClosedLoopExecutionController.update`, crossing with its preview of the entry, frozen cycles (those of an arm that has just reentered and waits for its peer included), reset by a reentry | one step is one act as one arm sees it. `Route` is `route` for one object frame, `Committed` and `Merged` are `commit` and `commit_boundary_entry`, `Proposals` is `_decision`, `Crosses` is `query_after_boundary_transition` |
| `FormalMatrix` | the promise of the formal evaluation | evidence of each shard and result of each cell; both are written once, a cell only from complete evidence of one commit |
| `FormalLaunch` | `launch.py`, `run_cell.py`, `resources.py`, `reserve_output` | one step is one operation on a file by a worker (`Look`, `Lock`, `LookAgain`, `Write`, `Unlock`, `Mark`) or one stage of `execute` (`Preflight`, `Scan`, `Acquire`, `Start`, `Poll`, `Drain`, `Merge`, `Interrupt`). External: the loss of a process, the kill of a launcher, a commit, the operator who tidies up |
| `PhysicalFault` | `ProtocolBimanualDiscrete`, the action mode over it, `FaultInjectingTaskEnvironment` | one step is one `step` of the wrapped environment: `Undisturbed` before the scene has moved, `Disturbed` after, `Impossible` when the arms cannot follow and the joints are held; `NextEpisode` is the next episode of the same evaluation |
| `*Proofs` | theorems about the module of that name | section 5 |
| `MC*` | values of constants for TLC | section 3 |

`BoundaryTransaction` refines `AtomicCrossing` (same variable `skill`, stated as
`AtomicCrossingSpec` by `INSTANCE`). `FormalLaunch` refines `FormalMatrix`, stated
as `MatrixSpec`: the evidence of a shard is the commit its result file names, and
none as long as the file carries no identity; the matrix is the merged results. The other modules meet at the interfaces of
the code: `RecoveryTrigger` decides when a verification or recovery begins and
lets it last for any number of cycles; `RelationVerification` and
`RelationRecovery` model what happens in these cycles; `BoundaryTransaction` takes
any change of mode they can produce; `PolicyTransaction` takes any cycle an `act`
can compute. `ExecutionCycle` looks at one arm from within: what it commits in a
TASK cycle is the evidence `RecoveryTrigger` chooses, its frozen cycles are those of
`RelationRecovery` and `RelationVerification`, and its `Reenter` is the way back.
`PhysicalFault` takes any command and any authorisation the policy can give.

## 3. What the runs check

| Run | Instance | Properties |
|---|---|---|
| `boundary_joint` | two arms, three boundaries, two of them joint, `H` of 1 and 2, ticks up to 5 with gaps | `GroupAtomic`, `ConfirmedCrossing`, `CursorMatchesBelief`, `TaskActsCommit` (no commit of an ordinary cycle is refused by its own validation), refinement of `AtomicCrossing` |
| `recovery_goals` | two frames, UNLINK and LINK goals, every limit at 1 or 2, recovery of up to 12 cycles | `HardLimits`, `RepairEvidence`, `ReleaseBeforeGrasp`, `ProbeReturns`, `RecoveryEnds` |
| `verification` | two events of one arm, probe of 2, return of 3 cycles, distance up to 2 | `VerdictRestsOnResponses`, `BeliefSupportsDecision`, `ArmIsBroughtBack`, `VerificationEnds` |
| `trigger_guards` | two arms, a relation of one guards the boundary of the other, thresholds of 2 | `OneRealignmentPerBoundary`, `GuardsRefutedConsecutively`, `VerificationsSettle`, `RefutedGuardsRecover` |
| `transactions` | two arms, two episodes of up to four steps, a scene that moves in two segments from step 1 | `RollbackIsExact`, `FeedbackIsTrue`, `ClocksAgree`, `EvaluationEnds` |
| `lifecycle` | one arm, seven states in skills of two, three and two, a grasp whose confirmation interval is states 2-3 (it begins at the skill entry), whose link lasts until state 5 and whose release is state 6, threshold 2 | `GraceIsBounded`, `MemoryIsVerifiedFirst`, `LostMustBeTested`, `NormalExecutionMovesForward` |
| `launch` | two launchers, two lanes on three cores, a cell of three episodes in two shards and a finished cell of one, two commits, one kill | `SuccessIsComplete`, `WorkersHaveLanes`, `LaunchEnds`, refinement of `FormalMatrix` |
| `physical_faults` | two grippers, one object that attaches and one that is only touched, all four faults on either arm, two episodes, one scene motion | `GripsHaveCauses`, `RestoredByNewGrasp` |

Each run also checks the type invariant of its module. For every property `PROJECT.json` names a mutant: a definition of the model and
a plausibly wrong version of it, for which the run refutes the property.

**Bounds, and why they are enough.** Counters in the code are only compared with
their thresholds, so a threshold of 2 distinguishes "once", "consecutively" and
"interrupted"; where a threshold of 1 is used the count itself is not the
question. Two arms are what the code supports. Three boundaries give an arm an
independent boundary before a joint one, so that posterior mass, permission and
counts of an earlier boundary are present at a later one. `MaxGap` 2 contains a
lost tick. Distances up to 2 let an arm move out, back, and past a waypoint.
Two goals contain every order of release and grasp; two verifications contain
whatever one can leave to the next. Two episodes and four steps contain an
action after a hold, after an abort and after a completed arm, and an episode
after one that ended in each possible way. The scene of `transactions` is at rest at
step 0, moves at 1 and 2 and has come to rest at 3, and an episode may end in between. In `lifecycle` the interval has states
before it in another skill, two states within and one behind it, which are the four
cases the router tells apart; as the release does not follow the interval at once, a
window that is consumed asks for a verification, and as the link lasts over the second
crossing, an unresolved grasp is carried into the third skill, whose states expect
different relations. State 0 has the frame as its only stream, states 1 and 6 share it
with another, and the others do not select it. In `launch` two launchers
contend for every file, a cell of two shards can be half done, and with two commits
evidence can be stale; three cores on two lanes do not divide evenly. In
`physical_faults` two episodes show what outlives one, the objects are one of each
sort, and a threshold of 2 makes a grasp stable in the second cycle. `MaxTick`, `MaxGap`,
`MaxSpell`, `Reach`, `LastCommit`, `MaxKilled` and the `Episodes` of `PhysicalFault` are
bounds of the models only; all others are parameters of the code.

**Deadlock.** `CHECK_DEADLOCK FALSE` is set where the system really stops: at
`MaxTick`, when the lifecycle is FAILED, and at the end of an evaluation.

**Fairness.**

* `RelationRecovery`, `RelationVerification`: `WF_vars(Cycle)`. While an arm
  recovers or verifies, every `act` updates it (`cl/policy.py` 1010-1026), and the
  evaluator asks for the next action as long as the episode lasts. A reset may
  come at any time and needs no fairness.
* `RecoveryTrigger`: `WF_vars(Next)`: the evaluator goes on asking. Nothing is
  assumed of the evidence; the liveness properties say under which evidence they
  hold.
* `PolicyTransaction`: `WF_vars(Evaluate)`: the evaluator is a sequential program
  and waits for an answer with a timeout (`request`, `direct_evaluate.py` 1067-1073).
  Nothing is assumed of the worker, which need not answer.
* `FormalLaunch`: `WF_vars(Proceed(l))`, as the launcher is a sequential loop that
  polls its workers (`launch.py` 1004-1046), and `WF_vars(Work(l, s))`, as a worker
  runs its bounded evaluation to the end. A worker that hangs would keep its launch
  waiting: the code has no timeout, and `LaunchEnds` depends on this assumption.
  Crashes, interrupts and new launches are not fair.
* `ExecutionCycle` and `PhysicalFault` state safety only and assume no fairness.

## 4. What the runs refute

Four runs end in a counterexample; each shows that the code does not do what a
document, docstring or test of the repository says. Details and quotations are
under `findings` in `PROJECT.json`.

1. `boundary_reentry` (`JointReentryCommits`). In an auxiliary cycle
   `ClosedLoopExecutionController.update` is not called for arms in TASK, so the
   tick the commit of a boundary validates is stale. When one arm of a joint group
   reenters over its boundary and the other still executes its task, the commit
   raises and `act` rolls back, in every cycle.
2. `recovery_one_pulse` (`CompletedOnConsecutiveEvidence`). In the cycle in which a
   probe times out the same estimate is counted at the end of the probe and again
   at the start of the return: one informative cycle completes a LINK goal that
   asks for two.
3. `trigger_masked` (`MismatchesRecover`). A mismatch event raised in the cycle in
   which the arm begins to verify another relation is dropped, but stays marked as
   emitted: while the mismatch lasts it is never raised again.
4. `gripper_leftover` (`OpenGripperAttachesNothing`). The closes that have found
   nothing yet belong to the gripper action mode, which outlives the episode. In the
   next episode an open gripper that is commanded open attaches what it detects.

The properties are stated separately from the passing ones, which say what remains
true. Further observations, which follow from the models and have no run of their own:

* A guard that stands refuted names the waiting arm in its reason and the arm that
  owns the relation in its intent (`cl/recovery/manager.py` 384, `cl/policy.py` 674).
  Both begin a recovery, the waiting arm one without goals, whereas
  `tests/closed_loop/test_phase4_boundary_guard.py` 746 lets it remain at its boundary.
* One counter stands for all relations of an arm, so the event of a lasting mismatch
  carries the intents of a relation that has been in mismatch for one cycle, and only
  the least request token of an arm is tried (`cl/policy.py` 671).
* Only the last signature of a verified event is remembered: a decision that alternates
  arms its verification again each time.
* While the reference is still in a confirmation interval, a proposed successor that is
  refused counts as a mismatch (`execution_controller.py` 735-742). Old knowledge of the
  relation can so become a recovery that no verification preceded. This is why
  `MemoryIsVerifiedFirst` is about recoveries the reference itself intends (`last.own`).
* The window of confirmation opens from any earlier state (`_causally_enters_link_interval`),
  where `README.md` of the package (line 125) speaks of direct predecessors; and a
  posterior in conflict with the last decision, which by its line 74 ends the
  continuity of that decision, leaves the evidence memory of the filter in place.
* A relation fault whose cycle is impossible loses its forced opening: it counts as
  triggered and is audited as ineffective. A failing grasp puts back what the arm held
  before, and what the peer takes after the capture. A commanded open that is not
  authorised ends the failing close while the close is still pending, so the object
  attaches without an opening.
* A lock or a result without identity that a failed worker leaves makes every later
  launch of that cell fail until an operator removes it; the merge follows the release
  of `execute.lock`; a launch that fails just after it has created `execute.lock` leaves
  it behind as well; and a result names the HEAD at its end, not at its start.
* A reset that fails to adapt its observation has already advanced the episode index of
  the diagnostics (`policy_server.py` 109).

## 5. What is proved

TLAPS checks, with no unproved step and for every value of the constants that
satisfies `ConstantsAssumption`:

* **`BoundaryTransactionProofs`**: `TypesAreCorrect`, `GroupsAreAtomic`, `CrossingsAreConfirmed`,
  `CursorsMatchBeliefs`, `TasksCommit`, `ImplementsAtomicCrossing`. For any number of arms,
  skills, groups, conditions and any `H`. Both kinds of cycle are first shown to
  be the same kind of step (`EveryStepCommits`): the boundaries of some set are
  evaluated, and a subset closed under groups whose counts reached `H` is crossed.
  None of the three invariants is inductive. `IInv` adds in `CursorInv`
  that the permitted boundaries lie behind the cursor (without it the prior could
  move mass over a boundary nobody crossed) and `CountInv` (a count `n` means that the
  condition was seen at the last `n` evaluated ticks, the link between the counts
  of the code and the history `ConfirmedCrossing` speaks about). Atomicity needs
  that a crossed boundary is never current again, which is the second half of
  `CursorMatchesBelief`. The refinement follows from the same lemma with the
  identity as refinement mapping. `TasksCommit` needs one more fact, that the tick of the
  last committed batch is not ahead of the last act (`BatchInv`); with the cursor past
  every permitted boundary it makes each validation of an ordinary commit succeed.
* **`RelationRecoveryProofs`**: `TypesAreCorrect`, `LimitsAreHard`,
  `RepairsAreEvident`, `ReleasesComeFirst`, `ProbesReturn`. For any frames, goals and limits. A
  cycle of `update` ends in one of four ways (`PursueEnds`): it goes on, fails,
  retries or completes the goal. The inductive invariant adds what the counters of
  an attempt say of the evidence seen in it (`Evident`: `confirm <= run <= best`,
  and a remembered confirmation means at least one), that a probe in progress has a
  path, and that the return limit has not been passed unless the recovery failed.
  `ActiveGoalIsOne` shows by well-founded induction that the order of the goals
  has a least element, so that the `CHOOSE` of the active goal is sound.
  With `MinConfirm` 2 `RepairsAreEvident` says exactly as much as finding 2 leaves
  true: an UNLINK goal has its full run of evidence, a LINK goal at least one.
  `ProbesReturn`, an action property, needs that the recorded path of a probe starts at its
  entry and that its way back ends there (`BackHome`); the last waypoint is dropped only
  within the tolerance of the entry (`DroppedHoming`), and the probe is left for a retry,
  the next goal or the search for reentry only then (`HomeEnds`).
* **`RelationVerificationProofs`**: `TypesAreCorrect`, `VerdictsRestOnResponses`,
  `BeliefsSupportDecisions`, `ArmsAreBroughtBack`. For any events, contexts, limits
  and tolerance and whatever the filter, the object and the arm do. `Promises`
  strengthens the invariants by `OnTheWay` (while the arm verifies, the recorded
  path starts at the entry and the way back ends there) and `Grounded` (the sample
  count, window and probe motion of the controller are at most what was really
  observed). One lemma for each stage of `update` keeps both. `ArmsAreBroughtBack`
  is an action property: all waypoints are dropped only if the last one, the
  entry, has been reached, which `DroppedGood` shows by counting them.
* **`RecoveryTriggerProofs`**: `TypesAreCorrect`, `RealignsOncePerBoundary`,
  `GuardsAreRefutedConsecutively`. For any arms, relations, guards and thresholds. `IInv`
  ties the histories to the registers of the code: the run of refutations of a guard is
  its counter (so voiding the counter anywhere else would be a second truth), and a
  boundary that has been realigned is in the register of spent realignments, from which
  only the crossing of that boundary removes it.
* **`PolicyTransactionProofs`**: `TypesAreCorrect`, `RollbacksAreExact`,
  `FeedbackIsAlwaysTrue`, `ClocksAlwaysAgree`. For any arms, horizon, number of episodes
  and scenario. The three properties speak of the few places of the evaluator where
  something is compared; `IInv` says what holds at all others: what is in the pipe
  (`PipeInv`), that a transaction is open in the worker exactly while the evaluator has
  one to resolve (`TransactionInv`), by how much the clocks of server and policy are
  ahead (`ClockInv`), that the terminal actions the policy knows are ones the simulator
  took (`FeedbackInv`), and that the scene has made exactly the segments due up to the
  step it was last asked for (`SceneInv`). One lemma per conjunct goes through all
  actions, the death of the worker at any place included.
* **`ExecutionCycleProofs`**: `TypesAreCorrect`, `GraceStaysBounded`,
  `MemoriesAreVerifiedFirst`, `TheLostAreTested`, `ExecutionMovesForward`. For any task,
  confirmation intervals and threshold. `Windows` says which events are decided, which
  have their one state of grace and which the arm has been before; it needs that the
  states an event owns lie at or behind the first of its interval, which is assumed in
  `ConstantsAssumption` and true of `task_model_builder.py` 1903-2075. `Remembered` shows
  that `MemoryIsVerifiedFirst` does not rest on the mismatch counter: in a cycle whose
  reference intends a recovery, no event entered in sight is left unasked.
  `ExecutionMovesForward` is an action property.
* **`FormalLaunchProofs`**: `TypesAreCorrect`, `SuccessIsForGood`, `WorkersKeepTheirLanes`,
  `ImplementsMatrix`. For any matrix, machine, number of launchers, commits and kills.
  `Reserved` is the heart: a worker between its second look and its write holds the lock
  of its shard, even when its launcher is gone, so evidence is written once. `Evident`
  (a published cell has evidence of its commit in every shard) makes every step one of
  `FormalMatrix` or a stutter, `Accounted` (a cell is published acceptably or still
  pending) is what lets a launch claim success. That lanes share no core is a lemma about
  the intervals `CoresOf` cuts, for any number of cores and lanes.
* **`PhysicalFaultProofs`**: `TypesAreCorrect`, `GripsAlwaysHaveCauses`,
  `RestorationsAreNewGrasps`. For any objects, thresholds and episodes. `Separate` keeps
  the two grippers apart while closes are resolved one after the other; `Loose` follows
  the gripper of a relation fault: until it opens again it holds nothing and has no close
  to resolve, or the relation was one of contact that the audit has not seen broken.
  `GripsAlwaysHaveCauses` is an action property.

The only assumptions are the named `ConstantsAssumption` of each module, which TLC
evaluates on every run. With this every invariant, every action property and both
refinements that the runs check are theorems. The inductive invariants of
`ExecutionCycle` and the strengthening `BackHome` were also checked by TLC on the
constants of the runs.

Model-checked only, not proved: the liveness properties `RecoveryEnds`,
`VerificationEnds`, `VerificationsSettle`, `RefutedGuardsRecover`, `EvaluationEnds` and
`LaunchEnds`, as fairness and `ENABLED` are beyond the prover. The refutations of section 4 are
counterexamples of particular instances.

## 6. Assumptions and abstractions

* Numbers of the filters are not computed. A module chooses an estimate freely
  among those the filter can give: a decision, whether it is informative, the
  support of the progress posterior within what the prior can reach. What holds in
  a model therefore holds whatever the filters compute.
* Poses are distances along one path, and "reached" is a comparison with the
  tolerance of the configuration.
* `RelationVerification` abstracts the sums of the response window to the side of
  the limit their ratio is on; any response may change it. That a decided posterior
  has more than half of the probability is enforced by `RelationFilterConfig`
  (`decision_probability > 0.5`).
* `RecoveryTrigger` assumes, as the code does, that a relation that asks for
  verification has no fresh evidence. `RefutedGuardsRecover` needs
  `BoundaryPersist <= Persist["no_plausible"]`, true of the defaults and of the
  configuration files (`boundary_relation_mismatch_cycles` is 3 and
  `no_plausible_cycles` 20; `relation_mismatch_cycles`, between them, is 5); with a larger boundary threshold the property fails,
  as realignments of an arm in its last skill void the count of the guard.
* `PolicyTransaction` keeps of the policy what the transaction decides. The policy
  fails only in an auxiliary cycle, and an arm outside TASK executes no reference. Of
  the scene it keeps at which steps it has moved, and whether each segment moved it as
  commanded, which is free; a teleport is a motion of one segment and a static scene one
  of none. The authorisations of a cycle are dropped with its transaction, as only its
  commit reads them. Its snapshot is the whole of what it keeps: a component that
  `ClosedLoopMultiStreamPolicy._snapshot` forgets is caught only if the model has a field for it.
* `ExecutionCycle` follows one object frame of one arm; the other streams are in the
  constants (`Selected`, `Alone`). Visibility and reliability of the filter and of the
  router use one threshold, as in the defaults; a frame that was visible below it may
  still inform a motion, though nothing may rest on it (`sighted`). The support of the
  progress posterior is any set with the nominal state among those the prior can reach
  and the states ahead in the skill (`Masses`): a changed relation of another frame may
  have brought them in. A reentry may choose any state of the skill or of the next one, as
  the code compares only the boundary. So what holds does not rest on the numbers.
* `FormalLaunch` takes each file operation as atomic, which `atomic_json` and `O_EXCL`
  give. The payload that is merged, the protocol hash, the identity of the models, the
  check for a dirty worktree and the locks of published cells are left out; lanes are
  sets of physical cores. A launch that fails between the creation of `execute.lock` and
  its loop leaves the lock, as the code does (`launch.py` 945-964). A merged cell
  has no lock in what is modelled, as the merge replaces its file in one step.
* `PhysicalFault` chooses sensors and commands anew in every step and keeps no poses;
  what the wrapper counts to find the cycle of its fault is dropped once it has fired.
  An invalid step and the hold that replaces it are one action. The evaluator of a
  single arm uses the same protocol with one gripper.
* History variables (marked in each module) record what a property speaks about
  and are read by no action.

Variables and operators are named after the code where possible; `map` in
`PROJECT.json` gives the lines each definition stands for.

## 7. What is not modelled, and why

* The numerical core: likelihoods, weighted product of experts, kinematics,
  learning (`cl/inference`, `weighted_poe.py`, `source/policy/dynamac.py`,
  `midigap.py`, `tapas_segmentation.py`, `trac_ik.py`). Its results are inputs here.
* The task model and its builder: an offline deterministic construction whose
  result is the constants of the modules.
* Diagnostics, configuration, ablations, reports, the older launchers and data
  conversion: sequential code over files.
* In the modelled components: the preparation of a gripper command ahead of a
  boundary, the pending candidates of the execution cursor, the queries of frozen
  references, the choice of an anchor by state, the score of a reentry state, the
  hold and stall counters of `MismatchTracker` (they feed no trigger), and the
  commands themselves. The `OWN_RELATION` branch of the recovery trigger has no
  producer and is left out; the policy server names no grasp event.
* In the fault injector: a fault on all arms, or on a robot with one arm, and the
  records of its events. In the simulator runtime: the poses of the scene interventions,
  the staging of the initial scene and the collision audits.

## 8. Plan

Done: nine components as modules of their own, two abstract specifications with their
refinements, and a theorem for every safety property that is checked. Next, most
important first:

1. The part of liveness that is safety: a bound on what is left of a recovery or a
   verification that every `Cycle` decreases (an action property), from which
   `RecoveryEnds` and `VerificationEnds` follow by fairness alone.
2. The pending candidates of the execution cursor and the queries of frozen references,
   which `ExecutionCycle` leaves out.
3. The choice of an anchor by the state it is entered at (`EpisodeLinkAnchorRegistry`),
   beside `RelationRecovery`.
4. A trigger whose reason and intents name different arms (`cl/policy.py` 674), as a
   property of `RecoveryTrigger`.

## 9. Running

    tlc -config BoundaryJoint.cfg MCBoundaryTransaction
    tlc -config Transactions.cfg PolicyTransaction
    tlc -workers 2 -config FormalLaunch.cfg MCFormalLaunch
    tlapm BoundaryTransactionProofs.tla

`PROJECT.json` lists module and configuration of every run. The longest runs take
one to two minutes on two cores, the proofs a few minutes each.
