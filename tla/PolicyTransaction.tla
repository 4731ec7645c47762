--------------------------- MODULE PolicyTransaction ---------------------------
(***************************************************************************)
(* An action of the closed-loop policy is a transaction: act computes it   *)
(* and changes the policy tentatively, commit makes the change durable     *)
(* once the simulator has moved, abort restores what act has changed.  The *)
(* evaluator (direct_evaluate) drives the policy worker (policy_server)    *)
(* over a pipe, one request at a time, and the simulator by direct calls;  *)
(* the worker may die and an answer may come too late.                     *)
(*                                                                         *)
(* Of the policy only what the transaction decides is kept: where each arm *)
(* stands in its task, the reference it says it executed, the terminal     *)
(* actions it has committed, whether it has failed, and how many cycles it *)
(* has recorded.  What act computes is chosen freely.                      *)
(*                                                                         *)
(* In a dynamic episode the evaluator moves the scene, in segments, before *)
(* the actions that follow a trigger (ScenarioController); its clock is    *)
(* that of the committed actions, and the result of an episode is refused  *)
(* when its motion does not fit that clock.                                *)
(***************************************************************************)
EXTENDS Integers, FiniteSets

CONSTANTS Arms,
          Horizon,    \* committed policy steps of an episode
          Episodes,   \* episodes of an evaluation
          Trigger,    \* the committed step at which the scene begins to move
          Motion      \* segments it moves in: none when static, one when it is teleported

ASSUME ConstantsAssumption ==
  /\ Horizon \in Nat \ {0} /\ Episodes \in Nat \ {0}
  /\ Trigger \in Nat /\ Motion \in Nat

VARIABLES
  at,         \* where the evaluator is in its run
  episode,    \* the current episode
  committed,  \* committed_policy_steps
  turn,       \* the transaction_id of the last act
  call,       \* the request or the response in the pipe
  alive,      \* the worker process runs
  pending,    \* the server's _pending transaction, 0 for none
  id,         \* the server's _next_transaction_id
  tick,       \* the server's _tick
  sent,       \* what _previous_command holds: nothing, a command, the held pose
  policy,     \* state of ClosedLoopMultiStreamPolicy
  snapshot,   \* _pending_snapshot, <<>> for none
  granted,    \* the arms whose command of the pending cycle authorises the gripper
  outcome,    \* what the simulator did in the last step of the episode
  scene,      \* the scenario of the episode: when it was asked for, and has moved
  durable,    \* history: the policy as the last reset or commit left it
  accepted    \* history: the arms whose final action the simulator has taken

evaluator == <<at, episode, committed, turn>>
server == <<alive, pending, id, tick, sent>>
core == <<policy, snapshot, granted>>
simulator == <<outcome, scene>>
history == <<durable, accepted>>
vars == <<evaluator, call, server, core, simulator, history>>

Places == {"task", "final", "auxiliary"}   \* at the final state, in TASK, or not in TASK
References == {"none", "earlier", "final"}

Idle == [kind |-> "idle"]
Request(command) == [kind |-> "request", command |-> command]
Resolve(command, transaction, applied) ==
  [kind |-> "request", command |-> command, id |-> transaction, applied |-> applied]
Answer == [kind |-> "answer"]
Refusal == [kind |-> "error"]

FreshPolicy ==
  [place |-> [a \in Arms |-> "task"], reference |-> [a \in Arms |-> "none"],
   terminal |-> {}, failed |-> FALSE, records |-> 0]

\* A scenario that has not been asked for any step: asked is last_scenario_policy_step,
\* reached is trigger_reached, moved are the steps of the applied events, and effective
\* tells that each of them has moved the scene as commanded.
NewScene == [asked |-> -1, reached |-> FALSE, moved |-> {}, effective |-> TRUE]

\* The property complete of a policy.
Complete(p) == /\ ~p.failed /\ p.terminal = Arms
               /\ \A a \in Arms : p.place[a] = "final"

Init ==
  /\ at = "start" /\ episode = 1 /\ committed = 0 /\ turn = 0
  /\ call = Idle
  /\ alive = TRUE /\ pending = 0 /\ id = 1 /\ tick = 0 /\ sent = "none"
  /\ policy = FreshPolicy /\ snapshot = <<>> /\ granted = {}
  /\ outcome = "none" /\ scene = NewScene
  /\ durable = FreshPolicy /\ accepted = {}

--------------------------------------------------------------------------------
(* The worker: one request, one response                                    *)

Serves(command) == alive /\ call.kind = "request" /\ call.command = command

\* Mutant of Restored: the reference of the aborted cycle stays.
RestoredWithoutReference ==
  IF snapshot = <<>> THEN policy
  ELSE [snapshot[1] EXCEPT !.reference = policy.reference]

\* The policy once the tentative cycle, if any, is rolled back.
Restored == IF snapshot = <<>> THEN policy ELSE snapshot[1]

\* reset aborts what is pending; it fails when the observation cannot be adapted.
ServeReset ==
  /\ Serves("reset")
  /\ pending' = 0 /\ snapshot' = <<>> /\ granted' = {} /\ tick' = 0 /\ sent' = "none"
  /\ \/ /\ policy' = FreshPolicy /\ call' = Answer
        /\ durable' = FreshPolicy /\ accepted' = {}
     \/ /\ policy' = Restored /\ call' = Refusal
        /\ UNCHANGED <<durable, accepted>>
  /\ UNCHANGED <<evaluator, alive, id, simulator>>

\* A cycle of the policy: an arm in TASK may name the reference it executes, and
\* only a policy with an auxiliary arm fails.
Cycles ==
  {[place |-> place, reference |-> reference, terminal |-> policy.terminal,
    failed |-> failed, records |-> policy.records + 1] :
     place \in [Arms -> Places], reference \in [Arms -> References], failed \in BOOLEAN}

Possible(p) ==
  /\ \A a \in Arms : /\ p.reference[a] # "none" => p.place[a] # "auxiliary"
                     /\ p.reference[a] = "final" => p.place[a] = "final"
  /\ p.failed => \E a \in Arms : p.place[a] = "auxiliary"

\* act in turn: it changes the policy or raises and leaves it as it was.
ServeAct ==
  /\ Serves("act")
  /\ pending = 0 /\ snapshot = <<>> /\ ~policy.failed /\ ~Complete(policy)
  /\ \/ /\ \E p \in {q \in Cycles : Possible(q)} :
             policy' = p /\ call' = [kind |-> "answer", id |-> id, failed |-> p.failed]
        /\ granted' \in SUBSET {a \in Arms : policy'.reference[a] = "final"}
        /\ snapshot' = <<policy>>
        /\ pending' = id /\ id' = id + 1
     \/ call' = Refusal /\ UNCHANGED <<policy, granted, snapshot, pending, id>>
  /\ UNCHANGED <<evaluator, alive, tick, sent, simulator, history>>

\* Mutant of Executed: the references of a command that was not applied stay.
ExecutedAnyway(applied) == policy.reference

\* The references the next cycle takes for executed.
Executed(applied) ==
  [a \in Arms |-> IF applied THEN policy.reference[a] ELSE "none"]

\* Mutant of Terminals: an arm that has left its final state stays.
TerminalsKept(applied) ==
  policy.terminal \cup {a \in granted : Executed(applied)[a] = "final"}

\* The arms whose final action is committed: those that were and are still at their
\* final state, and those that executed it with the gripper authorised.
Terminals(applied) ==
  {a \in Arms : /\ policy.place[a] = "final"
                /\ \/ a \in policy.terminal
                   \/ applied /\ a \in granted /\ Executed(applied)[a] = "final"}

\* Mutant of Ticked: the clock stands still while the joints are held.
TickedIfApplied(applied) == IF applied THEN tick + 1 ELSE tick

Ticked(applied) == tick + 1

ServeCommit ==
  /\ Serves("commit") /\ pending # 0 /\ call.id = pending
  /\ policy' = [policy EXCEPT !.reference = Executed(call.applied),
                              !.terminal = Terminals(call.applied)]
  /\ sent' = IF call.applied THEN "command" ELSE "held"
  /\ tick' = Ticked(call.applied)
  /\ pending' = 0 /\ snapshot' = <<>> /\ granted' = {}
  /\ call' = [kind |-> "answer", complete |-> Complete(policy')]
  /\ durable' = policy'
  /\ accepted' = {a \in accepted : policy'.place[a] = "final"}
  /\ UNCHANGED <<evaluator, alive, id, simulator>>

ServeAbort ==
  /\ Serves("abort") /\ pending # 0 /\ call.id = pending
  /\ policy' = Restored
  /\ pending' = 0 /\ snapshot' = <<>> /\ granted' = {}
  /\ call' = Answer
  /\ UNCHANGED <<evaluator, alive, id, tick, sent, simulator, history>>

\* close aborts what is pending and ends the process.
ServeClose ==
  /\ Serves("close")
  /\ policy' = Restored
  /\ pending' = 0 /\ snapshot' = <<>> /\ granted' = {} /\ alive' = FALSE
  /\ call' = Answer
  /\ UNCHANGED <<evaluator, id, tick, sent, simulator, history>>

\* The process has ended, and what it knew with it.
Gone ==
  /\ alive' = FALSE /\ pending' = 0 /\ id' = 1 /\ tick' = 0 /\ sent' = "none"
  /\ policy' = FreshPolicy /\ snapshot' = <<>> /\ granted' = {} /\ durable' = FreshPolicy

Die ==
  /\ alive /\ Gone
  /\ UNCHANGED <<evaluator, call, simulator, accepted>>

Serve == ServeReset \/ ServeAct \/ ServeCommit \/ ServeAbort \/ ServeClose

--------------------------------------------------------------------------------
(* The evaluator: a loop over episodes, each a loop over actions            *)

\* Sends a request and waits for its response.
Ask(request, phase) == call' = request /\ at' = phase

\* Takes the answer of the worker.
Answered(phase) == at = phase /\ call.kind = "answer"

\* _finalize_episode_intervention_status: the scene has not moved before the trigger, and
\* from then on at every step until it is done or the episode has ended.
Accountable(steps) ==
  LET count == Cardinality(scene.moved) IN
  IF ~scene.reached THEN count = 0
  ELSE /\ scene.effective
       /\ count \in 1 .. Motion /\ scene.moved = Trigger .. Trigger + count - 1
       /\ count < Motion => steps \in {Trigger + count - 1, Trigger + count}

\* The episode is over after these committed steps: its result stands or is refused.
Finish(steps) ==
  IF Accountable(steps) THEN at' = "start" /\ episode' = episode + 1
                        ELSE at' = "refused" /\ UNCHANGED episode

Start ==
  /\ at = "start"
  /\ IF episode <= Episodes THEN Ask(Request("reset"), "resetting")
                            ELSE at' = "close" /\ UNCHANGED call
  /\ committed' = 0 /\ outcome' = "none" /\ scene' = NewScene
  /\ UNCHANGED <<episode, turn, server, core, history>>

Begin ==
  /\ Answered("resetting")
  /\ at' = "loop" /\ call' = Idle
  /\ UNCHANGED <<episode, committed, turn, server, core, simulator, history>>

\* Mutant of Due: the first segment comes one step late.
DueAfterTrigger ==
  /\ committed > Trigger /\ Cardinality(scene.moved) < Motion
  /\ \A step \in scene.moved : step < committed

\* ScenarioController.apply moves the scene: once triggered, until it is done, and not
\* twice for a step.
Due == /\ committed >= Trigger /\ Cardinality(scene.moved) < Motion
       /\ \A step \in scene.moved : step < committed

\* The scenario once it has been asked for this step; it is asked once for each.
Intervened ==
  LET looked == [scene EXCEPT !.asked = committed,
                              !.reached = @ \/ (Motion > 0 /\ committed >= Trigger)]
  IN  IF scene.asked = committed THEN {scene}
      ELSE IF ~Due THEN {looked}
      ELSE {[looked EXCEPT !.moved = @ \cup {committed}, !.effective = @ /\ effective] :
              effective \in BOOLEAN}

\* Mutant of Act: one action more than the horizon allows.
ActOnceMore ==
  /\ at = "loop" /\ committed <= Horizon
  /\ scene' \in Intervened
  /\ Ask(Request("act"), "acting")
  /\ UNCHANGED <<episode, committed, turn, server, core, outcome, history>>

\* The policy is asked for an action on what it sees after the scene has moved.
Act ==
  /\ at = "loop" /\ committed < Horizon
  /\ scene' \in Intervened
  /\ Ask(Request("act"), "acting")
  /\ UNCHANGED <<episode, committed, turn, server, core, outcome, history>>

\* The scene cannot be moved: no goal is found, or its source is not where it was staged.
Immovable ==
  /\ at = "loop" /\ committed < Horizon /\ scene.asked # committed /\ Due
  /\ at' = "close"
  /\ UNCHANGED <<episode, committed, turn, call, server, core, simulator, history>>

ReachHorizon ==
  /\ at = "loop" /\ committed >= Horizon
  /\ Finish(committed)
  /\ UNCHANGED <<committed, turn, call, server, core, simulator, history>>

\* A failed cycle is committed without moving; another one moves the robot.
TakeAction ==
  /\ Answered("acting")
  /\ turn' = call.id
  /\ IF call.failed
     THEN Ask(Resolve("commit", call.id, FALSE), "failing") /\ outcome' = "none"
     ELSE at' = "moving" /\ call' = Idle /\ UNCHANGED outcome
  /\ UNCHANGED <<episode, committed, server, core, scene, history>>

\* TaskEnvironment.step: the action is applied, is invalid, or something else raises.
Move ==
  /\ at = "moving"
  /\ \/ /\ Ask(Resolve("commit", turn, TRUE), "committing")
        /\ outcome' = "applied"
        /\ accepted' = accepted \cup {a \in granted : policy.reference[a] = "final"}
     \/ at' = "holding" /\ UNCHANGED <<call, outcome, accepted>>
     \/ Ask(Resolve("abort", turn, FALSE), "raising") /\ UNCHANGED <<outcome, accepted>>
  /\ UNCHANGED <<episode, committed, turn, server, core, scene, durable>>

\* commit_joint_hold_after_primary_failure: an invalid action is replaced by a hold of
\* the joints; when that is invalid too, the episode ends.
Hold ==
  /\ at = "holding"
  /\ \/ Ask(Resolve("commit", turn, FALSE), "committing") /\ outcome' = "held"
     \/ Ask(Resolve("abort", turn, FALSE), "leaving") /\ UNCHANGED outcome
     \/ Ask(Resolve("abort", turn, FALSE), "raising") /\ UNCHANGED outcome
  /\ UNCHANGED <<episode, committed, turn, server, core, scene, history>>

\* An episode ends when the policy is complete, and may as the simulator rewards or
\* terminates it.
Ends == IF call.complete THEN {TRUE} ELSE BOOLEAN

TakeCommit ==
  /\ Answered("committing")
  /\ committed' = committed + 1
  /\ \E ends \in Ends :
       IF ends THEN Finish(committed + 1) ELSE at' = "loop" /\ UNCHANGED episode
  /\ call' = Idle
  /\ UNCHANGED <<turn, server, core, simulator, history>>

\* The commit of a failed cycle, or the abort of an action that could not be replaced.
Leave ==
  /\ Answered("failing") \/ Answered("leaving")
  /\ committed' = IF at = "failing" THEN committed + 1 ELSE committed
  /\ Finish(committed') /\ call' = Idle
  /\ UNCHANGED <<turn, server, core, simulator, history>>

Waiting == {"resetting", "acting", "committing", "failing", "leaving", "raising"}

\* An error, or the answer of an abort after an exception, ends the evaluation.
Raise ==
  /\ at \in Waiting /\ (call.kind = "error" \/ Answered("raising"))
  /\ at' = "close" /\ call' = Idle
  /\ UNCHANGED <<episode, committed, turn, server, core, simulator, history>>

\* Mutant of Unanswered: only the end of the process is noticed.
UnansweredByTheDead == call.kind = "request" /\ ~alive

Unanswered == call.kind = "request"

\* No answer in time, or a worker that has died: the worker is terminated.
Lost ==
  /\ at \in Waiting \cup {"closing"} /\ Unanswered
  /\ Gone /\ call' = Idle
  /\ at' = IF at = "closing" THEN "ended" ELSE "close"
  /\ UNCHANGED <<episode, committed, turn, simulator, accepted>>

Close ==
  /\ at \in {"close", "refused"}
  /\ IF alive THEN Ask(Request("close"), "closing") ELSE at' = "ended" /\ UNCHANGED call
  /\ UNCHANGED <<episode, committed, turn, server, core, simulator, history>>

End ==
  /\ Answered("closing")
  /\ at' = "ended" /\ call' = Idle
  /\ UNCHANGED <<episode, committed, turn, server, core, simulator, history>>

Evaluate == \/ Start \/ Begin \/ Act \/ Immovable \/ ReachHorizon \/ TakeAction \/ Move \/ Hold
            \/ TakeCommit \/ Leave \/ Raise \/ Lost \/ Close \/ End

Next == Evaluate \/ Serve \/ Die

\* The evaluator runs on, and waits for an answer for a bounded time.
Spec == Init /\ [][Next]_vars /\ WF_vars(Evaluate)

--------------------------------------------------------------------------------
Policies == [place : [Arms -> Places], reference : [Arms -> References],
             terminal : SUBSET Arms, failed : BOOLEAN, records : Nat]

TypeOK ==
  /\ at \in Waiting \cup {"start", "loop", "moving", "holding", "refused", "close",
                          "closing", "ended"}
  /\ episode \in 1 .. Episodes + 1 /\ committed \in 0 .. Horizon /\ turn \in Nat
  /\ call.kind \in {"idle", "request", "answer", "error"}
  /\ alive \in BOOLEAN /\ pending \in Nat /\ id \in Nat \ {0} /\ pending < id
  /\ tick \in Nat /\ sent \in {"none", "command", "held"}
  /\ policy \in Policies
  /\ IF pending = 0 THEN snapshot = <<>> ELSE snapshot[1] \in Policies
  /\ granted \subseteq Arms
  /\ outcome \in {"none", "applied", "held"}
  /\ scene \in [asked : -1 .. Horizon - 1, reached : BOOLEAN,
                moved : SUBSET (0 .. Horizon - 1), effective : BOOLEAN]
  /\ durable \in Policies /\ accepted \subseteq Arms

\* However an action ends, what is left of it when its transaction is over is exactly
\* what the last commit or reset made durable; until then it can be restored.
RollbackIsExact == IF pending = 0 THEN policy = durable ELSE snapshot[1] = durable

\* What the policy believes to have executed is what the simulator did: a reference state
\* and the previous command are reported only of an action that was applied, and not when
\* the joints were held in its place; and it is complete only when the simulator has taken
\* the final action of every arm, with its gripper, and no arm has left its final state
\* since.
FeedbackIsTrue ==
  /\ at = "loop" /\ alive =>
       /\ \A a \in Arms : policy.reference[a] # "none" => outcome = "applied"
       /\ sent = "command" <=> outcome = "applied"
  /\ Complete(policy) => accepted = Arms

\* Before each action the policy steps of the evaluator, the ticks of the server and the
\* cycles recorded by the policy agree, whatever has been held, aborted or refused; and the
\* scene follows that clock: it has moved once for every step since the trigger until it
\* was done, also when the action was invalid and the joints were held.  So the result of
\* an episode is refused only when the scene did not move as it was commanded to.
ClocksAgree ==
  /\ at = "loop" /\ alive => committed = tick /\ tick = policy.records
  /\ at = "loop" =>
       scene.moved = {step \in Trigger .. Trigger + Motion - 1 : step < committed}
  /\ at = "refused" => ~scene.effective

\* Every evaluation ends, whatever becomes of the worker and of single actions.
EvaluationEnds == <>(at = "ended")
================================================================================
