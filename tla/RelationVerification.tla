------------------------- MODULE RelationVerification -------------------------
(***************************************************************************)
(* The active verification of an unresolved LINK by one arm:               *)
(* RelationVerificationController, the VERIFY_LINK half of                 *)
(* ClosedLoopRecoveryManager and what the policy does with the result.     *)
(* The arm moves a little away from the object, against its approach,      *)
(* returns along its own path, and what the relation filter then says,     *)
(* when the object has answered accordingly, is committed to the filter.   *)
(*                                                                         *)
(* One step is one act.  The arm is at a distance from the entry pose; the *)
(* posterior is the probability of "linked" in Top steps, and an estimate  *)
(* that is undecided, uninformative or of little weight is "unknown".  The *)
(* sums of squares of the response window are abstracted to the side of    *)
(* the limit their ratio is on, which any response may change.  A context  *)
(* stands for the relation decision, skill and grasp event of a request.   *)
(***************************************************************************)
EXTENDS Integers, Sequences, FiniteSets

CONSTANTS Events,     \* the LINK events of the arm
          Pending,    \* those that are unverified Pending candidates
          Contexts,
          MaxProbe, MaxReturn, MinMotion, MinSamples, Tolerance, \* RelationVerificationConfig
          Top,        \* the posterior of "linked" is a number of 0 .. Top
          Reach       \* bound: the largest distance of the arm

ASSUME ConstantsAssumption ==
  /\ Pending \subseteq Events
  /\ {MaxProbe, MaxReturn, MinMotion, MinSamples, Top} \subseteq Nat \ {0}
  /\ Tolerance \in Nat /\ Reach \in Nat

VARIABLES
  mode,      \* ClosedLoopRecoveryManager.mode
  verif,     \* the runtime of RelationVerificationController
  attempted, \* VerificationAttemptRegistry._attempted
  active,    \* EpisodeLinkAnchorRegistry._active_pending
  belief,    \* what commit_relation_confirmation last made of each relation
  away,      \* the distance of the arm from the entry pose
  answers,   \* history: observed responses to the commands of this verification
  travel     \* history: how far the arm moved in them

vars == <<mode, verif, attempted, active, belief, away, answers, travel>>

Decided == {"linked", "external"}
Decisions == Decided \cup {"unknown"}
Undecided == [decision |-> "unknown", level |-> 0]

\* How much the posterior speaks for a decision.
Support(d, level) == IF d = "linked" THEN level ELSE Top - level

\* The estimates of a relation: a decision has more than half of the probability.
Estimates == {Undecided} \cup
  {e \in [decision : Decided, level : 0 .. Top] : 2 * Support(e.decision, e.level) > Top}

Least(m, n) == IF m < n THEN m ELSE n
Distance(m, n) == IF m < n THEN n - m ELSE m - n

--------------------------------------------------------------------------------
(* RelationVerificationController *)

NoRuntime ==
  [phase |-> "idle", path |-> <<>>, back |-> <<>>, cycles |-> 0, returns |-> 0,
   motion |-> 0, commanded |-> FALSE, samples |-> 0, window |-> 0, side |-> "external",
   verdict |-> Undecided]

\* Mutant of Started: the motion of the task that ends counts as a response.
StartedCommanded(e) ==
  [NoRuntime EXCEPT !.phase = "probe", !.path = <<0>>, !.commanded = TRUE]

\* start: whatever an earlier verification has left is reset.
Started(e) == [NoRuntime EXCEPT !.phase = "probe", !.path = <<0>>]

\* _record_action_response: only what follows a command of this controller counts.
Responded(v, moved, observed, side) ==
  IF v.commanded /\ observed /\ moved > 0
  THEN [v EXCEPT !.commanded = FALSE, !.samples = Least(@ + 1, MinSamples),
                 !.window = Least(@ + moved, MinMotion), !.side = side]
  ELSE [v EXCEPT !.commanded = FALSE]

\* _response_decision
Response(v) == IF v.samples < MinSamples \/ v.window < MinMotion THEN "unknown" ELSE v.side

\* _stable_decision: filter and window agree.
Stable(v, estimate) == /\ estimate # Undecided /\ v.motion >= MinMotion
                       /\ estimate.decision = Response(v)

\* The arm has been seen at x on its way out.
Outward(v, x) ==
  [v EXCEPT !.motion = IF v.samples > 0 THEN v.window ELSE @,
            !.path = IF x = @[Len(@)] THEN @ ELSE Append(@, x)]

\* _begin_return: the recorded path backwards, ending at the entry.
Returning(v) ==
  LET n == Len(v.path)
      backwards == [k \in 1 .. n - 1 |-> v.path[n - k]]
  IN  [v EXCEPT !.phase = "return",
                !.back = IF n = 1 THEN <<v.path[1]>> ELSE backwards]

\* Mutant of Confirmed: the surer posterior stays, whatever it is of.
ConfirmedSurer(v, estimate) ==
  IF ~Stable(v, estimate) THEN v
  ELSE IF v.verdict # Undecided /\ estimate.level <= v.verdict.level
  THEN [v EXCEPT !.verdict.decision = estimate.decision]
  ELSE [v EXCEPT !.verdict = estimate]

\* A stable decision of the way back is the verdict; its posterior is kept when it
\* speaks more for the decision than that of the verdict so far.
Confirmed(v, estimate) ==
  IF ~Stable(v, estimate) THEN v
  ELSE IF /\ v.verdict # Undecided
          /\ Support(estimate.decision, estimate.level)
               <= Support(estimate.decision, v.verdict.level)
  THEN [v EXCEPT !.verdict.decision = estimate.decision]
  ELSE [v EXCEPT !.verdict = estimate]

\* The waypoints of the way back the arm has reached are dropped.
Dropped(v, x) ==
  LET reached == {k \in 1 .. Len(v.back) :
                    \A j \in 1 .. k : Distance(x, v.back[j]) <= Tolerance}
  IN  [v EXCEPT !.back = SubSeq(@, Cardinality(reached) + 1, Len(@))]

\* Mutant of ReturnCycle: the way back has no limit.
ReturnCycleUnlimited(v, x, estimate, returnSafe) ==
  LET r == Dropped(Confirmed(v, estimate), x) IN
  IF ~returnSafe THEN [r EXCEPT !.phase = "failed"]
  ELSE IF r.back = <<>> THEN [r EXCEPT !.phase = "complete"]
  ELSE [r EXCEPT !.commanded = TRUE]

ReturnCycle(v, x, estimate, returnSafe) ==
  LET c == Confirmed(v, estimate)
      r == Dropped([c EXCEPT !.returns = @ + 1], x)
  IN  IF ~returnSafe THEN [c EXCEPT !.phase = "failed"]
      ELSE IF c.returns + 1 > MaxReturn
      THEN [c EXCEPT !.phase = "failed", !.returns = @ + 1]
      ELSE IF r.back = <<>> THEN [r EXCEPT !.phase = "complete"]
      ELSE [r EXCEPT !.commanded = TRUE]

\* Mutant of ProbeIsOver: one cycle too many.
ProbeIsOverLate(p, probeSafe) == ~probeSafe \/ p.cycles > MaxProbe

ProbeIsOver(p, probeSafe) == ~probeSafe \/ p.cycles >= MaxProbe

\* Mutant of ProbeCycle: a confirmed relation is not worth the way back.
ProbeCycleDone(v, x, estimate, probeSafe, returnSafe) ==
  LET p == Outward(v, x) IN
  IF Stable(p, estimate) THEN [p EXCEPT !.verdict = estimate, !.phase = "complete"]
  ELSE IF ProbeIsOver(p, probeSafe)
  THEN ReturnCycle(Returning(p), x, estimate, returnSafe)
  ELSE [p EXCEPT !.cycles = @ + 1, !.commanded = TRUE]

\* A stable decision, an unsafe way out or the time limit ends the probe; the first
\* cycle of the return follows in the same update.
ProbeCycle(v, x, estimate, probeSafe, returnSafe) ==
  LET p == Outward(v, x) IN
  IF Stable(p, estimate)
  THEN ReturnCycle(Returning([p EXCEPT !.verdict = estimate]), x, estimate, returnSafe)
  ELSE IF ProbeIsOver(p, probeSafe)
  THEN ReturnCycle(Returning(p), x, estimate, returnSafe)
  ELSE [p EXCEPT !.cycles = @ + 1, !.commanded = TRUE]

Updated(v, x, estimate, probeSafe, returnSafe) ==
  IF v.phase = "probe" THEN ProbeCycle(v, x, estimate, probeSafe, returnSafe)
                       ELSE ReturnCycle(v, x, estimate, returnSafe)

--------------------------------------------------------------------------------
(* The manager and the policy *)

\* What an arm does with the result for event e: a completed verification ends in
\* TASK, its verdict becomes the belief, and a linked Pending one becomes an origin.
Settle(e, v) ==
  /\ verif' = v
  /\ mode' = IF v.phase \in {"complete", "failed"} THEN [name |-> "task"]
             ELSE [name |-> "verify", event |-> e]
  /\ active' = IF v.phase = "complete" /\ v.verdict.decision = "linked" /\ e \in Pending
               THEN active \cup {e} ELSE active
  /\ belief' = IF v.phase = "complete" /\ v.verdict # Undecided
               THEN [belief EXCEPT ![e] = v.verdict] ELSE belief

Init ==
  /\ mode = [name |-> "task"] /\ verif = NoRuntime
  /\ attempted = [e \in Events |-> "none"]
  /\ active = {} /\ belief = [e \in Events |-> Undecided]
  /\ away = 0 /\ answers = 0 /\ travel = 0

\* begin_verification and, in the same act, the first update, whose estimate has too
\* little weight to be stable; the arm may have moved for its task before.
Begin ==
  /\ mode.name = "task" /\ verif.phase # "failed"
  /\ \E e \in Events, context \in Contexts :
       /\ attempted[e] # context
       /\ attempted' = [attempted EXCEPT ![e] = context]
       /\ \E moved \in 0 .. Reach, observed, probeSafe, returnSafe \in BOOLEAN,
            side \in Decided :
            Settle(e, Updated(Responded(Started(e), moved, observed, side), 0,
                              Undecided, probeSafe, returnSafe))
  /\ away' = 0 /\ answers' = 0 /\ travel' = 0

\* update_verification, the arm having moved to x.
Cycle ==
  /\ mode.name = "verify"
  /\ \E x \in 0 .. Reach, observed, probeSafe, returnSafe \in BOOLEAN,
       side \in Decided, estimate \in Estimates :
       /\ Settle(mode.event, Updated(Responded(verif, Distance(x, away), observed, side),
                                     x, estimate, probeSafe, returnSafe))
       /\ away' = x
       /\ answers' = IF observed /\ x # away THEN Least(answers + 1, MinSamples) ELSE answers
       /\ travel' = IF observed THEN Least(travel + Distance(x, away), MinMotion) ELSE travel
  /\ UNCHANGED attempted

\* The reset of the policy, at any time.
Reset ==
  /\ mode' = [name |-> "task"] /\ verif' = NoRuntime
  /\ attempted' = [e \in Events |-> "none"]
  /\ active' = {} /\ belief' = [e \in Events |-> Undecided]
  /\ away' = 0 /\ answers' = 0 /\ travel' = 0

Next == Begin \/ Cycle \/ Reset

\* The policy updates the verification in every act until it ends.
Spec == Init /\ [][Next]_vars /\ WF_vars(Cycle)

--------------------------------------------------------------------------------
Verdicts == [decision : Decisions, level : 0 .. Top]

Runtimes ==
  [phase : {"idle", "probe", "return", "complete", "failed"},
   path : Seq(Nat), back : Seq(Nat), cycles : 0 .. MaxProbe, returns : 0 .. MaxReturn + 1,
   motion : 0 .. MinMotion, commanded : BOOLEAN, samples : 0 .. MinSamples,
   window : 0 .. MinMotion, side : Decided, verdict : Verdicts]

TypeOK ==
  /\ mode \in [name : {"task"}] \cup [name : {"verify"}, event : Events]
  /\ verif \in Runtimes
  /\ attempted \in [Events -> Contexts \cup {"none"}]
  /\ active \subseteq Pending
  /\ belief \in [Events -> Verdicts]
  /\ away \in Nat /\ answers \in Nat /\ travel \in Nat

\* A verdict rests on MinSamples observed responses to the commands of this very
\* verification and on MinMotion of travel in them: neither the motion of the task that
\* was interrupted nor the samples of an earlier verification count.
VerdictRestsOnResponses ==
  verif.verdict # Undecided => answers >= MinSamples /\ travel >= MinMotion

\* The posterior committed for a relation speaks for the decision committed with it,
\* although the way back may change the decision and keep a posterior.
BeliefSupportsDecision ==
  \A e \in Events :
    belief[e] # Undecided => 2 * Support(belief[e].decision, belief[e].level) > Top

\* A verification that does not fail leaves the arm where it took it.
ArmIsBroughtBack ==
  [][mode.name = "verify" /\ verif'.phase = "complete" => away' <= Tolerance]_vars

\* Every verification ends, in TASK or in a structured failure.
VerificationEnds == mode.name = "verify" ~> mode.name = "task"
================================================================================
