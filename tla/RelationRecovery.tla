---------------------------- MODULE RelationRecovery ----------------------------
(***************************************************************************)
(* The recovery of lost relations by one arm: RelationRecoveryController   *)
(* and the RECOVERY half of ClosedLoopRecoveryManager, which plans the     *)
(* goals, runs them one by one and hands the arm back to its task.         *)
(*                                                                         *)
(* One step is one call of a manager method.  A relation estimate is its   *)
(* decision and whether it is informative; "informative" also says that    *)
(* its weight reaches the common minimum of the recovery and verification  *)
(* settings.  Poses are abstracted to what the code compares: the frame    *)
(* stays still or moves far away, a waypoint is reached or not, and during *)
(* a probe the arm is at some distance from where the probe began.         *)
(***************************************************************************)
EXTENDS Integers, Sequences

CONSTANTS Frames,       \* the relation frames, in the order of their names
          Learned,      \* the goals with a learned anchor or release
          Pending,      \* the frames whose anchor is an unverified Pending one
          Directed,     \* the frames whose anchor defines an approach direction
          Waypoints,    \* the length of an anchor
          FirstClosing, \* its first waypoint with a closed gripper
          MaxTotal, MaxWaypoint, MaxVerify, MaxAttempts, MaxReentry,
          MinConfirm, OpenCycles, StableCycles, \* RecoveryConfig
          MaxProbe, MaxReturn, MinMotion, Tolerance, \* RelationVerificationConfig
          Reach         \* bound: the largest distance of a probe

Decisions == {"linked", "external", "unknown"}
Goals == [frame : Frames, kind : {"link", "unlink"}]
Expected(g) == IF g.kind = "link" THEN "linked" ELSE "external"

ASSUME ConstantsAssumption ==
  /\ Frames \subseteq Nat
  /\ Learned \subseteq Goals
  /\ {MaxTotal, MaxWaypoint, MaxVerify, MaxAttempts, MaxReentry, MinConfirm,
      OpenCycles, StableCycles, MaxProbe, MaxReturn, Waypoints, FirstClosing}
       \subseteq Nat \ {0}
  /\ MinMotion \in Nat \ {0} /\ Tolerance \in Nat /\ Reach \in Nat

VARIABLES
  mode,      \* ClosedLoopRecoveryManager.mode
  phase,     \* RelationRecoveryController.phase
  todo,      \* the goals not completed; the first in order is the active one
  completed, \* _completed
  attempts,  \* _attempts
  total,     \* _total_cycles
  reentries, \* _reentry_cycles
  track,     \* the counters of the current attempt
  probe,     \* the active probe of the current attempt
  active,    \* EpisodeLinkAnchorRegistry._active_pending
  away,      \* the distance of the arm from the entry pose of the probe
  basis      \* history: consecutive evidence each goal was last completed on

progress == <<todo, completed, attempts, active, basis>>
vars == <<mode, phase, progress, total, reentries, track, probe, away>>

--------------------------------------------------------------------------------
(* RelationGoalPlanner *)

\* Mutant of Before: goals in the order of their frames.
BeforeByFrame(g, h) == g.frame <= h.frame

Before(g, h) == \/ g.kind = "unlink" /\ h.kind = "link"
                \/ g.kind = h.kind /\ g.frame <= h.frame

ActiveGoal(S) == CHOOSE g \in S : \A h \in S : Before(g, h)

\* At most one intent per frame.
Intents == {S \in SUBSET Goals : \A g, h \in S : g.frame = h.frame => g = h}

--------------------------------------------------------------------------------
(* The record of an attempt; run and best are history: the consecutive     *)
(* informative estimates of the expected relation, and their longest run.  *)

\* Mutant of FreshTrack: the kind of the goal taken for its phase.
FreshTrackOfKind(kind) ==
  [phase |-> kind, waypoint |-> 1, cycles |-> 0, verify |-> 0, open |-> 0, stable |-> 0,
   locked |-> FALSE, had |-> FALSE, confirm |-> 0, run |-> 0, best |-> 0]

FreshTrack(kind) ==
  [phase |-> IF kind = "link" THEN "track" ELSE "open", waypoint |-> 1, cycles |-> 0,
   verify |-> 0, open |-> 0, stable |-> 0, locked |-> FALSE,
   had |-> FALSE, confirm |-> 0, run |-> 0, best |-> 0]

NoProbe == [phase |-> "none", path |-> <<>>, back |-> <<>>, cycles |-> 0,
            returns |-> 0, motion |-> 0, decision |-> "unknown",
            candidate |-> "unknown", count |-> 0]

Least(a, b) == IF a < b THEN a ELSE b
Distance(a, b) == IF a < b THEN b - a ELSE a - b

\* Mutant of Noted: evidence accumulates over interruptions.
NotedAccumulating(t, satisfied) ==
  [t EXCEPT !.had = @ \/ satisfied,
            !.confirm = IF satisfied THEN Least(@ + 1, MinConfirm) ELSE @]

\* The evidence of one estimate for the active goal; counts saturate.
Noted(t, satisfied) ==
  [t EXCEPT !.had = @ \/ satisfied,
            !.confirm = IF satisfied THEN Least(@ + 1, MinConfirm) ELSE 0]

Recorded(t, satisfied) ==
  LET n == IF satisfied THEN Least(t.run + 1, MinConfirm) ELSE 0 IN
  [t EXCEPT !.run = n, !.best = IF n > @ THEN n ELSE @]

\* _wait_for_stable_link_frame: the anchor is locked to a frame that stood still.
Settled(t, still) ==
  LET n == IF still THEN t.stable + 1 ELSE 1 IN
  IF t.locked THEN t ELSE [t EXCEPT !.stable = n, !.locked = n >= StableCycles]

\* _restart_link_frame_settling
Unsettled(t) == [t EXCEPT !.locked = FALSE, !.stable = 1, !.waypoint = 1, !.cycles = 0]

--------------------------------------------------------------------------------
(* How a cycle of update ends *)

Continue(t, p) == track' = t /\ probe' = p /\ UNCHANGED <<phase, progress>>

Fail(t, p) == /\ track' = t /\ probe' = p /\ phase' = "failed"
              /\ UNCHANGED progress

StartGoal(S, n) ==
  /\ attempts' = n
  /\ track' = FreshTrack(ActiveGoal(S).kind)
  /\ probe' = NoProbe

\* Mutant of RetryOrFail: one attempt too many.
RetryOnceMore(t, p) ==
  IF attempts <= MaxAttempts
  THEN StartGoal(todo, attempts + 1) /\ UNCHANGED <<phase, todo, completed, active, basis>>
  ELSE Fail(t, p)

RetryOrFail(t, p) ==
  IF attempts < MaxAttempts
  THEN StartGoal(todo, attempts + 1) /\ UNCHANGED <<phase, todo, completed, active, basis>>
  ELSE Fail(t, p)

CompleteGoal(g, t, p) ==
  /\ completed' = completed \cup {g}
  /\ todo' = todo \ {g}
  /\ active' = IF g.kind = "unlink" THEN active \ {g.frame}
               ELSE IF g.frame \in Pending THEN active \cup {g.frame} ELSE active
  /\ basis' = [basis EXCEPT ![g] = t.best]
  /\ IF todo' = {}
     THEN phase' = "reentry" /\ attempts' = 0 /\ track' = t /\ probe' = p
     ELSE phase' = phase /\ StartGoal(todo', 1)

--------------------------------------------------------------------------------
(* The probe that checks a grasp: away from the object, and back *)

\* _link_probe_stable: one more estimate is counted for its candidate.
Stabilised(p, d, informative) ==
  LET c == IF informative /\ p.motion >= MinMotion THEN d ELSE "unknown" IN
  [p EXCEPT !.candidate = c,
            !.count = IF c = "unknown" THEN 0
                      ELSE IF c = p.candidate THEN Least(p.count + 1, MinConfirm) ELSE 1]

\* The decision of a stable candidate replaces that of the probe.
Decided(p) == IF p.count >= MinConfirm THEN [p EXCEPT !.decision = p.candidate] ELSE p

\* The arm is first observed at x: the path grows unless it has not moved.
Moved(p, x) ==
  LET last == p.path[Len(p.path)] IN
  IF x = last THEN p
  ELSE [p EXCEPT !.path = Append(@, x),
                 !.motion = Least(@ + Distance(x, last), MinMotion)]

\* _begin_link_probe_return: the recorded path backwards, ending at the entry.
Returning(p) ==
  LET n == Len(p.path)
      backwards == [k \in 1 .. n - 1 |-> p.path[n - k]]
  IN  [p EXCEPT !.phase = "return", !.back = IF n = 1 THEN <<p.path[1]>> ELSE backwards]

\* The waypoints of the way back the arm has reached are dropped.
Dropped(p, x) ==
  LET reached == {k \in 0 .. Len(p.back) :
                    \A j \in 1 .. k : Distance(x, p.back[j]) <= Tolerance}
      n == CHOOSE k \in reached : \A j \in reached : j <= k
  IN  [p EXCEPT !.back = SubSeq(@, n + 1, Len(@))]

ReturnCycle(g, t, p, x, d, informative) ==
  LET q == [Decided(Stabilised(p, d, informative)) EXCEPT !.returns = @ + 1]
      r == Dropped(q, x)
  IN  IF q.returns > MaxReturn THEN Fail(t, q)
      ELSE IF r.back # <<>> THEN Continue(t, r)
      ELSE IF r.decision = "linked" /\ t.had /\ d = "linked" THEN CompleteGoal(g, t, r)
      ELSE RetryOrFail(t, r)

\* Mutant of ProbeCycle: a probe without result is given up where it ends.
ProbeCycleNoReturn(g, t, p, x, d, informative) ==
  LET q == Decided(Stabilised(Moved(p, x), d, informative)) IN
  IF q.decision # "unknown" THEN ReturnCycle(g, t, Returning(q), x, d, informative)
  ELSE IF q.cycles >= MaxProbe THEN RetryOrFail(t, q)
  ELSE Continue(t, [q EXCEPT !.cycles = @ + 1])

\* The cycle that ends the probe goes on with the first cycle of the return.
ProbeCycle(g, t, p, x, d, informative) ==
  LET q == Decided(Stabilised(Moved(p, x), d, informative)) IN
  IF q.decision # "unknown" \/ q.cycles >= MaxProbe
  THEN ReturnCycle(g, t, Returning(q), x, d, informative)
  ELSE Continue(t, [q EXCEPT !.cycles = @ + 1])

\* _begin_link_probe, in the cycle that reaches the last waypoint.
BeginProbe(g, t) ==
  IF g.frame \in Directed
  THEN Continue([t EXCEPT !.phase = "verify"],
                [NoProbe EXCEPT !.phase = "probe", !.path = <<0>>, !.cycles = 1])
  ELSE Fail([t EXCEPT !.phase = "verify"], NoProbe)

--------------------------------------------------------------------------------
(* The cycles of a LINK and of an UNLINK goal, t being the noted attempt *)

LinkTrack(g, t) ==
  \E still, far, near \in BOOLEAN :
    LET s == Settled(t, still) IN
    /\ s.locked # t.locked => ~far
    /\ IF ~s.locked THEN Continue(s, probe)
       ELSE IF far /\ s.waypoint < FirstClosing THEN Continue(Unsettled(s), probe)
       ELSE IF near /\ s.waypoint = Waypoints
       THEN BeginProbe(g, [s EXCEPT !.cycles = 0])
       ELSE IF near THEN Continue([s EXCEPT !.waypoint = @ + 1, !.cycles = 0], probe)
       ELSE IF s.cycles + 1 > MaxWaypoint THEN RetryOrFail(s, probe)
       ELSE Continue([s EXCEPT !.cycles = @ + 1], probe)

LinkVerify(g, t, x, d, informative) ==
  IF probe.phase = "probe" THEN ProbeCycle(g, t, probe, x, d, informative)
                           ELSE ReturnCycle(g, t, probe, x, d, informative)

UnlinkOpen(t) ==
  Continue([t EXCEPT !.open = @ + 1,
                     !.phase = IF t.open + 1 >= OpenCycles THEN "track" ELSE "open"], probe)

\* Reaching the target goes on with the first cycle of the verification.
UnlinkVerify(t) == IF t.verify + 1 > MaxVerify THEN RetryOrFail(t, probe)
                   ELSE Continue([t EXCEPT !.verify = @ + 1], probe)

UnlinkTrack(t) ==
  \/ UnlinkVerify([t EXCEPT !.phase = "verify", !.cycles = 0])
  \/ IF t.cycles + 1 > MaxWaypoint THEN RetryOrFail(t, probe)
     ELSE Continue([t EXCEPT !.cycles = @ + 1], probe)

--------------------------------------------------------------------------------
(* The methods of the manager *)

Init ==
  /\ mode = "task" /\ phase = "idle"
  /\ todo = {} /\ completed = {} /\ attempts = 0 /\ total = 0 /\ reentries = 0
  /\ track = FreshTrack("link") /\ probe = NoProbe
  /\ active = {} /\ away = 0
  /\ basis = [g \in Goals |-> 0]

\* begin_recovery: intents without a learned primitive are set aside, and when
\* that leaves none the arm stays in TASK.  A trigger without intents (NO_PLAUSIBLE)
\* only realigns the arm with its task.
BeginRecovery ==
  /\ mode = "task"
  /\ \E intents \in Intents :
       LET S == intents \cap Learned IN
       /\ intents # {} => S # {}
       /\ mode' = "recovery"
       /\ phase' = IF S = {} THEN "reentry" ELSE "executing"
       /\ todo' = S /\ completed' = {} /\ total' = 0 /\ reentries' = 0
       /\ IF S = {}
          THEN attempts' = 0 /\ track' = FreshTrack("link") /\ probe' = NoProbe
          ELSE StartGoal(S, 1)
       /\ away' = 0
       /\ UNCHANGED <<active, basis>>

\* update when the goal can be pursued: the frame is observed, the action is safe
\* and the budget of the recovery is not spent.
PursueGoal ==
  /\ mode = "recovery" /\ phase = "executing"
  /\ total < MaxTotal
  /\ total' = total + 1
  /\ \E d \in Decisions, informative \in BOOLEAN,
        x \in IF probe.phase = "none" THEN {0} ELSE 0 .. Reach :
       LET g == ActiveGoal(todo)
           satisfied == d = Expected(g) /\ informative
           t == Recorded(Noted(track, satisfied), satisfied)
       IN  /\ away' = x
           /\ IF t.confirm >= MinConfirm /\ probe.phase = "none"
              THEN CompleteGoal(g, t, probe)
              ELSE \/ g.kind = "link" /\ t.phase = "track" /\ LinkTrack(g, t)
                   \/ g.kind = "link" /\ t.phase = "verify" /\ LinkVerify(g, t, x, d, informative)
                   \/ g.kind = "unlink" /\ t.phase = "open" /\ UnlinkOpen(t)
                   \/ g.kind = "unlink" /\ t.phase = "track" /\ UnlinkTrack(t)
                   \/ g.kind = "unlink" /\ t.phase = "verify" /\ UnlinkVerify(t)
  /\ UNCHANGED <<mode, reentries>>

\* update when the budget is spent, the action is unsafe or the frame is lost.
AbandonGoal ==
  /\ mode = "recovery" /\ phase = "executing"
  /\ total' = total + 1
  /\ Fail(track, probe)
  /\ UNCHANGED <<mode, reentries, away>>

\* Mutant of Reenter: a search that takes too long starts over.
ReenterForever(selected) ==
  /\ mode = "recovery" /\ phase = "reentry"
  /\ reentries' = IF reentries + 1 >= MaxReentry THEN 0 ELSE reentries + 1
  /\ phase' = IF selected THEN "complete" ELSE "reentry"
  /\ mode' = IF selected THEN "task" ELSE mode
  /\ UNCHANGED <<progress, total, track, probe, away>>

\* commit_reentry: a selected state must keep every repaired relation; the
\* recovery fails when none is found in time.
Reenter(selected) ==
  /\ mode = "recovery" /\ phase = "reentry"
  /\ reentries' = reentries + 1
  /\ phase' = IF selected THEN "complete"
              ELSE IF reentries + 1 >= MaxReentry THEN "failed" ELSE "reentry"
  /\ mode' = IF selected THEN "task" ELSE mode
  /\ UNCHANGED <<progress, total, track, probe, away>>

\* The reset of the policy, at any time.
Reset ==
  /\ mode' = "task" /\ phase' = "idle"
  /\ todo' = {} /\ completed' = {} /\ attempts' = 0 /\ total' = 0 /\ reentries' = 0
  /\ track' = FreshTrack("link") /\ probe' = NoProbe
  /\ active' = {} /\ away' = 0
  /\ basis' = [g \in Goals |-> 0]

Cycle == PursueGoal \/ AbandonGoal \/ \E selected \in BOOLEAN : Reenter(selected)

Next == BeginRecovery \/ Cycle \/ Reset

\* The policy calls update or commit_reentry in every act while an arm recovers.
Spec == Init /\ [][Next]_vars /\ WF_vars(Cycle)

--------------------------------------------------------------------------------
TypeOK ==
  /\ mode \in {"task", "recovery"}
  /\ phase \in {"idle", "executing", "reentry", "complete", "failed"}
  /\ todo \subseteq Goals /\ completed \subseteq Goals
  /\ attempts \in Nat /\ total \in Nat /\ reentries \in Nat
  /\ track \in [phase : {"open", "track", "verify"}, waypoint : Nat, cycles : Nat,
                verify : Nat, open : Nat, stable : Nat, locked : BOOLEAN,
                had : BOOLEAN, confirm : Nat, run : Nat, best : Nat]
  /\ probe \in [phase : {"none", "probe", "return"}, path : Seq(Nat), back : Seq(Nat),
                cycles : Nat, returns : Nat, motion : Nat, decision : Decisions,
                candidate : Decisions, count : Nat]
  /\ active \subseteq Frames
  /\ away \in Nat
  /\ basis \in [Goals -> Nat]

\* Every wait of a recovery has a limit: waypoints, verifications, probes, ways
\* back, attempts, the recovery as a whole and the search for a state to reenter.
HardLimits ==
  /\ attempts <= MaxAttempts
  /\ reentries <= MaxReentry
  /\ total <= MaxTotal + 1
  /\ track.waypoint <= Waypoints
  /\ track.cycles <= MaxWaypoint /\ track.verify <= MaxVerify
  /\ probe.cycles <= MaxProbe /\ probe.returns <= MaxReturn + 1

\* A relation counts as repaired, and a Pending anchor becomes the origin of this
\* episode, only on informative evidence seen in the very attempt that completed
\* the goal; a release needs the full run of consecutive evidence.
RepairEvidence ==
  /\ \A g \in completed : basis[g] >= IF g.kind = "unlink" THEN MinConfirm ELSE 1
  /\ \A f \in active : basis[[frame |-> f, kind |-> "link"]] >= 1

\* The arm does not try to grasp while a relation that occupies its gripper is
\* still to be released.
ReleaseBeforeGrasp ==
  phase = "executing" /\ ActiveGoal(todo).kind = "link" =>
    \A g \in todo : g.kind = "link"

\* A probe that ends without failure has brought the arm back to where it began.
ProbeReturns ==
  [][probe.phase # "none" /\ mode' = "recovery" /\ phase' # "failed"
     /\ (probe'.phase = "none" \/ phase' = "reentry") => away' <= Tolerance]_vars

\* A recovery ends: the arm is back in TASK or the recovery has failed.
RecoveryEnds == mode = "recovery" ~> mode = "task" \/ phase = "failed"

\* RecoveryConfig.minimum_relation_confirmation_cycles asks for consecutive
\* informative cycles, and test_recovery_does_not_complete_link_goal_from_one_
\* informative_pulse says that a single one never completes a LINK goal.
CompletedOnConsecutiveEvidence == \A g \in completed : basis[g] >= MinConfirm
================================================================================
