------------------------ MODULE PolicyTransactionProofs ------------------------
(***************************************************************************)
(* Theorems about PolicyTransaction for any arms, horizon, number of       *)
(* episodes and scenario of the scene.                                     *)
(*                                                                         *)
(* The invariant says of every place of the evaluator what is in the pipe, *)
(* which transaction is open, and by how much the clocks of the server,    *)
(* the policy and the scene are ahead of that of the evaluator.            *)
(***************************************************************************)
EXTENDS PolicyTransaction, FiniteSetTheorems, TLAPS

USE ConstantsAssumption

\* The request an evaluator waits for at each place.
Asked(place) ==
  CASE place = "resetting" -> "reset"
    [] place = "acting" -> "act"
    [] place \in {"committing", "failing"} -> "commit"
    [] place \in {"leaving", "raising"} -> "abort"
    [] place = "closing" -> "close"

Resolving == {"committing", "failing", "leaving", "raising"}

\* Places between the request for an action and the count of its step.
Stepping == {"acting", "moving", "holding", "committing", "failing", "leaving"}

\* What is in the pipe.
PipeInv ==
  /\ call.kind = "idle" <=> at \notin Waiting \cup {"closing"}
  /\ call.kind = "request" => call.command = Asked(at)
  /\ call.kind = "request" /\ at \in Resolving =>
       /\ call.id = turn /\ call.applied \in BOOLEAN
       /\ call.applied = TRUE <=> at = "committing" /\ outcome = "applied"
  /\ call.kind = "answer" /\ at = "acting" => call.id \in Nat

\* The worker has a transaction open, the one the evaluator is about to resolve.
Open ==
  \/ at \in {"moving", "holding"}
  \/ at = "acting" /\ call.kind = "answer"
  \/ at \in Resolving /\ call.kind = "request"

TransactionInv ==
  /\ alive = TRUE /\ Open => pending # 0
  /\ pending # 0 => /\ alive = TRUE /\ Open
                    /\ pending = IF at = "acting" THEN call.id ELSE turn
  /\ IF pending = 0 THEN snapshot = <<>> /\ policy = durable
                    ELSE snapshot = <<durable>>

\* An action is only taken within an episode and before its horizon.
EpisodeInv ==
  /\ at \in Stepping => committed < Horizon
  /\ at \notin {"start", "close", "closing", "ended"} => episode <= Episodes
  /\ at = "resetting" => committed = 0 /\ outcome = "none"

\* The worker has answered a reset or a commit, and what it knows is in force.
Settled == at = "loop" \/ (at \in {"resetting", "committing"} /\ call.kind = "answer")

\* Between actions the policy knows what the simulator did; the terminal actions it has
\* committed or is about to commit are actions the simulator took.
FeedbackInv ==
  /\ alive = TRUE /\ Settled =>
       /\ \A a \in Arms : policy.reference[a] # "none" => outcome = "applied"
       /\ sent = "command" <=> outcome = "applied"
  /\ policy.terminal \subseteq accepted
  /\ durable.terminal \subseteq accepted
  /\ pending # 0 /\ at = "committing" /\ outcome = "applied" =>
       \A a \in granted : policy.reference[a] = "final" => a \in accepted

\* By how much the clocks of the worker are ahead of committed.
ClockInv ==
  alive = TRUE =>
    /\ at = "resetting" /\ call.kind = "answer" => tick = 0 /\ policy.records = 0
    /\ at = "loop" => tick = committed /\ policy.records = committed
    /\ at = "acting" /\ call.kind = "request" =>
         tick = committed /\ policy.records = committed
    /\ Open /\ at # "raising" => tick = committed /\ policy.records = committed + 1
    /\ at = "committing" /\ call.kind = "answer" =>
         tick = committed + 1 /\ policy.records = committed + 1

\* The segments of the motion up to the step it was last asked for.
Segments(step) == {s \in Trigger .. Trigger + Motion - 1 : s <= step}

SceneInv ==
  /\ scene.asked <= Horizon - 1
  /\ at \in {"resetting", "loop"} => scene.asked = committed - 1
  /\ at \in Stepping => scene.asked = committed
  /\ scene.reached = TRUE <=> Motion > 0 /\ scene.asked >= Trigger
  /\ scene.moved = Segments(scene.asked)
  /\ at = "refused" => ~scene.effective

IInv == /\ TypeOK /\ PipeInv /\ TransactionInv /\ EpisodeInv /\ FeedbackInv /\ ClockInv
        /\ SceneInv

--------------------------------------------------------------------------------
LEMMA FreshTyped == FreshPolicy \in Policies /\ FreshPolicy.terminal = {}
BY DEF FreshPolicy, Policies, Places, References

\* What an act leaves behind: it has answered with a new transaction, or refused.
Acted ==
  /\ call'.kind = "answer" /\ call'.id = id
  /\ policy' \in Policies /\ policy'.terminal = policy.terminal
  /\ policy'.records = policy.records + 1
  /\ granted' \subseteq Arms /\ snapshot' = <<policy>>
  /\ pending' = id /\ id' = id + 1

Refused == call' = Refusal /\ UNCHANGED <<policy, granted, snapshot, pending, id>>

LEMMA ActSound ==
  ASSUME TypeOK, ServeAct
  PROVE  Acted \/ Refused
<1>1. CASE Refused
  BY <1>1
<1>2. CASE ~Refused
  <2>1. PICK p \in {q \in Cycles : Possible(q)} :
          policy' = p /\ call' = [kind |-> "answer", id |-> id, failed |-> p.failed]
    BY <1>2 DEF ServeAct, Refused
  <2>2. p \in Cycles
    OBVIOUS
  <2>3. PICK place \in [Arms -> Places], reference \in [Arms -> References],
             failed \in BOOLEAN :
          p = [place |-> place, reference |-> reference, terminal |-> policy.terminal,
               failed |-> failed, records |-> policy.records + 1]
    BY DEF Cycles
  <2>4. p \in Policies /\ p.terminal = policy.terminal /\ p.records = policy.records + 1
    BY <2>3 DEF TypeOK, Policies
  <2>5. QED
    BY <2>1, <2>4 DEF ServeAct, Refused, Acted
<1>3. QED
  BY <1>2

\* A commit changes only what is executed and what is terminal.
LEMMA CommitSound ==
  ASSUME TypeOK, ServeCommit
  PROVE  /\ policy' \in Policies
         /\ policy'.records = policy.records
         /\ policy'.reference = Executed(call.applied)
         /\ policy'.terminal = Terminals(call.applied)
         /\ policy'.place = policy.place
<1>1. Executed(call.applied) \in [Arms -> References]
  BY DEF Executed, TypeOK, Policies, References
<1>2. Terminals(call.applied) \in SUBSET Arms
  BY DEF Terminals
<1>3. QED
  BY <1>1, <1>2 DEF ServeCommit, TypeOK, Policies

\* The scene is asked for a step, and moved when a segment is due.
LEMMA Intervention ==
  ASSUME TypeOK, committed < Horizon, scene.asked # committed, scene' \in Intervened
  PROVE  /\ scene' \in [asked : -1 .. Horizon - 1, reached : BOOLEAN,
                        moved : SUBSET (0 .. Horizon - 1), effective : BOOLEAN]
         /\ scene'.asked = committed
         /\ scene'.reached = (scene.reached \/ (Motion > 0 /\ committed >= Trigger))
         /\ scene'.moved = IF Due THEN scene.moved \cup {committed} ELSE scene.moved
<1> DEFINE looked == [scene EXCEPT !.asked = committed,
                                   !.reached = @ \/ (Motion > 0 /\ committed >= Trigger)]
<1>1. /\ looked \in [asked : -1 .. Horizon - 1, reached : BOOLEAN,
                     moved : SUBSET (0 .. Horizon - 1), effective : BOOLEAN]
      /\ looked.asked = committed /\ looked.moved = scene.moved
      /\ looked.reached = (scene.reached \/ (Motion > 0 /\ committed >= Trigger))
      /\ committed \in 0 .. Horizon - 1
  <2> DEFINE reached == scene.reached \/ (Motion > 0 /\ committed >= Trigger)
  <2>1. scene \in [asked : -1 .. Horizon - 1, reached : BOOLEAN,
                   moved : SUBSET (0 .. Horizon - 1), effective : BOOLEAN]
    BY DEF TypeOK
  <2>2. committed \in 0 .. Horizon - 1 /\ committed \in -1 .. Horizon - 1
    BY DEF TypeOK
  <2>3. reached \in BOOLEAN
    BY Zenon
  <2>4. looked = [scene EXCEPT !.asked = committed, !.reached = reached]
    BY Zenon
  <2> HIDE DEF reached, looked
  <2>5. /\ looked \in [asked : -1 .. Horizon - 1, reached : BOOLEAN,
                       moved : SUBSET (0 .. Horizon - 1), effective : BOOLEAN]
        /\ looked.asked = committed /\ looked.moved = scene.moved
    BY <2>1, <2>2, <2>3, <2>4
  <2>6. looked.reached = reached
    BY <2>4
  <2>7. QED
    BY <2>2, <2>5, <2>6, Zenon DEF reached
<1>2. CASE ~Due
  BY <1>1, <1>2 DEF Intervened
<1>3. CASE Due
  <2>1. PICK effective \in BOOLEAN :
          scene' = [looked EXCEPT !.moved = @ \cup {committed},
                                  !.effective = @ /\ effective]
    BY <1>3 DEF Intervened
  <2> HIDE DEF looked
  <2>2. QED
    BY <1>1, <1>3, <2>1
<1>4. QED
  BY <1>2, <1>3

LEMMA GoneTyped ==
  ASSUME Gone
  PROVE  /\ alive' \in BOOLEAN /\ pending' \in Nat /\ id' \in Nat \ {0} /\ pending' < id'
         /\ tick' \in Nat /\ sent' \in {"none", "command", "held"}
         /\ policy' \in Policies /\ granted' \subseteq Arms /\ durable' \in Policies
         /\ IF pending' = 0 THEN snapshot' = <<>> ELSE snapshot'[1] \in Policies
<1>1. alive' \in BOOLEAN
  BY Zenon DEF Gone
<1>2. QED
  BY <1>1, FreshTyped DEF Gone

\* Rolling back restores what the last commit or reset has made durable.
LEMMA RestoredIsDurable ==
  ASSUME IInv
  PROVE  /\ Restored = durable /\ Restored \in Policies
         /\ Restored.terminal \subseteq accepted
BY DEF IInv, TypeOK, TransactionInv, FeedbackInv, Restored

\* How many segments of the motion there are up to a step.
LEMMA SegmentsCounted ==
  ASSUME NEW k \in Int
  PROVE  /\ ~(Motion > 0 /\ k >= Trigger) =>
              Segments(k) = {} /\ Cardinality(Segments(k)) = 0
         /\ Motion > 0 /\ k >= Trigger /\ k < Trigger + Motion =>
              Segments(k) = Trigger .. k /\ Cardinality(Segments(k)) = k - Trigger + 1
         /\ Motion > 0 /\ k >= Trigger + Motion =>
              /\ Segments(k) = Trigger .. Trigger + Motion - 1
              /\ Cardinality(Segments(k)) = Motion
<1>1. CASE ~(Motion > 0 /\ k >= Trigger)
  BY <1>1, FS_EmptySet DEF Segments
<1>2. CASE Motion > 0 /\ k >= Trigger /\ k < Trigger + Motion
  <2>1. Segments(k) = Trigger .. k
    BY <1>2 DEF Segments
  <2>2. QED
    BY <1>2, <2>1, FS_Interval
<1>3. CASE Motion > 0 /\ k >= Trigger + Motion
  <2>1. Segments(k) = Trigger .. Trigger + Motion - 1
    BY <1>3 DEF Segments
  <2>2. QED
    BY <1>3, <2>1, FS_Interval
<1>4. QED
  BY <1>1, <1>2, <1>3

\* The motion of a scene that has moved as commanded is accounted for when the episode
\* ends with the step it was last asked for or before it.
LEMMA Accounted ==
  ASSUME TypeOK, SceneInv, scene.effective,
         NEW steps \in {scene.asked, scene.asked + 1}
  PROVE  Accountable(steps)
<1> DEFINE k == scene.asked
<1>1. k \in Int /\ scene.reached \in BOOLEAN
  BY DEF TypeOK
<1>2. scene.reached = TRUE <=> Motion > 0 /\ k >= Trigger
  BY DEF SceneInv
<1>3. scene.moved = Segments(k)
  BY DEF SceneInv
<1>4. CASE ~(Motion > 0 /\ k >= Trigger)
  BY <1>1, <1>2, <1>3, <1>4, SegmentsCounted DEF Accountable
<1>5. CASE Motion > 0 /\ k >= Trigger /\ k < Trigger + Motion
  BY <1>1, <1>2, <1>3, <1>5, SegmentsCounted DEF Accountable
<1>6. CASE Motion > 0 /\ k >= Trigger + Motion
  BY <1>1, <1>2, <1>3, <1>6, SegmentsCounted DEF Accountable
<1>7. QED
  BY <1>1, <1>4, <1>5, <1>6

\* Every step keeps the types.
LEMMA TypeStep ==
  ASSUME IInv, Next
  PROVE  TypeOK'
<1>1. CASE ServeReset
  <2>1. policy' \in Policies /\ durable' \in Policies
    BY <1>1, RestoredIsDurable, FreshTyped DEF ServeReset
  <2>2. call'.kind \in {"idle", "request", "answer", "error"} /\ accepted' \subseteq Arms
    BY <1>1 DEF ServeReset, Answer, Refusal, IInv, TypeOK
  <2>3. QED
    BY <1>1, <2>1, <2>2 DEF ServeReset, evaluator, simulator, IInv, TypeOK
<1>2. CASE ServeAct
  <2>1. TypeOK /\ ServeAct
    BY <1>2 DEF IInv
  <2>2. CASE Acted
    <3>1. snapshot'[1] \in Policies
      BY <2>1, <2>2 DEF Acted, TypeOK
    <3> QED
      BY <2>1, <2>2 DEF ServeAct, Acted, TypeOK, evaluator, simulator, history
  <2>3. CASE Refused
    BY <2>1, <2>3 DEF ServeAct, Refused, Refusal, TypeOK, evaluator, simulator, history
  <2>4. QED
    BY <2>1, <2>2, <2>3, ActSound
<1>3. CASE ServeCommit
  <2>1. TypeOK /\ ServeCommit
    BY <1>3 DEF IInv
  <2>2. call'.kind = "answer" /\ accepted' \subseteq Arms /\ tick' \in Nat
    BY <1>3, <2>1 DEF ServeCommit, TypeOK, Ticked
  <2>3. QED
    BY <1>3, <2>1, <2>2, CommitSound DEF ServeCommit, TypeOK, evaluator, simulator
<1>4. CASE ServeAbort
  <2>1. TypeOK /\ policy' \in Policies
    BY <1>4, RestoredIsDurable DEF ServeAbort, IInv
  <2>2. QED
    BY <1>4, <2>1 DEF ServeAbort, Answer, TypeOK, evaluator, simulator, history
<1>5. CASE ServeClose
  <2>1. TypeOK /\ policy' \in Policies
    BY <1>5, RestoredIsDurable DEF ServeClose, IInv
  <2>2. alive' \in BOOLEAN
    BY <1>5, Zenon DEF ServeClose
  <2>3. QED
    BY <1>5, <2>1, <2>2 DEF ServeClose, Answer, TypeOK, evaluator, simulator, history
<1>6. CASE Die
  <2>1. TypeOK
    BY DEF IInv
  <2>2. UNCHANGED <<at, episode, committed, turn, call, outcome, scene, accepted>>
    BY <1>6 DEF Die, evaluator, simulator
  <2>3. QED
    BY <1>6, <2>1, <2>2, GoneTyped DEF Die, TypeOK
<1>7. CASE Start
  BY <1>7 DEF IInv, TypeOK, Waiting, Resolving, server, core, history, Start, Ask,
     Request, NewScene
<1>8. CASE Begin
  BY <1>8 DEF IInv, TypeOK, Idle, server, core, simulator, history, Begin, Answered
<1>9. CASE Act
  <2>1. TypeOK /\ Act /\ committed < Horizon /\ scene.asked # committed
    BY <1>9 DEF IInv, SceneInv, Act, TypeOK
  <2>2. QED
    BY <2>1, Intervention DEF Act, Ask, Request, TypeOK, Waiting, server, core, history
<1>10. CASE Immovable
  BY <1>10 DEF IInv, TypeOK, server, core, simulator, history, Immovable
<1>11. CASE ReachHorizon
  <2>1. TypeOK /\ EpisodeInv /\ at = "loop"
    BY <1>11 DEF IInv, ReachHorizon
  <2>2. at' \in {"start", "refused"} /\ episode' \in 1 .. Episodes + 1
    BY <1>11, <2>1 DEF ReachHorizon, Finish, EpisodeInv, TypeOK
  <2>3. QED
    BY <1>11, <2>1, <2>2 DEF ReachHorizon, TypeOK, server, core, simulator, history
<1>12. CASE TakeAction
  <2>1. TypeOK /\ turn' \in Nat
    BY <1>12 DEF IInv, PipeInv, TakeAction, Answered
  <2>2. /\ at' \in {"failing", "moving"} /\ call'.kind \in {"idle", "request"}
        /\ outcome' \in {outcome, "none"}
    BY <1>12 DEF TakeAction, Ask, Resolve, Idle
  <2>3. QED
    BY <1>12, <2>1, <2>2 DEF TakeAction, TypeOK, Waiting, server, core, history
<1>13. CASE Move
  <2>1. TypeOK
    BY DEF IInv
  <2>2. /\ at' \in {"committing", "holding", "raising"}
        /\ call'.kind \in {"request", call.kind}
        /\ outcome' \in {"applied", outcome}
    BY <1>13 DEF Move, Ask, Resolve
  <2>3. accepted' \subseteq Arms
    BY <1>13, <2>1 DEF Move, TypeOK
  <2>4. QED
    BY <1>13, <2>1, <2>2, <2>3 DEF Move, TypeOK, Waiting, server, core
<1>14. CASE Hold
  <2>1. TypeOK
    BY DEF IInv
  <2>2. at' \in {"committing", "leaving", "raising"} /\ call'.kind = "request"
        /\ outcome' \in {"held", outcome}
    BY <1>14 DEF Hold, Ask, Resolve
  <2>3. QED
    BY <1>14, <2>1, <2>2 DEF Hold, TypeOK, Waiting, server, core, history
<1>15. CASE TakeCommit
  <2>1. TypeOK /\ committed < Horizon /\ episode <= Episodes
    BY <1>15 DEF IInv, EpisodeInv, Stepping, TakeCommit, Answered
  <2>2. at' \in {"start", "refused", "loop"} /\ episode' \in 1 .. Episodes + 1
    BY <1>15, <2>1 DEF TakeCommit, Finish, TypeOK
  <2>3. committed' \in 0 .. Horizon /\ call'.kind = "idle"
    BY <1>15, <2>1 DEF TakeCommit, TypeOK, Idle
  <2>4. QED
    BY <1>15, <2>1, <2>2, <2>3 DEF TakeCommit, TypeOK, server, core, simulator, history
<1>16. CASE Leave
  <2>1. TypeOK /\ Leave /\ episode' \in 1 .. Episodes + 1 /\ committed' \in 0 .. Horizon
    BY <1>16 DEF IInv, EpisodeInv, Leave, Finish, TypeOK, Answered, Stepping
  <2>2. at' \in {"start", "refused"}
    BY <1>16 DEF Finish, Leave
  <2>3. QED
    BY <2>1, <2>2 DEF Leave, Idle, TypeOK, server, core, simulator, history
<1>17. CASE Raise
  <2>1. TypeOK
    BY DEF IInv
  <2>2. QED
    BY <1>17, <2>1 DEF Raise, Idle, TypeOK, server, core, simulator, history
<1>18. CASE Lost
  <2>1. TypeOK
    BY DEF IInv
  <2>2. at' \in {"ended", "close"} /\ call'.kind = "idle"
    BY <1>18 DEF Lost, Idle
  <2>3. UNCHANGED <<episode, committed, turn, outcome, scene, accepted>>
    BY <1>18 DEF Lost, simulator
  <2>4. QED
    BY <1>18, <2>1, <2>2, <2>3, GoneTyped DEF Lost, TypeOK
<1>19. CASE Close
  <2>1. TypeOK
    BY DEF IInv
  <2>2. QED
    BY <1>19, <2>1 DEF Close, Ask, Request, TypeOK, server, core, simulator, history
<1>20. CASE End
  BY <1>20 DEF IInv, TypeOK, Idle, server, core, simulator, history, End, Answered, Idle
<1>21. QED
  BY <1>1, <1>2, <1>3, <1>4, <1>5, <1>6, <1>7, <1>8, <1>9, <1>10, <1>11, <1>12, <1>13,
     <1>14, <1>15, <1>16, <1>17, <1>18, <1>19, <1>20 DEF Next, Serve, Evaluate

\* Every step leaves in the pipe what the evaluator waits for.
LEMMA PipeInvStep ==
  ASSUME IInv, Next
  PROVE  PipeInv'
<1>1. CASE ServeReset
  <2>1. at = "resetting" /\ at' = at
    BY <1>1 DEF IInv, PipeInv, ServeReset, Serves, evaluator, Asked, Waiting
  <2>2. call'.kind \in {"answer", "error"}
    BY <1>1 DEF ServeReset, Answer, Refusal
  <2>3. QED
    BY <2>1, <2>2 DEF PipeInv, Waiting
<1>2. CASE ServeAct
  <2>1. at = "acting" /\ at' = at /\ id \in Nat
    BY <1>2 DEF IInv, TypeOK, PipeInv, ServeAct, Serves, Asked, Waiting, evaluator
  <2>2. call'.kind \in {"answer", "error"} /\ (call'.kind = "answer" => call'.id = id)
    BY <1>2, ActSound DEF IInv, Acted, Refused, Refusal
  <2>3. QED
    BY <2>1, <2>2 DEF PipeInv, Waiting
<1>3. CASE ServeCommit
  <2>1. at \in {"committing", "failing"} /\ at' = at
    BY <1>3 DEF IInv, PipeInv, ServeCommit, Serves, Asked, Waiting, evaluator
  <2>2. call'.kind = "answer"
    BY <1>3 DEF ServeCommit
  <2>3. QED
    BY <2>1, <2>2 DEF PipeInv, Waiting
<1>4. CASE ServeAbort
  <2>1. at \in {"leaving", "raising"} /\ at' = at
    BY <1>4 DEF IInv, PipeInv, ServeAbort, Serves, Asked, Waiting, evaluator
  <2>2. call'.kind = "answer"
    BY <1>4 DEF ServeAbort, Answer
  <2>3. QED
    BY <2>1, <2>2 DEF PipeInv, Waiting
<1>5. CASE ServeClose
  BY <1>5 DEF IInv, PipeInv, Asked, evaluator, ServeClose, Serves, Answer
<1>6. CASE Die
  BY <1>6 DEF IInv, PipeInv, evaluator, simulator, Die
<1>7. CASE Start
  BY <1>7 DEF IInv, PipeInv, TransactionInv, Open, Asked, Waiting, Resolving, Start,
     Ask, Request
<1>8. CASE Begin
  BY <1>8 DEF PipeInv, Waiting, Idle, Begin, Idle
<1>9. CASE Act
  BY <1>9 DEF PipeInv, Asked, Waiting, Resolving, Act, Ask, Request
<1>10. CASE Immovable
  BY <1>10 DEF IInv, PipeInv, Waiting, Immovable
<1>11. CASE ReachHorizon
  BY <1>11 DEF IInv, PipeInv, Waiting, ReachHorizon, Finish
<1>12. CASE TakeAction
  <2>1. CASE call.failed
    <3>1. /\ at' = "failing" /\ turn' = call.id /\ outcome' = "none"
          /\ call' = Resolve("commit", call.id, FALSE)
      BY <1>12, <2>1 DEF TakeAction, Ask
    <3>2. /\ call'.kind = "request" /\ call'.command = "commit" /\ call'.id = turn'
          /\ call'.applied = FALSE
      BY <3>1 DEF Resolve
    <3>3. QED
      BY <3>1, <3>2 DEF PipeInv, Asked, Waiting
  <2>2. CASE ~call.failed
    BY <1>12, <2>2 DEF TakeAction, Idle, PipeInv, Waiting
  <2>3. QED
    BY <2>1, <2>2
<1>13. CASE Move
  <2> USE DEF PipeInv, Asked, Waiting
  <2>1. CASE Ask(Resolve("commit", turn, TRUE), "committing") /\ outcome' = "applied"
    <3>1. /\ call'.kind = "request" /\ call'.command = "commit" /\ call'.id = turn
          /\ call'.applied = TRUE
      BY <2>1 DEF Ask, Resolve
    <3>2. QED
      BY <1>13, <2>1, <3>1 DEF Ask, Move
  <2>2. CASE at' = "holding" /\ UNCHANGED call
    BY <1>13, <2>2 DEF IInv, Move
  <2>3. CASE Ask(Resolve("abort", turn, FALSE), "raising")
    <3>1. /\ call'.kind = "request" /\ call'.command = "abort" /\ call'.id = turn
          /\ call'.applied = FALSE
      BY <2>3 DEF Ask, Resolve
    <3>2. QED
      BY <1>13, <2>3, <3>1 DEF Ask, Move
  <2>4. QED
    BY <1>13, <2>1, <2>2, <2>3 DEF Move
<1>14. CASE Hold
  <2> USE DEF PipeInv, Asked, Waiting
  <2>1. CASE Ask(Resolve("commit", turn, FALSE), "committing") /\ outcome' = "held"
    <3>1. /\ call'.kind = "request" /\ call'.command = "commit" /\ call'.id = turn
          /\ call'.applied = FALSE
      BY <2>1 DEF Ask, Resolve
    <3>2. QED
      BY <1>14, <2>1, <3>1 DEF Ask, Hold
  <2>2. CASE \E place \in {"leaving", "raising"} : Ask(Resolve("abort", turn, FALSE), place)
    <3>1. /\ call'.kind = "request" /\ call'.command = "abort" /\ call'.id = turn
          /\ call'.applied = FALSE
      BY <2>2 DEF Ask, Resolve
    <3>2. QED
      BY <1>14, <2>2, <3>1 DEF Ask, Hold
  <2>4. QED
    BY <1>14, <2>1, <2>2 DEF Hold
<1>15. CASE TakeCommit
  BY <1>15 DEF PipeInv, Waiting, Idle, TakeCommit, Finish, Idle
<1>16. CASE Leave
  BY <1>16 DEF PipeInv, Waiting, Idle, Leave, Finish, Idle
<1>17. CASE Raise
  BY <1>17 DEF PipeInv, Waiting, Idle, Raise, Idle
<1>18. CASE Lost
  BY <1>18 DEF PipeInv, Waiting, Idle, Lost, Idle
<1>19. CASE Close
  <2>1. CASE alive
    BY <1>19, <2>1 DEF Close, Ask, Request, PipeInv, Asked, Waiting, Resolving
  <2>2. CASE ~alive
    BY <1>19, <2>2 DEF IInv, Close, PipeInv, Waiting
  <2>3. QED
    BY <2>1, <2>2
<1>20. CASE End
  BY <1>20 DEF PipeInv, Waiting, Idle, End, Idle
<1>21. QED
  BY <1>1, <1>2, <1>3, <1>4, <1>5, <1>6, <1>7, <1>8, <1>9, <1>10, <1>11, <1>12, <1>13,
     <1>14, <1>15, <1>16, <1>17, <1>18, <1>19, <1>20 DEF Next, Serve, Evaluate

\* Every step keeps the open transaction and its snapshot in place.
LEMMA TransactionInvStep ==
  ASSUME IInv, Next
  PROVE  TransactionInv'
<1>1. CASE ServeReset
  BY <1>1 DEF IInv, PipeInv, TransactionInv, Open, Asked, Waiting, Resolving, evaluator,
     ServeReset, Serves, Restored
<1>2. CASE ServeAct
  <2>1. /\ at = "acting" /\ at' = at /\ TypeOK /\ UNCHANGED <<alive, durable>>
        /\ pending = 0 /\ policy = durable /\ snapshot = <<>>
    BY <1>2 DEF IInv, PipeInv, TransactionInv, ServeAct, Serves, Asked, Waiting,
       evaluator, history
  <2>2. CASE Acted
    BY <1>2, <2>1, <2>2 DEF Acted, TypeOK, TransactionInv, Open, ServeAct, Serves
  <2>3. CASE Refused
    BY <2>1, <2>3 DEF Refused, Refusal, TransactionInv, Open, Resolving
  <2>4. QED
    BY <1>2, <2>1, <2>2, <2>3, ActSound
<1>3. CASE ServeCommit
  BY <1>3 DEF IInv, PipeInv, TransactionInv, Open, Asked, Waiting, evaluator,
     ServeCommit, Serves
<1>4. CASE ServeAbort
  <2>1. at \in {"leaving", "raising"} /\ at' = at /\ call'.kind = "answer"
    BY <1>4 DEF IInv, PipeInv, ServeAbort, Serves, evaluator, Asked, Waiting, Answer
  <2>2. QED
    BY <1>4, <2>1, RestoredIsDurable DEF ServeAbort, TransactionInv, Open, history
<1>5. CASE ServeClose
  BY <1>5 DEF IInv, TypeOK, TransactionInv, history, ServeClose, Serves, Restored
<1>6. CASE Die
  BY <1>6 DEF TransactionInv, Die, Gone
<1>7. CASE Start
  BY <1>7 DEF IInv, TransactionInv, Open, Resolving, server, core, history, Start, Ask
<1>8. CASE Begin
  BY <1>8 DEF IInv, TransactionInv, Open, Resolving, server, core, history, Begin,
     Answered
<1>9. CASE Act
  BY <1>9 DEF IInv, TransactionInv, Open, Resolving, server, core, history, Act, Ask,
     Request
<1>10. CASE Immovable
  BY <1>10 DEF IInv, PipeInv, TransactionInv, Open, Waiting, server, core, history,
     Immovable
<1>11. CASE ReachHorizon
  BY <1>11 DEF IInv, PipeInv, TransactionInv, Open, Waiting, server, core, history,
     ReachHorizon, Finish
<1>12. CASE TakeAction
  <2>1. /\ UNCHANGED <<alive, pending, policy, snapshot, durable>>
        /\ at = "acting" /\ call.kind = "answer" /\ turn' = call.id
        /\ at' = "moving" \/ (at' = "failing" /\ call'.kind = "request")
    BY <1>12 DEF TakeAction, Answered, Ask, Resolve, server, core, history
  <2>2. QED
    BY <2>1 DEF IInv, TransactionInv, Open, Resolving
<1>13. CASE Move
  <2>1. /\ UNCHANGED <<alive, pending, policy, snapshot, durable>>
        /\ at = "moving" /\ UNCHANGED turn
        /\ \/ at' \in {"committing", "raising"} /\ call'.kind = "request"
           \/ at' = "holding"
    BY <1>13 DEF Move, Ask, Resolve, server, core
  <2>2. QED
    BY <2>1 DEF IInv, TransactionInv, Open, Resolving
<1>14. CASE Hold
  <2>1. /\ UNCHANGED <<alive, pending, policy, snapshot, durable>>
        /\ at = "holding" /\ UNCHANGED turn
        /\ at' \in {"committing", "leaving", "raising"} /\ call'.kind = "request"
    BY <1>14 DEF Hold, Ask, Resolve, server, core, history
  <2>2. QED
    BY <2>1 DEF IInv, TransactionInv, Open, Resolving
<1>15. CASE TakeCommit
  BY <1>15 DEF IInv, TransactionInv, Open, Resolving, server, core, history, TakeCommit,
     Answered, Finish
<1>16. CASE Leave
  BY <1>16 DEF IInv, TransactionInv, Open, Resolving, server, core, history, Leave,
     Answered, Finish
<1>17. CASE Raise
  BY <1>17 DEF IInv, TransactionInv, Open, Waiting, Resolving, server, core, history,
     Raise, Answered
<1>18. CASE Lost
  BY <1>18 DEF TransactionInv, Lost, Gone
<1>19. CASE Close
  BY <1>19 DEF IInv, TransactionInv, Open, Resolving, server, core, history, Close, Ask
<1>20. CASE End
  BY <1>20 DEF IInv, TransactionInv, Open, Resolving, server, core, history, End,
     Answered
<1>21. QED
  BY <1>1, <1>2, <1>3, <1>4, <1>5, <1>6, <1>7, <1>8, <1>9, <1>10, <1>11, <1>12, <1>13,
     <1>14, <1>15, <1>16, <1>17, <1>18, <1>19, <1>20 DEF Next, Serve, Evaluate

\* Every step keeps the bounds of the episode.
LEMMA EpisodeInvStep ==
  ASSUME IInv, Next
  PROVE  EpisodeInv'
<1>1. CASE ServeReset
  BY <1>1 DEF IInv, EpisodeInv, evaluator, simulator, ServeReset
<1>2. CASE ServeAct
  BY <1>2 DEF IInv, EpisodeInv, evaluator, simulator, ServeAct
<1>3. CASE ServeCommit
  BY <1>3 DEF IInv, TransactionInv, EpisodeInv, Open, Resolving, evaluator, ServeCommit
<1>4. CASE ServeAbort
  BY <1>4 DEF IInv, TransactionInv, EpisodeInv, Open, Resolving, evaluator, ServeAbort
<1>5. CASE ServeClose
  BY <1>5 DEF IInv, EpisodeInv, evaluator, simulator, ServeClose
<1>6. CASE Die
  BY <1>6 DEF IInv, EpisodeInv, evaluator, simulator, Die
<1>7. CASE Start
  BY <1>7 DEF EpisodeInv, Start
<1>8. CASE Begin
  BY <1>8 DEF IInv, EpisodeInv, Begin, Answered
<1>9. CASE Act
  BY <1>9 DEF IInv, EpisodeInv, Act, Ask
<1>10. CASE Immovable
  BY <1>10 DEF EpisodeInv, Immovable
<1>11. CASE ReachHorizon
  BY <1>11 DEF IInv, EpisodeInv, Stepping, ReachHorizon, Finish
<1>12. CASE TakeAction
  BY <1>12 DEF IInv, EpisodeInv, Stepping, TakeAction, Answered, Ask
<1>13. CASE Move
  BY <1>13 DEF IInv, EpisodeInv, Stepping, Move, Ask
<1>14. CASE Hold
  BY <1>14 DEF IInv, EpisodeInv, Stepping, Hold, Ask
<1>15. CASE TakeCommit
  BY <1>15 DEF IInv, EpisodeInv, Stepping, TakeCommit, Answered, Finish
<1>16. CASE Leave
  BY <1>16 DEF IInv, EpisodeInv, Stepping, Leave, Answered, Finish
<1>17. CASE Raise
  BY <1>17 DEF EpisodeInv, Stepping, Raise
<1>18. CASE Lost
  BY <1>18 DEF EpisodeInv, Stepping, Lost
<1>19. CASE Close
  BY <1>19 DEF EpisodeInv, Stepping, Close, Ask
<1>20. CASE End
  BY <1>20 DEF EpisodeInv, Stepping, End
<1>21. QED
  BY <1>1, <1>2, <1>3, <1>4, <1>5, <1>6, <1>7, <1>8, <1>9, <1>10, <1>11, <1>12, <1>13,
     <1>14, <1>15, <1>16, <1>17, <1>18, <1>19, <1>20 DEF Next, Serve, Evaluate

\* Every step keeps what the policy knows of the simulator true.
LEMMA FeedbackInvStep ==
  ASSUME IInv, Next
  PROVE  FeedbackInv'
<1>1. CASE ServeReset
  <2>1. at = "resetting" /\ outcome = "none"
    BY <1>1 DEF IInv, PipeInv, EpisodeInv, ServeReset, Serves, Asked, Waiting
  <2>2. CASE policy' = FreshPolicy /\ durable' = FreshPolicy /\ accepted' = {}
    BY <1>1, <2>1, <2>2 DEF ServeReset, FeedbackInv, FreshPolicy, simulator
  <2>3. CASE policy' = Restored /\ call' = Refusal /\ UNCHANGED <<durable, accepted>>
    BY <1>1, <2>1, <2>3, RestoredIsDurable DEF ServeReset, FeedbackInv, Settled,
       Refusal, evaluator
  <2>4. QED
    BY <1>1, <2>2, <2>3 DEF ServeReset
<1>2. CASE ServeAct
  BY <1>2, ActSound DEF IInv, PipeInv, FeedbackInv, Settled, Asked, Waiting, evaluator,
     history, ServeAct, Serves, Acted, Refused
<1>3. CASE ServeCommit
  <2>1. at \in {"committing", "failing"} /\ call.applied \in BOOLEAN /\ pending # 0
        /\ (call.applied = TRUE <=> at = "committing" /\ outcome = "applied")
    BY <1>3 DEF IInv, PipeInv, ServeCommit, Serves, Asked, Waiting, Resolving
  <2>2. /\ TypeOK /\ policy'.reference = Executed(call.applied)
        /\ policy'.place = policy.place /\ policy'.terminal = Terminals(call.applied)
    BY <1>3, CommitSound DEF IInv
  <2>3. UNCHANGED <<at, outcome>>
    BY <1>3 DEF ServeCommit, evaluator, simulator
  <2>4. at' = "committing" =>
          \A a \in Arms : policy'.reference[a] # "none" => outcome' = "applied"
    BY <2>1, <2>2, <2>3 DEF Executed
  <2>5. at' = "committing" => (sent' = "command" <=> outcome' = "applied")
    BY <1>3, <2>1, <2>3 DEF ServeCommit
  <2>6. policy'.terminal \subseteq accepted'
    BY <1>3, <2>1 DEF ServeCommit, Terminals, Executed, IInv, FeedbackInv
  <2>7. durable' = policy' /\ pending' = 0
    BY <1>3 DEF ServeCommit
  <2>8. QED
    BY <2>1, <2>3, <2>4, <2>5, <2>6, <2>7 DEF FeedbackInv, Settled
<1>4. CASE ServeAbort
  <2>1. at \in {"leaving", "raising"} /\ UNCHANGED <<at, accepted, durable>>
    BY <1>4 DEF IInv, PipeInv, ServeAbort, Serves, Asked, Waiting, evaluator, simulator,
       history
  <2>2. policy'.terminal \subseteq accepted
    BY <1>4, RestoredIsDurable DEF ServeAbort
  <2>3. QED
    BY <2>1, <2>2 DEF IInv, FeedbackInv, Settled
<1>5. CASE ServeClose
  BY <1>5 DEF IInv, TransactionInv, FeedbackInv, history, ServeClose, Serves, Restored
<1>6. CASE Die
  BY <1>6, FreshTyped DEF FeedbackInv, Die, Gone
<1>7. CASE Start
  BY <1>7 DEF IInv, FeedbackInv, Settled, Resolving, core, history, Start, Ask, Request
<1>8. CASE Begin
  BY <1>8 DEF IInv, FeedbackInv, Settled, server, core, simulator, history, Begin,
     Answered
<1>9. CASE Act
  BY <1>9 DEF IInv, TypeOK, TransactionInv, FeedbackInv, ClockInv, Settled, Waiting,
     server, core, history, Act
<1>10. CASE Immovable
  BY <1>10 DEF IInv, FeedbackInv, Settled, core, history, Immovable
<1>11. CASE ReachHorizon
  BY <1>11 DEF IInv, TypeOK, TransactionInv, FeedbackInv, ClockInv, Settled, Waiting,
     server, core, simulator, history, ReachHorizon
<1>12. CASE TakeAction
  BY <1>12 DEF IInv, FeedbackInv, Settled, core, history, TakeAction, Ask
<1>13. CASE Move
  <2>1. /\ at' \in {"committing", "holding", "raising"}
        /\ at' = "committing" => call'.kind = "request"
        /\ UNCHANGED <<policy, granted, durable>>
    BY <1>13 DEF Move, Ask, Resolve, core
  <2>2. accepted \subseteq accepted'
    BY <1>13 DEF Move
  <2>3. at' = "committing" =>
          \A a \in granted : policy.reference[a] = "final" => a \in accepted'
    BY <1>13 DEF Move, Ask
  <2>4. QED
    BY <2>1, <2>2, <2>3 DEF IInv, FeedbackInv, Settled
<1>14. CASE Hold
  <2>1. /\ at' \in {"committing", "leaving", "raising"} /\ call'.kind = "request"
        /\ at' = "committing" => outcome' = "held"
        /\ UNCHANGED <<policy, durable, accepted>>
    BY <1>14 DEF Hold, Ask, Resolve, core, history
  <2>2. QED
    BY <2>1 DEF IInv, FeedbackInv, Settled
<1>15. CASE TakeCommit
  BY <1>15 DEF IInv, FeedbackInv, Settled, server, core, simulator, history, TakeCommit,
     Answered
<1>16. CASE Leave
  BY <1>16 DEF IInv, FeedbackInv, Settled, core, history, Leave, Finish
<1>17. CASE Raise
  BY <1>17 DEF IInv, FeedbackInv, Settled, core, history, Raise
<1>18. CASE Lost
  BY <1>18, FreshTyped DEF FeedbackInv, Lost, Gone
<1>19. CASE Close
  BY <1>19 DEF IInv, FeedbackInv, Settled, core, history, Close, Ask
<1>20. CASE End
  BY <1>20 DEF IInv, FeedbackInv, Settled, core, history, End
<1>21. QED
  BY <1>1, <1>2, <1>3, <1>4, <1>5, <1>6, <1>7, <1>8, <1>9, <1>10, <1>11, <1>12, <1>13,
     <1>14, <1>15, <1>16, <1>17, <1>18, <1>19, <1>20 DEF Next, Serve, Evaluate

\* Every step keeps the clocks in step.
LEMMA ClockInvStep ==
  ASSUME IInv, Next
  PROVE  ClockInv'
<1>1. CASE ServeReset
  <2>1. at = "resetting" /\ at' = at
    BY <1>1 DEF IInv, PipeInv, ServeReset, Serves, Asked, Waiting, evaluator
  <2>2. call'.kind = "answer" => policy'.records = 0 /\ tick' = 0
    BY <1>1 DEF ServeReset, Refusal, FreshPolicy
  <2>3. QED
    BY <2>1, <2>2 DEF ClockInv, Open, Resolving
<1>2. CASE ServeAct
  <2>1. at = "acting" /\ at' = at /\ TypeOK /\ call.kind = "request"
    BY <1>2 DEF IInv, PipeInv, ServeAct, Serves, Asked, Waiting, evaluator
  <2>2. CASE Acted
    BY <1>2, <2>1, <2>2 DEF ServeAct, Acted, IInv, ClockInv, evaluator
  <2>3. CASE Refused
    BY <1>2, <2>3 DEF ServeAct, Refused, Refusal, IInv, ClockInv, Open, evaluator
  <2>4. QED
    BY <1>2, <2>1, <2>2, <2>3, ActSound
<1>3. CASE ServeCommit
  <2>1. /\ at \in {"committing", "failing"} /\ call.kind = "request"
        /\ alive = TRUE /\ tick \in Nat
    BY <1>3 DEF IInv, TypeOK, PipeInv, ServeCommit, Serves, Asked, Waiting
  <2>2. /\ tick' = tick + 1 /\ policy'.records = policy.records
        /\ call'.kind = "answer" /\ UNCHANGED <<at, committed>>
    BY <1>3 DEF ServeCommit, Ticked, evaluator
  <2>3. tick = committed /\ policy.records = committed + 1
    BY <2>1 DEF IInv, ClockInv, Open, Resolving
  <2>4. QED
    BY <2>1, <2>2, <2>3 DEF ClockInv, Open
<1>4. CASE ServeAbort
  BY <1>4 DEF IInv, PipeInv, ClockInv, Open, Asked, Waiting, evaluator, ServeAbort,
     Serves, Answer
<1>5. CASE ServeClose
  BY <1>5 DEF ClockInv, ServeClose
<1>6. CASE Die
  BY <1>6 DEF ClockInv, Die, Gone
<1>7. CASE Start
  BY <1>7 DEF ClockInv, Open, Resolving, Start, Ask, Request
<1>8. CASE Begin
  BY <1>8 DEF IInv, EpisodeInv, ClockInv, Open, Resolving, server, core, Begin, Answered
<1>9. CASE Act
  BY <1>9 DEF IInv, ClockInv, Open, Resolving, server, core, Act, Ask, Request
<1>10. CASE Immovable
  BY <1>10 DEF IInv, PipeInv, ClockInv, Open, Waiting, Immovable
<1>11. CASE ReachHorizon
  BY <1>11 DEF IInv, PipeInv, ClockInv, Open, Waiting, ReachHorizon, Finish
<1>12. CASE TakeAction
  BY <1>12 DEF IInv, ClockInv, Open, server, core, TakeAction, Answered, Ask
<1>13. CASE Move
  BY <1>13 DEF IInv, ClockInv, Open, server, core, Move, Ask, Resolve
<1>14. CASE Hold
  BY <1>14 DEF IInv, ClockInv, Open, server, core, Hold, Ask, Resolve
<1>15. CASE TakeCommit
  BY <1>15 DEF IInv, ClockInv, Open, Resolving, server, core, TakeCommit, Answered,
     Finish
<1>16. CASE Leave
  BY <1>16 DEF ClockInv, Open, Resolving, Leave, Finish
<1>17. CASE Raise
  BY <1>17 DEF ClockInv, Open, Resolving, Raise
<1>18. CASE Lost
  BY <1>18 DEF ClockInv, Open, Resolving, Lost
<1>19. CASE Close
  BY <1>19 DEF ClockInv, Open, Resolving, Close, Ask
<1>20. CASE End
  BY <1>20 DEF ClockInv, Open, Resolving, End
<1>21. QED
  BY <1>1, <1>2, <1>3, <1>4, <1>5, <1>6, <1>7, <1>8, <1>9, <1>10, <1>11, <1>12, <1>13,
     <1>14, <1>15, <1>16, <1>17, <1>18, <1>19, <1>20 DEF Next, Serve, Evaluate

\* Every step keeps the scene on the clock of the evaluator.
LEMMA SceneInvStep ==
  ASSUME IInv, Next
  PROVE  SceneInv'
<1>1. CASE ServeReset
  BY <1>1 DEF IInv, SceneInv, evaluator, simulator, ServeReset
<1>2. CASE ServeAct
  BY <1>2 DEF IInv, SceneInv, evaluator, simulator, ServeAct
<1>3. CASE ServeCommit
  BY <1>3 DEF IInv, SceneInv, evaluator, simulator, ServeCommit
<1>4. CASE ServeAbort
  BY <1>4 DEF IInv, SceneInv, evaluator, simulator, ServeAbort
<1>5. CASE ServeClose
  BY <1>5 DEF IInv, SceneInv, evaluator, simulator, ServeClose
<1>6. CASE Die
  BY <1>6 DEF IInv, SceneInv, evaluator, simulator, Die
<1>7. CASE Start
  <2>1. scene' = NewScene /\ at' \in {"resetting", "close"} /\ committed' = 0
    BY <1>7 DEF Start, Ask
  <2>2. QED
    BY <2>1 DEF NewScene, SceneInv, Segments, Stepping
<1>8. CASE Begin
  BY <1>8 DEF IInv, SceneInv, Stepping, simulator, Begin, Answered
<1>9. CASE Act
  <2>1. /\ TypeOK /\ committed \in Nat /\ committed < Horizon
        /\ at = "loop" /\ at' = "acting" /\ committed' = committed
    BY <1>9 DEF IInv, Act, Ask, TypeOK
  <2>2. scene.asked = committed - 1 /\ scene.moved = Segments(committed - 1)
        /\ (scene.reached = TRUE <=> Motion > 0 /\ committed - 1 >= Trigger)
    BY <2>1 DEF IInv, SceneInv
  <2>3. scene' \in Intervened /\ scene.asked # committed
    BY <1>9, <2>1, <2>2 DEF Act
  <2>4. /\ scene'.asked = committed
           /\ scene'.reached = (scene.reached \/ (Motion > 0 /\ committed >= Trigger))
           /\ scene'.moved = IF Due THEN scene.moved \cup {committed} ELSE scene.moved
    BY <2>1, <2>3, Intervention
  <2>5. scene'.moved = Segments(committed)
    <3>1. CASE Motion > 0 /\ committed >= Trigger /\ committed < Trigger + Motion
      <4>1. Cardinality(scene.moved) < Motion
        BY <2>1, <2>2, <3>1, SegmentsCounted
      <4>2. Due
        BY <2>1, <2>2, <3>1, <4>1 DEF Due, Segments
      <4>3. QED
        BY <2>1, <2>2, <2>4, <3>1, <4>2 DEF Segments
    <3>2. CASE ~(Motion > 0 /\ committed >= Trigger /\ committed < Trigger + Motion)
      <4>1. ~Due
        BY <2>1, <2>2, <3>2, SegmentsCounted DEF Due
      <4>2. QED
        BY <2>1, <2>2, <2>4, <3>2, <4>1 DEF Segments
    <3>3. QED
      BY <3>1, <3>2
  <2>6. scene'.reached = TRUE <=> Motion > 0 /\ committed >= Trigger
    <3>1. scene'.reached <=> (scene.reached = TRUE \/ (Motion > 0 /\ committed >= Trigger))
      BY <2>4
    <3>2. QED
      BY <2>1, <2>2, <3>1
  <2>7. QED
    BY <2>1, <2>4, <2>5, <2>6 DEF SceneInv
<1>10. CASE Immovable
  BY <1>10 DEF IInv, SceneInv, Stepping, simulator, Immovable
<1>11. CASE ReachHorizon
  <2>1. /\ committed \in {scene.asked, scene.asked + 1} /\ UNCHANGED <<committed, scene>>
        /\ TypeOK /\ SceneInv
    BY <1>11 DEF IInv, TypeOK, SceneInv, ReachHorizon, simulator
  <2>2. at' = "start" \/ (at' = "refused" /\ ~scene.effective)
    BY <1>11, <2>1, Accounted DEF ReachHorizon, Finish
  <2>3. QED
    BY <2>1, <2>2 DEF SceneInv, Stepping
<1>12. CASE TakeAction
  BY <1>12 DEF IInv, SceneInv, Stepping, TakeAction, Answered, Ask
<1>13. CASE Move
  BY <1>13 DEF IInv, SceneInv, Stepping, Move, Ask
<1>14. CASE Hold
  BY <1>14 DEF IInv, SceneInv, Stepping, Hold, Ask
<1>15. CASE TakeCommit
  <2>1. /\ TypeOK /\ SceneInv /\ scene.asked = committed /\ committed \in Nat
        /\ committed' = committed + 1 /\ scene' = scene
    BY <1>15 DEF IInv, TypeOK, SceneInv, TakeCommit, Answered, Stepping, simulator
  <2>2. Finish(committed + 1) \/ at' = "loop"
    BY <1>15 DEF TakeCommit
  <2>3. at' \in {"start", "loop"} \/ (at' = "refused" /\ ~scene.effective)
    BY <2>1, <2>2, Accounted DEF Finish
  <2>4. QED
    BY <2>1, <2>3 DEF SceneInv, Stepping
<1>16. CASE Leave
  <2>1. /\ TypeOK /\ SceneInv /\ UNCHANGED scene
        /\ committed' \in {scene.asked, scene.asked + 1}
    BY <1>16 DEF IInv, SceneInv, Leave, Answered, Stepping, simulator
  <2>2. at' = "start" \/ (at' = "refused" /\ ~scene.effective)
    BY <1>16, <2>1, Accounted DEF Leave, Finish
  <2>3. QED
    BY <2>1, <2>2 DEF SceneInv, Stepping
<1>17. CASE Raise
  BY <1>17 DEF IInv, SceneInv, Stepping, simulator, Raise
<1>18. CASE Lost
  BY <1>18 DEF IInv, SceneInv, Stepping, simulator, Lost
<1>19. CASE Close
  BY <1>19 DEF IInv, SceneInv, Stepping, simulator, Close, Ask
<1>20. CASE End
  BY <1>20 DEF IInv, SceneInv, Stepping, simulator, End
<1>21. QED
  BY <1>1, <1>2, <1>3, <1>4, <1>5, <1>6, <1>7, <1>8, <1>9, <1>10, <1>11, <1>12, <1>13,
     <1>14, <1>15, <1>16, <1>17, <1>18, <1>19, <1>20 DEF Next, Serve, Evaluate

LEMMA IInvInit == Init => IInv
<1> SUFFICES ASSUME Init PROVE IInv
  OBVIOUS
<1>1. TypeOK
  BY FreshTyped DEF Init, TypeOK, Idle, NewScene
<1>2. SceneInv
  BY DEF Init, SceneInv, NewScene, Segments, Stepping
<1>3. PipeInv /\ TransactionInv /\ EpisodeInv /\ ClockInv
  BY DEF Init, PipeInv, TransactionInv, EpisodeInv, ClockInv, Idle, Waiting, Open
<1>4. FeedbackInv
  BY FreshTyped DEF Init, FeedbackInv, Settled
<1>5. QED
  BY <1>1, <1>2, <1>3, <1>4 DEF IInv

LEMMA IInvStep == IInv /\ [Next]_vars => IInv'
<1> SUFFICES ASSUME IInv, [Next]_vars PROVE IInv'
  OBVIOUS
<1>1. CASE Next
  BY <1>1, TypeStep, PipeInvStep, TransactionInvStep, EpisodeInvStep, FeedbackInvStep,
     ClockInvStep, SceneInvStep DEF IInv
<1>2. CASE UNCHANGED vars
  <2>1. UNCHANGED <<at, episode, committed, turn, call, alive, pending, id, tick, sent,
                    policy, snapshot, granted, outcome, scene, durable, accepted>>
    BY <1>2 DEF vars, evaluator, server, core, simulator, history
  <2>2. TypeOK'
    BY <2>1 DEF IInv, TypeOK
  <2>3. PipeInv' /\ EpisodeInv'
    BY <2>1 DEF IInv, PipeInv, EpisodeInv
  <2>4. SceneInv'
    BY <2>1 DEF IInv, SceneInv
  <2>5. TransactionInv' /\ FeedbackInv' /\ ClockInv'
    BY <2>1 DEF IInv, TransactionInv, FeedbackInv, ClockInv, Open, Settled
  <2>6. QED
    BY <2>2, <2>3, <2>4, <2>5 DEF IInv
<1>3. QED
  BY <1>1, <1>2

\* The invariant holds of every behaviour.
LEMMA Invariance == Spec => []IInv
BY IInvInit, IInvStep, PTL DEF Spec

\* Every variable has its type, whatever becomes of the worker, of single actions and of
\* the scene: in particular no transaction is pending twice, and no step is counted beyond
\* the horizon (policy_server._act, direct_evaluate._run_episode).
THEOREM TypesAreCorrect == Spec => []TypeOK
<1>1. IInv => TypeOK
  BY DEF IInv
<1>2. QED
  BY <1>1, Invariance, PTL

\* What is left of an action that was aborted, refused or lost with its worker is exactly
\* what the last commit or reset made durable (policy.abort, _snapshot and _restore).
THEOREM RollbacksAreExact == Spec => []RollbackIsExact
<1>1. IInv => RollbackIsExact
  BY DEF IInv, TransactionInv, RollbackIsExact
<1>2. QED
  BY <1>1, Invariance, PTL

\* The policy never takes a reference for executed, nor a terminal action for done, that
\* the simulator has not taken (policy.commit, policy_server._resolve).
THEOREM FeedbackIsAlwaysTrue == Spec => []FeedbackIsTrue
<1>1. IInv => FeedbackIsTrue
  BY DEF IInv, TypeOK, FeedbackInv, Settled, FeedbackIsTrue, Complete
<1>2. QED
  BY <1>1, Invariance, PTL

\* The clocks of evaluator, server and policy agree before each action, and the scene
\* moves on that clock, so that the audit of an episode refuses no motion that was
\* effective (direct_evaluate._run_episode, _finalize_episode_intervention_status).
THEOREM ClocksAlwaysAgree == Spec => []ClocksAgree
<1>1. IInv => ClocksAgree
  BY DEF IInv, TypeOK, ClockInv, SceneInv, Segments, ClocksAgree
<1>2. QED
  BY <1>1, Invariance, PTL
================================================================================
