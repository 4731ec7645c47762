------------------------------ MODULE FormalLaunch ------------------------------
(***************************************************************************)
(* The launcher of the formal evaluation matrix and the worker processes   *)
(* it starts.  Launchers and workers share nothing but files: the result   *)
(* of a shard, the lock beside it, the merged result of a cell and the     *)
(* lock of the launch directory.  A launcher may fail, be interrupted or   *)
(* be killed at any step, a worker may die at any step, several launchers  *)
(* may be started, and the repository may move to another commit under     *)
(* all of them.                                                            *)
(*                                                                         *)
(* Files are durable, and the steps of the processes interleave at the     *)
(* file operations.  A launcher that is killed is not started again, a     *)
(* launcher that ends in any other way is.  What an operator tidies up     *)
(* between launches is external: only locks whose owner is dead and        *)
(* results that were never identified.                                     *)
(***************************************************************************)
EXTENDS Integers, FiniteSetsExt, Functions, Sequences

CONSTANTS Section,     \* experiment of each cell, cells in the order of build_cells
          Episodes,    \* number of episodes of each cell
          ShardSize,
          Gpus,        \* the GPUs of a launch, in order
          Node,        \* NUMA node of each GPU
          Cores,       \* number of physical cores of a node
          Workers,     \* number of lanes of a launch
          Launchers,   \* launcher processes
          Finished,    \* the cells an earlier launch has finished, at commit 1
          Retained,    \* pairs of a cell and the old commit its result may keep
          LastCommit,  \* bound: the commits are 1 .. LastCommit
          MaxKilled,   \* bound: how many launchers are killed
          NoOne        \* holder of a free lock

Cells == DOMAIN Section
Commits == 1 .. LastCommit
Lanes == 0 .. Workers - 1

ASSUME SizesArePositive ==
  /\ Section \in Seq(STRING) /\ Episodes \in [DOMAIN Section -> Nat \ {0}]
  /\ {ShardSize, Workers, Cores, LastCommit} \subseteq Nat \ {0}
  /\ Gpus \in Seq(DOMAIN Node) /\ Gpus # <<>>
  /\ NoOne \notin Launchers

-----------------------------------------------------------------------------
\* The queue of shards and the lanes.

Shards == UNION {{[cell |-> c, round |-> r] :
                    r \in 0 .. (Episodes[c] - 1) \div ShardSize} : c \in DOMAIN Section}

Indices(s) == {i \in 0 .. Episodes[s.cell] - 1 : i \div ShardSize = s.round}

ShardsOf(c) == {s \in Shards : s.cell = c}

\* The queue runs round robin over the cells.
Before(s, t) == \/ s.round < t.round
                \/ s.round = t.round /\ s.cell < t.cell

First(Q) == CHOOSE s \in Q : \A t \in Q \ {s} : Before(s, t)

NodeOf(lane) == Node[Gpus[(lane % Len(Gpus)) + 1]]

\* The lanes of the same node, and how many of them come before a lane.
PeersOf(lane) == {p \in Lanes : NodeOf(p) = NodeOf(lane)}
PlaceOf(lane) == Cardinality({p \in PeersOf(lane) : p < lane})

\* Every lane gets consecutive cores of the node of its GPU; the first lanes
\* of a node get one more when the cores do not divide evenly.
CoresOf(lane) ==
  LET place == PlaceOf(lane)
      width == Cores \div Cardinality(PeersOf(lane))
      extra == Cores % Cardinality(PeersOf(lane))
      first == place * width + Min({place, extra})
  IN {NodeOf(lane)} \X
       (first .. first + width + (IF place < extra THEN 1 ELSE 0) - 1)

-----------------------------------------------------------------------------
Absent == 0        \* there is no such file
Unmarked == -1     \* the evaluator has written the result, run_cell not yet its identity

VARIABLES
  head,        \* the commit of the worktree
  result,      \* result file of each shard: Absent, Unmarked, or the commit it names
  lock,        \* who created the lock file of each shard, or NoOne
  published,   \* merged result of each cell: Absent, or the commit it names
  owner,       \* who created execute.lock, or NoOne
  at,          \* where each launcher is
  commit,      \* the commit each launcher found in its preflight
  asked,       \* the cells of each launcher's section
  pending,     \* the cells each launcher has still to publish
  queue,       \* the shards each launcher has still to start
  lane,        \* the lane of each shard a launcher is running
  worker,      \* the stage of the worker process of each launcher and shard
  completed    \* whether the last launch of each launcher has reported success

files == <<result, lock, published, owner>>
launcher == <<at, commit, asked, pending, queue, lane, completed>>
vars == <<head, files, launcher, worker>>

Places == {"idle", "scanning", "acquiring", "running", "merging", "killed"}
Holding == {"locked", "evaluating", "written"}
Live == {"booting", "looked", "marking"} \cup Holding
Exited == {"passed", "failed"}
NoLanes == [s \in {} |-> 0]

Init ==
  /\ head = 1
  /\ result = [s \in Shards |-> IF s.cell \in Finished THEN 1 ELSE Absent]
  /\ lock = [s \in Shards |-> NoOne]
  /\ published = [c \in Cells |-> IF c \in Finished THEN 1 ELSE Absent]
  /\ owner = NoOne
  /\ at = [l \in Launchers |-> "idle"]
  /\ commit = [l \in Launchers |-> 1]
  /\ asked = [l \in Launchers |-> {}]
  /\ pending = [l \in Launchers |-> {}]
  /\ queue = [l \in Launchers |-> {}]
  /\ lane = [l \in Launchers |-> NoLanes]
  /\ worker = [l \in Launchers |-> [s \in Shards |-> "none"]]
  /\ completed = [l \in Launchers |-> FALSE]

-----------------------------------------------------------------------------
\* Worker processes: run_cell, and the evaluator it calls.

\* A process that nobody waits for any more leaves no trace when it exits.
Goto(l, s, stage) ==
  worker' = [worker EXCEPT ![l][s] =
               IF stage \in Exited /\ at[l] = "killed" THEN "none" ELSE stage]

\* reserve_output looks for the result, creates the lock, and looks again.
Look(l, s) == /\ worker[l][s] = "booting"
              /\ Goto(l, s, IF result[s] = Absent THEN "looked" ELSE "failed")
              /\ UNCHANGED files

Lock(l, s) == /\ worker[l][s] = "looked"
              /\ IF lock[s] = NoOne
                 THEN lock' = [lock EXCEPT ![s] = l] /\ Goto(l, s, "locked")
                 ELSE UNCHANGED lock /\ Goto(l, s, "failed")
              /\ UNCHANGED <<result, published, owner>>

LookOnce(l, s) == /\ worker[l][s] = "locked"
                  /\ Goto(l, s, "evaluating")
                  /\ UNCHANGED files

LookAgain(l, s) ==
  /\ worker[l][s] = "locked"
  /\ IF result[s] = Absent
     THEN UNCHANGED lock /\ Goto(l, s, "evaluating")
     ELSE lock' = [lock EXCEPT ![s] = NoOne] /\ Goto(l, s, "failed")
  /\ UNCHANGED <<result, published, owner>>

\* The evaluator writes its result after the last episode.
Write(l, s) == /\ worker[l][s] = "evaluating"
               /\ result' = [result EXCEPT ![s] = Unmarked]
               /\ Goto(l, s, "written")
               /\ UNCHANGED <<lock, published, owner>>

Unlock(l, s) == /\ worker[l][s] = "written"
                /\ lock' = [lock EXCEPT ![s] = NoOne]
                /\ Goto(l, s, "marking")
                /\ UNCHANGED <<result, published, owner>>

\* run_cell adds the identity of the result, with the commit that HEAD is now.
Mark(l, s) ==
  /\ worker[l][s] = "marking"
  /\ IF result[s] = Absent
     THEN UNCHANGED result /\ Goto(l, s, "failed")
     ELSE result' = [result EXCEPT ![s] = head] /\ Goto(l, s, "passed")
  /\ UNCHANGED <<lock, published, owner>>

Work(l, s) == /\ \/ Look(l, s) \/ Lock(l, s) \/ LookAgain(l, s)
                 \/ Write(l, s) \/ Unlock(l, s) \/ Mark(l, s)
              /\ UNCHANGED <<head, launcher>>

\* An episode raises: the reservation is given back on the way out.
Raise(l, s) == /\ worker[l][s] = "evaluating"
               /\ lock' = [lock EXCEPT ![s] = NoOne]
               /\ Goto(l, s, "failed")
               /\ UNCHANGED <<head, result, published, owner, launcher>>

\* The process is lost, as by a crash of the simulator: nothing is given back.
Die(l, s) == /\ worker[l][s] \in Live
             /\ Goto(l, s, "failed")
             /\ UNCHANGED <<head, files, launcher>>

-----------------------------------------------------------------------------
\* The launcher.

Sections == {"all"} \cup Range(Section)
Selected(x) == {c \in Cells : x \in {"all", Section[c]}}

Valid(s, k) == result[s] = k

Available(c, k) == published[c] = k \/ <<c, published[c]>> \in Retained

Succeed(l) == /\ at' = [at EXCEPT ![l] = "idle"]
              /\ completed' = [completed EXCEPT ![l] = TRUE]

\* A launch that fails keeps none of its variables.
Fail(l) == /\ at' = [at EXCEPT ![l] = "idle"]
           /\ commit' = [commit EXCEPT ![l] = 1]
           /\ asked' = [asked EXCEPT ![l] = {}]
           /\ pending' = [pending EXCEPT ![l] = {}]
           /\ queue' = [queue EXCEPT ![l] = {}]
           /\ lane' = [lane EXCEPT ![l] = NoLanes]
           /\ UNCHANGED completed

PreflightByPresence(l, x) ==
  LET missing == {c \in Selected(x) : published[c] = Absent} IN
  /\ at[l] = "idle"
  /\ commit' = [commit EXCEPT ![l] = head]
  /\ asked' = [asked EXCEPT ![l] = Selected(x)]
  /\ IF missing = {}
     THEN Succeed(l) /\ UNCHANGED pending
     ELSE /\ at' = [at EXCEPT ![l] = "scanning"]
          /\ pending' = [pending EXCEPT ![l] = missing]
          /\ completed' = [completed EXCEPT ![l] = FALSE]
  /\ UNCHANGED <<head, files, queue, lane, worker>>

\* A launch begins only when every result of its section is acceptable.
Preflight(l, x) ==
  LET missing == {c \in Selected(x) : published[c] = Absent} IN
  /\ at[l] = "idle"
  /\ \A c \in Selected(x) \ missing : Available(c, head)
  /\ commit' = [commit EXCEPT ![l] = head]
  /\ asked' = [asked EXCEPT ![l] = Selected(x)]
  /\ IF missing = {}
     THEN Succeed(l) /\ UNCHANGED pending
     ELSE /\ at' = [at EXCEPT ![l] = "scanning"]
          /\ pending' = [pending EXCEPT ![l] = missing]
          /\ completed' = [completed EXCEPT ![l] = FALSE]
  /\ UNCHANGED <<head, files, queue, lane, worker>>

\* Finished shards are kept, and a lock or a foreign result stops the launch.
Scan(l) ==
  LET mine == {s \in Shards : s.cell \in pending[l]}
      todo == {s \in mine : result[s] = Absent}
  IN /\ at[l] = "scanning"
     /\ IF /\ \A s \in mine : lock[s] = NoOne
           /\ \A s \in mine \ todo : Valid(s, commit[l])
        THEN /\ at' = [at EXCEPT ![l] = "acquiring"]
             /\ queue' = [queue EXCEPT ![l] = todo]
             /\ UNCHANGED <<commit, asked, pending, lane, completed>>
        ELSE Fail(l)
     /\ UNCHANGED <<head, files, worker>>

Acquire(l) ==
  /\ at[l] = "acquiring"
  /\ IF owner = NoOne
     THEN /\ owner' = l
          /\ at' = [at EXCEPT ![l] = "running"]
          /\ UNCHANGED <<commit, asked, pending, queue, lane, completed>>
     ELSE Fail(l) /\ UNCHANGED owner
  /\ UNCHANGED <<head, result, lock, published, worker>>

StartFromOne(l) ==
  LET s == First(queue[l]) IN
  /\ at[l] = "running"
  /\ queue[l] # {}
  /\ Cardinality(DOMAIN lane[l]) < Workers
  /\ queue' = [queue EXCEPT ![l] = @ \ {s}]
  /\ lane' = [lane EXCEPT ![l] =
                [t \in DOMAIN @ \cup {s} |-> IF t = s THEN Cardinality(DOMAIN @) + 1 ELSE @[t]]]
  /\ worker' = [worker EXCEPT ![l][s] = "booting"]
  /\ UNCHANGED <<head, files, at, commit, asked, pending, completed>>

Start(l) ==
  LET free == Lanes \ Range(lane[l])
      s    == First(queue[l])
  IN /\ at[l] = "running"
     /\ queue[l] # {}
     /\ free # {}
     /\ queue' = [queue EXCEPT ![l] = @ \ {s}]
     /\ lane' = [lane EXCEPT ![l] =
                   [t \in DOMAIN @ \cup {s} |-> IF t = s THEN Min(free) ELSE @[t]]]
     /\ worker' = [worker EXCEPT ![l][s] = "booting"]
     /\ UNCHANGED <<head, files, at, commit, asked, pending, completed>>

AbandonRunning(l) == /\ owner' = NoOne
                     /\ Fail(l)
                     /\ UNCHANGED <<head, result, lock, published, worker>>

\* Whatever goes wrong in the loop ends all its workers and gives the lock up.
Abandon(l) ==
  /\ worker' = [worker EXCEPT ![l] = [s \in Shards |-> "none"]]
  /\ owner' = NoOne
  /\ Fail(l)
  /\ UNCHANGED <<head, result, lock, published>>

PollPatiently(l, s) ==
  /\ at[l] = "running"
  /\ s \in DOMAIN lane[l]
  /\ worker[l][s] = "passed"
  /\ lane' = [lane EXCEPT ![l] = Restrict(@, DOMAIN @ \ {s})]
  /\ worker' = [worker EXCEPT ![l][s] = "none"]
  /\ UNCHANGED <<head, files, at, commit, asked, pending, queue, completed>>

\* A worker has exited with code 0 and its result is the shard's at our commit.
Poll(l, s) ==
  /\ at[l] = "running"
  /\ s \in DOMAIN lane[l]
  /\ worker[l][s] \in Exited
  /\ IF worker[l][s] = "passed" /\ Valid(s, commit[l])
     THEN /\ lane' = [lane EXCEPT ![l] = Restrict(@, DOMAIN @ \ {s})]
          /\ worker' = [worker EXCEPT ![l][s] = "none"]
          /\ UNCHANGED <<head, files, at, commit, asked, pending, queue,
                          completed>>
     ELSE Abandon(l)

\* The lock of the launch is given up before the cells are merged.
Drain(l) == /\ at[l] = "running"
            /\ queue[l] = {} /\ lane[l] = NoLanes
            /\ owner' = NoOne
            /\ at' = [at EXCEPT ![l] = "merging"]
            /\ UNCHANGED <<head, result, lock, published, commit, asked, pending,
                           queue, lane, completed, worker>>

Merge(l) ==
  LET c == Min(pending[l]) IN
  /\ at[l] = "merging"
  /\ IF /\ \A s \in ShardsOf(c) : Valid(s, commit[l])
        /\ UNION {Indices(s) : s \in ShardsOf(c)} = 0 .. Episodes[c] - 1
     THEN /\ published' = [published EXCEPT ![c] = commit[l]]
          /\ pending' = [pending EXCEPT ![l] = @ \ {c}]
          /\ IF pending[l] = {c} THEN Succeed(l) ELSE UNCHANGED <<at, completed>>
          /\ UNCHANGED <<commit, asked, queue, lane>>
     ELSE Fail(l) /\ UNCHANGED published
  /\ UNCHANGED <<head, result, lock, owner, worker>>

Proceed(l) == \/ Scan(l) \/ Acquire(l) \/ Start(l) \/ Drain(l) \/ Merge(l)
              \/ \E s \in Shards : Poll(l, s)

\* An exception or an interrupt from outside.  Between the creation of the lock and the
\* loop nothing gives the lock back.
Interrupt(l) ==
  \/ at[l] = "running" /\ Abandon(l)
  \/ /\ at[l] = "acquiring" /\ owner = NoOne /\ owner' = l
     /\ Fail(l) /\ UNCHANGED <<head, result, lock, published, worker>>
  \/ /\ at[l] \in {"scanning", "acquiring", "merging"}
     /\ Fail(l) /\ UNCHANGED <<head, files, worker>>

\* The launcher is killed: its lock stays and its workers go on without it.
Kill(l) ==
  /\ at[l] = "running"
  /\ Quantify(Launchers, LAMBDA m : at[m] = "killed") < MaxKilled
  /\ at' = [at EXCEPT ![l] = "killed"]
  /\ commit' = [commit EXCEPT ![l] = 1]
  /\ asked' = [asked EXCEPT ![l] = {}]
  /\ pending' = [pending EXCEPT ![l] = {}]
  /\ queue' = [queue EXCEPT ![l] = {}]
  /\ lane' = [lane EXCEPT ![l] = NoLanes]
  /\ worker' = [worker EXCEPT ![l] =
                  [s \in Shards |-> IF @[s] \in Live THEN @[s] ELSE "none"]]
  /\ UNCHANGED <<head, files, completed>>

-----------------------------------------------------------------------------
\* The surroundings: the repository and the operator.

MoveHead == /\ head < LastCommit
            /\ head' = head + 1
            /\ UNCHANGED <<files, launcher, worker>>

RemoveLaunchLock == /\ \E l \in Launchers : owner = l /\ at[l] # "running"
                    /\ owner' = NoOne
                    /\ UNCHANGED <<head, result, lock, published, launcher, worker>>

TidyShard(s) == /\ \A l \in Launchers : worker[l][s] \notin Live
                /\ lock[s] # NoOne \/ result[s] = Unmarked
                /\ lock' = [lock EXCEPT ![s] = NoOne]
                /\ result' = [result EXCEPT ![s] = IF @ = Unmarked THEN Absent ELSE @]
                /\ UNCHANGED <<head, published, owner, launcher, worker>>

Next == \/ \E l \in Launchers :
             \/ Proceed(l) \/ Interrupt(l) \/ Kill(l)
             \/ \E x \in Sections : Preflight(l, x)
             \/ \E s \in Shards : Work(l, s) \/ Raise(l, s) \/ Die(l, s)
        \/ MoveHead \/ RemoveLaunchLock
        \/ \E s \in Shards : TidyShard(s)

\* The loop of a launcher goes on, and a worker process ends its evaluation.
Fairness == \A l \in Launchers : /\ WF_vars(Proceed(l))
                                 /\ \A s \in Shards : WF_vars(Work(l, s))

Spec == Init /\ [][Next]_vars /\ Fairness

-----------------------------------------------------------------------------
\* The variables hold values of their types.
TypeOK ==
  /\ head \in Commits
  /\ result \in [Shards -> {Absent, Unmarked} \cup Commits]
  /\ lock \in [Shards -> Launchers \cup {NoOne}]
  /\ published \in [Cells -> {Absent} \cup Commits]
  /\ owner \in Launchers \cup {NoOne}
  /\ at \in [Launchers -> Places]
  /\ commit \in [Launchers -> Commits]
  /\ asked \in [Launchers -> SUBSET Cells]
  /\ pending \in [Launchers -> SUBSET Cells]
  /\ queue \in [Launchers -> SUBSET Shards]
  /\ \A l \in Launchers : /\ DOMAIN lane[l] \subseteq Shards
                          /\ Range(lane[l]) \subseteq Lanes
  /\ worker \in [Launchers -> [Shards -> {"none"} \cup Live \cup Exited]]
  /\ completed \in [Launchers -> BOOLEAN]

\* A launch that reports success has a result for every cell of its section,
\* of its own commit or of one the retention manifest names; later launches,
\* failures and commits do not take that away (execute, launch.py:896-1066).
SuccessIsComplete ==
  \A l \in Launchers : completed[l] =>
    \A c \in asked[l] : Available(c, commit[l])

\* A launch that has ended, however it ended, has left no process behind, and
\* while it runs every process has a lane of its own and shares no core with
\* another (_terminate, launch.py:864; build_lane_specs, resources.py:54).
\* Only a launcher that was killed leaves its workers running.
WorkersHaveLanes ==
  \A l \in Launchers : at[l] # "killed" =>
    /\ \A s \in Shards : worker[l][s] # "none" => s \in DOMAIN lane[l]
    /\ at[l] # "running" => lane[l] = NoLanes
    /\ \A s, t \in DOMAIN lane[l] :
         s # t => CoresOf(lane[l][s]) \cap CoresOf(lane[l][t]) = {}

\* What the files show implements the matrix: a result counts from the moment
\* it carries its identity.  Evidence of a shard and the result of a cell are
\* never replaced, whatever launchers and orphaned workers do, and a cell is
\* published from evidence of one commit that covers all its episodes.
Matrix == INSTANCE FormalMatrix
            WITH Episodes <- [c \in Cells |-> 0 .. Episodes[c] - 1],
                 CellOf   <- [s \in Shards |-> s.cell],
                 Covered  <- [s \in Shards |-> Indices(s)],
                 Nothing  <- Absent,
                 evidence <- [s \in Shards |->
                                IF result[s] = Unmarked THEN Absent ELSE result[s]],
                 matrix   <- published

MatrixSpec == Matrix!Spec

\* Every launch ends: a failing worker, a foreign result or a lost lane cannot
\* keep the loop waiting for ever (launch.py:1004-1039).
LaunchEnds ==
  \A l \in Launchers : at[l] # "idle" ~> at[l] \in {"idle", "killed"}
=================================================================================
