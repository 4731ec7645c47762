--------------------------- MODULE FormalLaunchProofs ---------------------------
(***************************************************************************)
(* Theorems about FormalLaunch for any matrix, shards, lanes, machine and  *)
(* launchers, for any number of commits and of launchers killed.           *)
(*                                                                         *)
(* The result of a shard is written under its lock, which its worker holds *)
(* from the second look to the write even when the launcher is gone: so a  *)
(* result that names a commit is never replaced, and a published cell      *)
(* keeps the evidence it was published from.  A launch accounts for each   *)
(* cell of its section: it is published acceptably, or still pending.      *)
(***************************************************************************)
EXTENDS FormalLaunch, FiniteSetTheorems, WellFoundedInduction, TLAPS

-----------------------------------------------------------------------------
\* What every reachable state satisfies.

\* The ways to give lanes to some of the shards.
LaneFunctions == UNION {[D -> Lanes] : D \in SUBSET Shards}

LanesTyped == lane \in [Launchers -> LaneFunctions]

\* A worker that evaluates a shard holds its lock, and only one worker has a result
\* that is not identified yet.
ReservedAt(s) ==
  /\ \A l \in Launchers :
       /\ worker[l][s] \in Holding => lock[s] = l
       /\ worker[l][s] = "evaluating" => result[s] = Absent
       /\ worker[l][s] \in {"written", "marking"} => result[s] = Unmarked
  /\ \A l, m \in Launchers :
       /\ worker[l][s] \in {"written", "marking"}
       /\ worker[m][s] \in {"written", "marking"}
       => l = m

Reserved == \A s \in Shards : ReservedAt(s)

\* The workers of a launcher have the lanes it has given away, each to one of them.
Laned ==
  \A l \in Launchers :
    /\ at[l] # "killed" => \A s \in Shards : worker[l][s] # "none" => s \in DOMAIN lane[l]
    /\ at[l] # "running" => lane[l] = NoLanes
    /\ \A s, t \in DOMAIN lane[l] : lane[l][s] = lane[l][t] => s = t

Settled(l, c) == published[c] # Absent /\ Available(c, commit[l])

\* The cells a launch has not to publish any more are published acceptably.
Accounted ==
  \A l \in Launchers :
    /\ at[l] \notin {"idle", "killed"} =>
         /\ completed[l] = FALSE
         /\ pending[l] # {}
         /\ \A c \in asked[l] \ pending[l] : Settled(l, c)
    /\ completed[l] => \A c \in asked[l] : Settled(l, c)

\* A published cell has evidence of its commit for each of its shards.
Evident ==
  \A c \in Cells : published[c] # Absent =>
    \A s \in ShardsOf(c) : result[s] = published[c]

IInv ==
  /\ TypeOK
  /\ LanesTyped
  /\ Reserved
  /\ Laned
  /\ Accounted
  /\ Evident

-----------------------------------------------------------------------------
\* The steps of the worker processes and of the launchers.

WorkerStep(l, s) == Work(l, s) \/ Raise(l, s) \/ Die(l, s)

LauncherStep(l) == Proceed(l) \/ Interrupt(l) \/ Kill(l) \/ \E x \in Sections : Preflight(l, x)

Surroundings == MoveHead \/ RemoveLaunchLock \/ \E s \in Shards : TidyShard(s)

LEMMA Steps ==
  ASSUME Next
  PROVE  \/ \E l \in Launchers, s \in Shards : WorkerStep(l, s)
         \/ \E l \in Launchers : LauncherStep(l)
         \/ Surroundings
BY DEF Next, WorkerStep, LauncherStep, Surroundings

LEMMA Constants == /\ Workers \in Nat \ {0} /\ LastCommit \in Nat \ {0}
                   /\ ShardSize \in Nat \ {0} /\ Cores \in Nat \ {0}
                   /\ Episodes \in [Cells -> Nat \ {0}]
                   /\ NoOne \notin Launchers /\ Cells \subseteq Nat
BY SizesArePositive DEF Cells

\* A set of naturals has a least element.
LEMMA LeastNatural ==
  ASSUME NEW S \in SUBSET Nat, S # {}
  PROVE  Min(S) \in S /\ \A x \in S : Min(S) <= x
<1> DEFINE Below == {p \in Nat \X Nat : p[1] < p[2]}
<1>1. IsWellFoundedOn(Below, Nat)
  BY NatLessThanWellFounded DEF OpToRel
<1>2. PICK x \in S : \A y \in S : ~ (<<y, x>> \in Below)
  BY <1>1, WFMin
<1>3. \A y \in S : ~ (y < x)
  BY <1>2
<1>4. \A y \in S : x <= y
  BY <1>3
<1>5. QED
  BY <1>4 DEF Min

LEMMA ShardFields ==
  ASSUME NEW s \in Shards
  PROVE  s = [cell |-> s.cell, round |-> s.round] /\ s.cell \in Cells /\ s.round \in Nat
BY DEF Shards, Cells

\* The queue has a first shard.
LEMMA FirstShard ==
  ASSUME NEW Q \in SUBSET Shards, Q # {}
  PROVE  First(Q) \in Q
<1> DEFINE rounds == {s.round : s \in Q}
           least == Min(rounds)
           cells == {s.cell : s \in {t \in Q : t.round = least}}
<1>1. rounds \in SUBSET Nat /\ rounds # {}
  BY ShardFields
<1>2. least \in rounds /\ \A r \in rounds : least <= r
  BY <1>1, LeastNatural
<1>3. cells \in SUBSET Nat /\ cells # {}
  <2>1. PICK s \in Q : s.round = least
    BY <1>2
  <2>2. s.cell \in cells
    BY <2>1
  <2>3. cells \subseteq Nat
    BY ShardFields, Constants
  <2>4. QED
    BY <2>2, <2>3
<1>4. PICK s \in Q : s.round = least /\ s.cell = Min(cells)
  <2> HIDE DEF least
  <2>1. Min(cells) \in cells
    BY <1>3, LeastNatural
  <2>2. QED
    BY <2>1
<1>5. ASSUME NEW t \in Q \ {s} PROVE Before(s, t)
  <2>1. s.round <= t.round
    BY <1>2, <1>4
  <2>2. CASE s.round = t.round
    <3>1. s.cell <= t.cell
      <4>1. t.cell \in cells
        BY <1>4, <2>2
      <4>2. QED
        BY <1>3, <1>4, <4>1, LeastNatural
    <3>2. s.cell # t.cell
      BY <1>5, <2>2, ShardFields
    <3>3. QED
      BY <2>2, <3>1, <3>2, ShardFields, Constants DEF Before
  <2>3. QED
    BY <2>1, <2>2, ShardFields DEF Before
<1>6. QED
  BY <1>5 DEF First

\* Every cell has a shard.
LEMMA CellsHaveShards ==
  ASSUME NEW c \in Cells
  PROVE  ShardsOf(c) # {}
<1>1. PICK last \in Nat : last = Episodes[c] - 1
  BY Constants
<1>2. last \div ShardSize \in Nat
  BY <1>1, Constants
<1>3. 0 \in 0 .. (Episodes[c] - 1) \div ShardSize
  BY <1>1, <1>2
<1>4. [cell |-> c, round |-> 0] \in Shards
  BY <1>3 DEF Shards, Cells
<1>5. QED
  BY <1>4 DEF ShardsOf

\* A worker goes to another stage and leaves what the launchers keep alone.
LEMMA WorkerSteps ==
  ASSUME NEW l \in Launchers, NEW s \in Shards, WorkerStep(l, s)
  PROVE  /\ UNCHANGED <<head, published, owner, launcher>>
         /\ worker[l][s] \in Live
         /\ \E stage \in Live \cup Exited : Goto(l, s, stage)
<1> USE DEF Live, Holding, Exited, files
<1>1. CASE Raise(l, s)
  BY <1>1 DEF Raise
<1>2. CASE Die(l, s)
  BY <1>2 DEF Die
<1>3. CASE Look(l, s) /\ UNCHANGED <<head, launcher>>
  BY <1>3 DEF Look
<1>4. CASE Lock(l, s) /\ UNCHANGED <<head, launcher>>
  BY <1>4 DEF Lock
<1>5. CASE LookAgain(l, s) /\ UNCHANGED <<head, launcher>>
  BY <1>5 DEF LookAgain
<1>6. CASE Write(l, s) /\ UNCHANGED <<head, launcher>>
  BY <1>6 DEF Write
<1>7. CASE Unlock(l, s) /\ UNCHANGED <<head, launcher>>
  BY <1>7 DEF Unlock
<1>8. CASE Mark(l, s) /\ UNCHANGED <<head, launcher>>
  BY <1>8 DEF Mark
<1>9. QED
  BY <1>1, <1>2, <1>3, <1>4, <1>5, <1>6, <1>7, <1>8 DEF WorkerStep, Work

LEMMA Going ==
  ASSUME TypeOK, NEW l \in Launchers, NEW s \in Shards, NEW stage \in Live \cup Exited,
         Goto(l, s, stage)
  PROVE  /\ worker' \in [Launchers -> [Shards -> {"none"} \cup Live \cup Exited]]
         /\ worker'[l][s] \in {stage, "none"}
         /\ at[l] # "killed" => worker'[l][s] = stage
         /\ stage \in Live => worker'[l][s] = stage
         /\ \A m \in Launchers, t \in Shards :
              m # l \/ t # s => worker'[m][t] = worker[m][t]
BY DEF Goto, TypeOK, Live, Holding, Exited

\* What the launchers keep of a launch.
LaunchTyped ==
  /\ at \in [Launchers -> Places]
  /\ commit \in [Launchers -> Commits]
  /\ asked \in [Launchers -> SUBSET Cells]
  /\ pending \in [Launchers -> SUBSET Cells]
  /\ queue \in [Launchers -> SUBSET Shards]
  /\ LanesTyped
  /\ completed \in [Launchers -> BOOLEAN]

WorkersTyped == worker \in [Launchers -> [Shards -> {"none"} \cup Live \cup Exited]]

Others(l) ==
  \A m \in Launchers \ {l} :
    /\ worker'[m] = worker[m] /\ at'[m] = at[m] /\ commit'[m] = commit[m]
    /\ asked'[m] = asked[m] /\ pending'[m] = pending[m] /\ queue'[m] = queue[m]
    /\ lane'[m] = lane[m] /\ completed'[m] = completed[m]

\* A launcher leaves the results and locks of the shards alone; it starts and ends
\* workers, which do not get further by it.
LEMMA LauncherSteps ==
  ASSUME TypeOK, LanesTyped, NEW l \in Launchers, LauncherStep(l)
  PROVE  /\ UNCHANGED <<head, result, lock>>
         /\ \A m \in Launchers, t \in Shards :
              worker'[m][t] \in {worker[m][t], "none", "booting"}
         /\ Others(l)
<1> USE DEF LaunchTyped, LanesTyped, WorkersTyped, Others, files, launcher
<1>0. LaunchTyped /\ WorkersTyped
  BY DEF TypeOK
<1>1. CASE Scan(l)
  BY <1>0, <1>1 DEF Scan, Fail
<1>2. CASE Acquire(l)
  BY <1>0, <1>2 DEF Acquire, Fail
<1>3. CASE Start(l)
  BY <1>0, <1>3 DEF Start, Live
<1>4. CASE Drain(l)
  BY <1>0, <1>4 DEF Drain
<1>5. CASE Merge(l)
  BY <1>0, <1>5 DEF Merge, Fail, Succeed
<1>6. CASE \E s \in Shards : Poll(l, s)
  <2>1. PICK s \in Shards : Poll(l, s)
    BY <1>6
  <2>2. CASE Abandon(l)
    BY <1>0, <2>2 DEF Abandon, Fail
  <2>3. CASE ~ Abandon(l)
    BY <1>0, <2>1, <2>3 DEF Poll
  <2>4. QED
    BY <2>2, <2>3
<1>7. CASE Interrupt(l)
  BY <1>0, <1>7 DEF Interrupt, Abandon, Fail
<1>8. CASE Kill(l)
  BY <1>0, <1>8 DEF Kill
<1>9. CASE \E x \in Sections : Preflight(l, x)
  BY <1>0, <1>9 DEF Preflight, Succeed
<1>10. QED
  BY <1>1, <1>2, <1>3, <1>4, <1>5, <1>6, <1>7, <1>8, <1>9 DEF LauncherStep, Proceed

-----------------------------------------------------------------------------
\* Types.

LEMMA WorkerTypes ==
  ASSUME TypeOK, NEW l \in Launchers, NEW s \in Shards, WorkerStep(l, s)
  PROVE  /\ result' \in [Shards -> {Absent, Unmarked} \cup Commits]
         /\ lock' \in [Shards -> Launchers \cup {NoOne}]
         /\ WorkersTyped'
<1>1. WorkersTyped'
  BY WorkerSteps, Going DEF WorkersTyped
<1>2. /\ result' \in [Shards -> {Absent, Unmarked} \cup Commits]
      /\ lock' \in [Shards -> Launchers \cup {NoOne}]
  <2> USE DEF TypeOK, files
  <2>1. CASE Raise(l, s)
    BY <2>1 DEF Raise
  <2>2. CASE Die(l, s)
    BY <2>2 DEF Die
  <2>3. CASE Look(l, s)
    BY <2>3 DEF Look
  <2>4. CASE Lock(l, s)
    BY <2>4 DEF Lock
  <2>5. CASE LookAgain(l, s)
    BY <2>5 DEF LookAgain
  <2>6. CASE Write(l, s)
    BY <2>6 DEF Write
  <2>7. CASE Unlock(l, s)
    BY <2>7 DEF Unlock
  <2>8. CASE Mark(l, s)
    BY <2>8 DEF Mark
  <2>9. QED
    BY <2>1, <2>2, <2>3, <2>4, <2>5, <2>6, <2>7, <2>8 DEF WorkerStep, Work
<1>3. QED
  BY <1>1, <1>2

\* The lanes given away: none, one less, one more.
LEMMA LaneTypes ==
  ASSUME NEW f \in LaneFunctions, NEW s \in Shards, NEW i \in Lanes
  PROVE  /\ NoLanes \in LaneFunctions /\ DOMAIN NoLanes = {}
         /\ DOMAIN f \in SUBSET Shards /\ Range(f) \subseteq Lanes
         /\ Restrict(f, DOMAIN f \ {s}) \in LaneFunctions
         /\ [t \in DOMAIN f \cup {s} |-> IF t = s THEN i ELSE f[t]] \in LaneFunctions
<1>1. PICK D \in SUBSET Shards : f \in [D -> Lanes]
  BY DEF LaneFunctions
<1>2. NoLanes \in [{} -> Lanes]
  BY DEF NoLanes
<1>3. Restrict(f, DOMAIN f \ {s}) \in [D \ {s} -> Lanes]
  BY <1>1 DEF Restrict
<1>4. [t \in DOMAIN f \cup {s} |-> IF t = s THEN i ELSE f[t]] \in [D \cup {s} -> Lanes]
  BY <1>1
<1>5. Range(f) \subseteq Lanes
  BY <1>1 DEF Range
<1>6. QED
  BY <1>1, <1>2, <1>3, <1>4, <1>5 DEF LaneFunctions

LEMMA FailTypes ==
  ASSUME LaunchTyped, NEW l \in Launchers, Fail(l)
  PROVE  LaunchTyped'
<1>1. NoLanes \in LaneFunctions
  BY DEF NoLanes, LaneFunctions
<1>2. 1 \in Commits
  BY Constants DEF Commits
<1>3. QED
  BY <1>1, <1>2 DEF LaunchTyped, LanesTyped, Fail, Places

LEMMA LauncherTypes ==
  ASSUME IInv, NEW l \in Launchers, LauncherStep(l)
  PROVE  /\ LaunchTyped' /\ WorkersTyped'
         /\ published' \in [Cells -> {Absent} \cup Commits]
         /\ owner' \in Launchers \cup {NoOne}
<1> USE DEF WorkersTyped, files, launcher, Places
<1>0. /\ LaunchTyped /\ WorkersTyped
      /\ head \in Commits /\ published \in [Cells -> {Absent} \cup Commits]
      /\ owner \in Launchers \cup {NoOne}
  BY DEF IInv, TypeOK, LaunchTyped
<1>1. CASE Scan(l)
  <2>1. CASE Fail(l)
    BY <1>0, <1>1, <2>1, FailTypes DEF Scan
  <2>2. CASE ~ Fail(l)
    <3>1. /\ at' = [at EXCEPT ![l] = "acquiring"]
          /\ \E todo \in SUBSET Shards : queue' = [queue EXCEPT ![l] = todo]
          /\ UNCHANGED <<commit, asked, pending, lane, completed, files, worker>>
      BY <1>1, <2>2 DEF Scan
    <3>2. at' \in [Launchers -> Places] /\ queue' \in [Launchers -> SUBSET Shards]
      BY <1>0, <3>1 DEF LaunchTyped
    <3>3. QED
      BY <1>0, <3>1, <3>2 DEF LaunchTyped, LanesTyped
  <2>3. QED
    BY <2>1, <2>2
<1>2. CASE Acquire(l)
  <2>1. CASE Fail(l)
    BY <1>0, <1>2, <2>1, FailTypes DEF Acquire
  <2>2. CASE ~ Fail(l)
    BY <1>0, <1>2, <2>2 DEF Acquire, LaunchTyped, LanesTyped
  <2>3. QED
    BY <2>1, <2>2
<1>3. CASE Start(l)
  <2> DEFINE free == Lanes \ Range(lane[l])
             s == First(queue[l])
  <2>1. s \in Shards
    BY <1>0, <1>3, FirstShard DEF Start, LaunchTyped
  <2>2. Min(free) \in Lanes
    BY <1>3, LeastNatural DEF Start, Lanes
  <2>3. lane[l] \in LaneFunctions
    BY <1>0 DEF LaunchTyped, LanesTyped, LaneFunctions
  <2>4. [t \in DOMAIN lane[l] \cup {s} |-> IF t = s THEN Min(free) ELSE lane[l][t]]
          \in LaneFunctions
    BY <2>1, <2>2, <2>3, LaneTypes
  <2>5. LanesTyped'
    BY <1>0, <1>3, <2>4 DEF Start, LaunchTyped, LanesTyped, LaneFunctions
  <2>6. QED
    BY <1>0, <1>3, <2>1, <2>5 DEF Start, LaunchTyped, Live
<1>4. CASE Drain(l)
  BY <1>0, <1>4 DEF Drain, LaunchTyped, LanesTyped
<1>5. CASE Merge(l)
  <2>1. Min(pending[l]) \in Cells
    <3>1. pending[l] # {} /\ pending[l] \in SUBSET Nat
      BY <1>0, <1>5, Constants DEF IInv, Accounted, Merge, LaunchTyped
    <3>2. QED
      BY <1>0, <3>1, LeastNatural DEF LaunchTyped
  <2>2. /\ published' \in [Cells -> {Absent} \cup Commits]
        /\ owner' = owner /\ worker' = worker
    BY <1>0, <1>5, <2>1 DEF Merge, LaunchTyped
  <2>3. CASE Fail(l)
    BY <1>0, <2>2, <2>3, FailTypes
  <2>4. CASE ~ Fail(l)
    <3>1. /\ pending' = [pending EXCEPT ![l] = @ \ {Min(pending[l])}]
          /\ UNCHANGED <<commit, asked, queue, lane>>
          /\ Succeed(l) \/ UNCHANGED <<at, completed>>
      BY <1>5, <2>4 DEF Merge
    <3>2. /\ at' \in [Launchers -> Places] /\ completed' \in [Launchers -> BOOLEAN]
      BY <1>0, <3>1 DEF Succeed, LaunchTyped
    <3>3. pending' \in [Launchers -> SUBSET Cells]
      BY <1>0, <3>1 DEF LaunchTyped
    <3>4. QED
      BY <1>0, <2>2, <3>1, <3>2, <3>3 DEF LaunchTyped, LanesTyped
  <2>5. QED
    BY <2>3, <2>4
<1>6. CASE \E s \in Shards : Poll(l, s)
  <2>1. PICK s \in Shards : Poll(l, s)
    BY <1>6
  <2>2. CASE Abandon(l)
    BY <1>0, <2>2, FailTypes DEF Abandon
  <2>3. CASE ~ Abandon(l)
    <3>1. lane[l] \in LaneFunctions
      BY <1>0 DEF LaunchTyped, LanesTyped, LaneFunctions
    <3>2. 0 \in Lanes
      BY Constants DEF Lanes
    <3>3. Restrict(lane[l], DOMAIN lane[l] \ {s}) \in LaneFunctions
      BY <3>1, <3>2, LaneTypes
    <3>4. LanesTyped'
      BY <1>0, <2>1, <2>3, <3>3 DEF Poll, LaunchTyped, LanesTyped, LaneFunctions
    <3>5. WorkersTyped' /\ UNCHANGED <<files, at, commit, asked, pending, queue, completed>>
      BY <1>0, <2>1, <2>3 DEF Poll
    <3>6. QED
      BY <1>0, <3>4, <3>5 DEF LaunchTyped
  <2>4. QED
    BY <2>2, <2>3
<1>7. CASE Interrupt(l)
  BY <1>0, <1>7, FailTypes DEF Interrupt, Abandon
<1>8. CASE Kill(l)
  <2>1. 1 \in Commits /\ NoLanes \in LaneFunctions
    BY Constants DEF Commits, NoLanes, LaneFunctions
  <2>2. QED
    BY <1>0, <1>8, <2>1 DEF Kill, LaunchTyped, LanesTyped
<1>9. CASE \E x \in Sections : Preflight(l, x)
  <2>1. PICK x \in Sections : Preflight(l, x)
    BY <1>9
  <2>2. Selected(x) \subseteq Cells
    BY DEF Selected
  <2>3. UNCHANGED <<published, owner, queue, lane, worker>>
    BY <2>1 DEF Preflight
  <2>4. /\ commit' \in [Launchers -> Commits] /\ asked' \in [Launchers -> SUBSET Cells]
        /\ pending' \in [Launchers -> SUBSET Cells]
    BY <1>0, <2>1, <2>2 DEF Preflight, LaunchTyped
  <2>5. at' \in [Launchers -> Places] /\ completed' \in [Launchers -> BOOLEAN]
    BY <1>0, <2>1 DEF Preflight, Succeed, LaunchTyped
  <2>6. QED
    BY <1>0, <2>3, <2>4, <2>5 DEF LaunchTyped, LanesTyped
<1>10. QED
  BY <1>1, <1>2, <1>3, <1>4, <1>5, <1>6, <1>7, <1>8, <1>9 DEF LauncherStep, Proceed

FilesTyped ==
  /\ head \in Commits
  /\ result \in [Shards -> {Absent, Unmarked} \cup Commits]
  /\ lock \in [Shards -> Launchers \cup {NoOne}]
  /\ published \in [Cells -> {Absent} \cup Commits]
  /\ owner \in Launchers \cup {NoOne}

\* The surroundings move the head, and tidy up what no process needs.
LEMMA SurroundingSteps ==
  ASSUME TypeOK, Surroundings
  PROVE  /\ UNCHANGED <<published, launcher, worker>>
         /\ head' \in Commits /\ owner' \in Launchers \cup {NoOne}
         /\ result' \in [Shards -> {Absent, Unmarked} \cup Commits]
         /\ lock' \in [Shards -> Launchers \cup {NoOne}]
         /\ \A s \in Shards :
              \/ result'[s] = result[s] /\ lock'[s] = lock[s]
              \/ /\ \A l \in Launchers : worker[l][s] \notin Live
                 /\ result'[s] = IF result[s] = Unmarked THEN Absent ELSE result[s]
<1> USE DEF files, TypeOK
<1>1. CASE MoveHead
  BY <1>1, Constants DEF MoveHead, Commits
<1>2. CASE RemoveLaunchLock
  BY <1>2 DEF RemoveLaunchLock
<1>3. CASE \E s \in Shards : TidyShard(s)
  BY <1>3 DEF TidyShard
<1>4. QED
  BY <1>1, <1>2, <1>3 DEF Surroundings

LEMMA TypesKept ==
  ASSUME IInv, [Next]_vars
  PROVE  TypeOK' /\ LanesTyped'
<1> USE DEF IInv
<1>1. (LaunchTyped /\ WorkersTyped)'
  <2>1. LaunchTyped /\ WorkersTyped
    BY DEF TypeOK, LaunchTyped, WorkersTyped
  <2>2. CASE UNCHANGED vars
    BY <2>1, <2>2 DEF vars, launcher, LaunchTyped, LanesTyped, WorkersTyped
  <2>3. ASSUME NEW l \in Launchers, NEW s \in Shards, WorkerStep(l, s)
        PROVE  (LaunchTyped /\ WorkersTyped)'
    BY <2>1, <2>3, WorkerSteps, WorkerTypes DEF launcher, LaunchTyped, LanesTyped
  <2>4. ASSUME NEW l \in Launchers, LauncherStep(l) PROVE (LaunchTyped /\ WorkersTyped)'
    BY <2>4, LauncherTypes
  <2>5. CASE Surroundings
    BY <2>1, <2>5, SurroundingSteps DEF launcher, LaunchTyped, LanesTyped, WorkersTyped
  <2>6. QED
    BY <2>2, <2>3, <2>4, <2>5, Steps
<1>2. FilesTyped'
  <2>1. CASE UNCHANGED vars
    BY <2>1 DEF vars, files, TypeOK, FilesTyped
  <2>2. ASSUME NEW l \in Launchers, NEW s \in Shards, WorkerStep(l, s) PROVE FilesTyped'
    BY <2>2, WorkerSteps, WorkerTypes DEF TypeOK, FilesTyped
  <2>3. ASSUME NEW l \in Launchers, LauncherStep(l) PROVE FilesTyped'
    BY <2>3, LauncherSteps, LauncherTypes DEF TypeOK, FilesTyped
  <2>4. CASE Surroundings
    BY <2>4, SurroundingSteps DEF TypeOK, FilesTyped
  <2>5. QED
    BY <2>1, <2>2, <2>3, <2>4, Steps
<1>3. \A l \in Launchers : /\ DOMAIN lane'[l] \subseteq Shards
                           /\ Range(lane'[l]) \subseteq Lanes
  BY <1>1 DEF LaunchTyped, LanesTyped, LaneFunctions, Range
<1>4. QED
  BY <1>1, <1>2, <1>3 DEF TypeOK, FilesTyped, LaunchTyped, WorkersTyped

-----------------------------------------------------------------------------
\* Reservations and evidence.

\* Commits are no marks, and no launcher is nobody.
LEMMA Marks == Absent \notin Commits /\ Unmarked \notin Commits /\ Absent # Unmarked
BY DEF Absent, Unmarked, Commits

\* What a step of a worker does to its shard, by the stage it is in.
LEMMA WorkerEffects ==
  ASSUME TypeOK, NEW l \in Launchers, NEW s \in Shards, WorkerStep(l, s)
  PROVE  /\ \A t \in Shards \ {s} : result'[t] = result[t] /\ lock'[t] = lock[t]
         /\ \/ /\ worker'[l][s] \in {"none", "looked", "failed"}
               /\ result'[s] = result[s]
               /\ \/ lock'[s] = lock[s]
                  \/ worker[l][s] \in Holding /\ lock'[s] = NoOne
            \/ /\ worker[l][s] = "looked" /\ lock[s] = NoOne
               /\ worker'[l][s] = "locked" /\ lock'[s] = l /\ result'[s] = result[s]
            \/ /\ worker[l][s] = "locked" /\ result[s] = Absent
               /\ worker'[l][s] = "evaluating" /\ result'[s] = result[s] /\ lock'[s] = lock[s]
            \/ /\ worker[l][s] = "evaluating" /\ worker'[l][s] = "written"
               /\ result'[s] = Unmarked /\ lock'[s] = lock[s]
            \/ /\ worker[l][s] = "written" /\ worker'[l][s] = "marking"
               /\ result'[s] = result[s] /\ lock'[s] = NoOne
            \/ /\ worker[l][s] = "marking" /\ worker'[l][s] \in {"passed", "none"}
               /\ result'[s] = head /\ lock'[s] = lock[s]
<1> USE DEF Live, Holding, Exited, files
<1>1. CASE Raise(l, s)
  <2>1. Goto(l, s, "failed")
    BY <1>1 DEF Raise
  <2>2. worker'[l][s] \in {"failed", "none"} /\ (("failed") \in Live => worker'[l][s] = "failed")
    BY <2>1, Going
  <2>3. QED
    BY <1>1, <2>2 DEF Raise, TypeOK
<1>2. CASE Die(l, s)
  <2>1. Goto(l, s, "failed")
    BY <1>2 DEF Die
  <2>2. worker'[l][s] \in {"failed", "none"} /\ (("failed") \in Live => worker'[l][s] = "failed")
    BY <2>1, Going
  <2>3. QED
    BY <1>2, <2>2 DEF Die, TypeOK
<1>3. CASE Look(l, s)
  <2>1. Goto(l, s, IF result[s] = Absent THEN "looked" ELSE "failed")
    BY <1>3 DEF Look
  <2>2. worker'[l][s] \in {IF result[s] = Absent THEN "looked" ELSE "failed", "none"} /\ ((IF result[s] = Absent THEN "looked" ELSE "failed") \in Live => worker'[l][s] = IF result[s] = Absent THEN "looked" ELSE "failed")
    BY <2>1, Going
  <2>3. QED
    BY <1>3, <2>2 DEF Look, TypeOK
<1>4. CASE Lock(l, s)
  <2>1. Goto(l, s, IF lock[s] = NoOne THEN "locked" ELSE "failed")
    BY <1>4 DEF Lock
  <2>2. worker'[l][s] \in {IF lock[s] = NoOne THEN "locked" ELSE "failed", "none"} /\ ((IF lock[s] = NoOne THEN "locked" ELSE "failed") \in Live => worker'[l][s] = IF lock[s] = NoOne THEN "locked" ELSE "failed")
    BY <2>1, Going
  <2>3. QED
    BY <1>4, <2>2 DEF Lock, TypeOK
<1>5. CASE LookAgain(l, s)
  <2>1. Goto(l, s, IF result[s] = Absent THEN "evaluating" ELSE "failed")
    BY <1>5 DEF LookAgain
  <2>2. worker'[l][s] \in {IF result[s] = Absent THEN "evaluating" ELSE "failed", "none"} /\ ((IF result[s] = Absent THEN "evaluating" ELSE "failed") \in Live => worker'[l][s] = IF result[s] = Absent THEN "evaluating" ELSE "failed")
    BY <2>1, Going
  <2>3. QED
    BY <1>5, <2>2 DEF LookAgain, TypeOK
<1>6. CASE Write(l, s)
  <2>1. Goto(l, s, "written")
    BY <1>6 DEF Write
  <2>2. worker'[l][s] \in {"written", "none"} /\ (("written") \in Live => worker'[l][s] = "written")
    BY <2>1, Going
  <2>3. QED
    BY <1>6, <2>2 DEF Write, TypeOK
<1>7. CASE Unlock(l, s)
  <2>1. Goto(l, s, "marking")
    BY <1>7 DEF Unlock
  <2>2. worker'[l][s] \in {"marking", "none"} /\ (("marking") \in Live => worker'[l][s] = "marking")
    BY <2>1, Going
  <2>3. QED
    BY <1>7, <2>2 DEF Unlock, TypeOK
<1>8. CASE Mark(l, s)
  <2>1. Goto(l, s, IF result[s] = Absent THEN "failed" ELSE "passed")
    BY <1>8 DEF Mark
  <2>2. worker'[l][s] \in {IF result[s] = Absent THEN "failed" ELSE "passed", "none"} /\ ((IF result[s] = Absent THEN "failed" ELSE "passed") \in Live => worker'[l][s] = IF result[s] = Absent THEN "failed" ELSE "passed")
    BY <2>1, Going
  <2>3. QED
    BY <1>8, <2>2 DEF Mark, TypeOK
<1>9. QED
  BY <1>1, <1>2, <1>3, <1>4, <1>5, <1>6, <1>7, <1>8 DEF WorkerStep, Work

LEMMA WorkerReserves ==
  ASSUME IInv, NEW l \in Launchers, NEW s \in Shards, WorkerStep(l, s)
  PROVE  Reserved'
<1>1. TypeOK /\ Absent # Unmarked /\ NoOne \notin Launchers
  BY Marks, Constants DEF IInv
<1>2. \A m \in Launchers, t \in Shards : m # l \/ t # s => worker'[m][t] = worker[m][t]
  BY <1>1, WorkerSteps, Going
<1>3. \A t \in Shards : ReservedAt(t)
  BY DEF IInv, Reserved
<1>4. ASSUME NEW t \in Shards \ {s} PROVE ReservedAt(t)'
  BY <1>1, <1>2, <1>3, WorkerEffects DEF ReservedAt
<1>5. ReservedAt(s)'
  BY <1>1, <1>2, <1>3, WorkerEffects DEF ReservedAt, Holding
<1>6. QED
  BY <1>4, <1>5 DEF Reserved

LEMMA ReservedKept ==
  ASSUME IInv, [Next]_vars
  PROVE  Reserved'
<1> USE DEF IInv
<1>1. CASE UNCHANGED vars
  BY <1>1 DEF vars, files, Reserved, ReservedAt
<1>2. ASSUME NEW l \in Launchers, LauncherStep(l) PROVE Reserved'
  BY <1>2, LauncherSteps DEF Reserved, ReservedAt, Holding
<1>3. CASE Surroundings
  BY <1>3, SurroundingSteps DEF Reserved, ReservedAt, Holding, Live
<1>4. QED
  BY <1>1, <1>2, <1>3, Steps, WorkerReserves

-----------------------------------------------------------------------------
\* Lanes.

LEMMA LanedKept ==
  ASSUME IInv, [Next]_vars
  PROVE  Laned'
<1> USE DEF IInv, Laned, launcher, files
<1>0. TypeOK /\ LanesTyped
  OBVIOUS
<1>1. CASE UNCHANGED vars
  BY <1>1 DEF vars
<1>2. ASSUME NEW l \in Launchers, NEW s \in Shards, WorkerStep(l, s) PROVE Laned'
  BY <1>2, WorkerSteps, Going DEF Live, Holding
<1>3. ASSUME NEW l \in Launchers, LauncherStep(l) PROVE Laned'
  <2>1. Others(l)
    BY <1>3, LauncherSteps
  <2> DEFINE Good == /\ at'[l] # "killed" => \A s \in Shards : worker'[l][s] # "none" => s \in DOMAIN lane'[l]
                     /\ at'[l] # "running" => lane'[l] = NoLanes
                     /\ \A s, t \in DOMAIN lane'[l] : lane'[l][s] = lane'[l][t] => s = t
  <2>2. SUFFICES Good
    BY <2>1 DEF Others
  <2>3. CASE /\ Fail(l)
             /\ \/ worker' = worker /\ at[l] \notin {"running", "killed"}
                \/ \A s \in Shards : worker'[l][s] = "none"
    <3>1. at'[l] = "idle" /\ lane'[l] = NoLanes /\ DOMAIN NoLanes = {}
      BY <1>0, <2>3 DEF Fail, TypeOK, LanesTyped, NoLanes
    <3>2. \A s \in Shards : worker'[l][s] = "none"
      BY <2>3, <3>1
    <3>3. QED
      BY <3>1, <3>2
  <2>4. CASE Scan(l)
    BY <1>0, <2>3, <2>4 DEF Scan, TypeOK
  <2>5. CASE Acquire(l)
    BY <1>0, <2>3, <2>5 DEF Acquire, TypeOK
  <2>6. CASE Start(l)
    <3> DEFINE f == lane[l]
               free == Lanes \ Range(f)
               i == Min(free)
               s == First(queue[l])
    <3>1. s \in Shards
      BY <1>0, <2>6, FirstShard DEF Start, TypeOK
    <3>2. i \in free
      BY <2>6, LeastNatural DEF Start, Lanes
    <3>3. /\ at' = at /\ at[l] = "running"
          /\ lane'[l] = [t \in DOMAIN f \cup {s} |-> IF t = s THEN i ELSE f[t]]
          /\ worker' = [worker EXCEPT ![l][s] = "booting"]
      BY <1>0, <2>6 DEF Start, LanesTyped
    <3>4. \A t \in Shards \ {s} : worker'[l][t] = worker[l][t]
      BY <1>0, <3>1, <3>3 DEF TypeOK
    <3>5. \A t \in DOMAIN f : f[t] # i
      BY <3>2 DEF Range
    <3> HIDE DEF i, s, free
    <3>6. \A t, u \in DOMAIN lane'[l] : lane'[l][t] = lane'[l][u] => t = u
      BY <3>3, <3>5
    <3>7. QED
      BY <3>3, <3>4, <3>6
  <2>7. CASE Drain(l)
    BY <1>0, <2>7 DEF Drain, TypeOK, NoLanes
  <2>8. CASE Merge(l)
    BY <1>0, <2>3, <2>8 DEF Merge, TypeOK, Succeed
  <2>9. CASE \E s \in Shards : Poll(l, s)
    <3>1. PICK s \in Shards : Poll(l, s)
      BY <2>9
    <3>2. CASE Abandon(l)
      BY <1>0, <2>3, <3>2 DEF Abandon, TypeOK
    <3>3. CASE ~ Abandon(l)
      <4> DEFINE f == lane[l]
      <4>1. /\ at' = at /\ at[l] = "running"
            /\ lane'[l] = Restrict(f, DOMAIN f \ {s})
            /\ worker' = [worker EXCEPT ![l][s] = "none"]
        BY <1>0, <3>1, <3>3 DEF Poll, LanesTyped
      <4>2. \A t \in Shards : worker'[l][t] = IF t = s THEN "none" ELSE worker[l][t]
        BY <1>0, <4>1 DEF TypeOK
      <4>3. /\ DOMAIN lane'[l] = DOMAIN f \ {s}
            /\ \A t \in DOMAIN f \ {s} : lane'[l][t] = f[t]
        BY <4>1 DEF Restrict
      <4>4. QED
        BY <4>1, <4>2, <4>3
    <3>4. QED
      BY <3>2, <3>3
  <2>10. CASE Interrupt(l)
    BY <1>0, <2>3, <2>10 DEF Interrupt, TypeOK, Abandon
  <2>11. CASE Kill(l)
    <3>1. at'[l] = "killed" /\ lane'[l] = NoLanes /\ DOMAIN NoLanes = {}
      BY <1>0, <2>11 DEF Kill, TypeOK, LanesTyped, NoLanes
    <3>2. QED
      BY <3>1
  <2>12. CASE \E x \in Sections : Preflight(l, x)
    BY <1>0, <2>12 DEF Preflight, TypeOK, Succeed
  <2>13. QED
    BY <1>3, <2>4, <2>5, <2>6, <2>7, <2>8, <2>9, <2>10, <2>11, <2>12 DEF LauncherStep, Proceed
<1>4. CASE Surroundings
  BY <1>4, SurroundingSteps
<1>5. QED
  BY <1>1, <1>2, <1>3, <1>4, Steps

-----------------------------------------------------------------------------
\* Published cells.

\* A result that names a commit is never replaced.
LEMMA EvidenceStays ==
  ASSUME IInv, [Next]_vars, NEW s \in Shards
  PROVE  \/ result'[s] = result[s]
         \/ result[s] \in {Absent, Unmarked}
<1> USE DEF IInv
<1>1. CASE UNCHANGED vars
  BY <1>1 DEF vars, files
<1>2. ASSUME NEW l \in Launchers, NEW t \in Shards, WorkerStep(l, t)
      PROVE  result'[s] = result[s] \/ result[s] \in {Absent, Unmarked}
  BY <1>2, WorkerEffects DEF Reserved, ReservedAt
<1>3. ASSUME NEW l \in Launchers, LauncherStep(l) PROVE result'[s] = result[s]
  BY <1>3, LauncherSteps
<1>4. CASE Surroundings
  BY <1>4, SurroundingSteps
<1>5. QED
  BY <1>1, <1>2, <1>3, <1>4, Steps

\* Cells are published by merging, from evidence of the commit of the launch.
LEMMA Publications ==
  ASSUME IInv, [Next]_vars, published' # published
  PROVE  \E l \in Launchers : LET c == Min(pending[l]) IN
           /\ Merge(l) /\ c \in pending[l]
           /\ \A s \in ShardsOf(c) : result[s] = commit[l] /\ result'[s] = result[s]
           /\ UNION {Indices(s) : s \in ShardsOf(c)} = 0 .. Episodes[c] - 1
           /\ published' = [published EXCEPT ![c] = commit[l]]
<1> USE DEF IInv
<1>1. ~ UNCHANGED vars
  BY DEF vars, files
<1>2. ASSUME NEW l \in Launchers, NEW s \in Shards PROVE ~ WorkerStep(l, s)
  BY <1>2, WorkerSteps
<1>3. ~ Surroundings
  BY SurroundingSteps
<1>4. PICK l \in Launchers : LauncherStep(l)
  BY <1>1, <1>2, <1>3, Steps
<1>5. Merge(l)
  BY <1>4 DEF LauncherStep, Proceed, Interrupt, Kill, Preflight, Scan, Acquire, Start, Drain,
              Poll, Abandon, files
<1>6. Min(pending[l]) \in pending[l]
  BY <1>5, LeastNatural, Constants DEF Merge, Accounted, TypeOK
<1>7. QED
  BY <1>5, <1>6 DEF Merge, Valid, ShardsOf

LEMMA EvidentKept ==
  ASSUME IInv, [Next]_vars
  PROVE  Evident'
<1>1. SUFFICES ASSUME NEW c \in Cells, published'[c] # Absent, NEW s \in ShardsOf(c)
               PROVE  result'[s] = published'[c]
  BY DEF Evident, ShardsOf
<1>2. CASE published'[c] = published[c]
  <2>1. result[s] = published[c] /\ s \in Shards /\ published[c] \in Commits
    BY <1>1, <1>2 DEF IInv, Evident, ShardsOf, TypeOK
  <2>2. QED
    BY <1>2, <2>1, EvidenceStays, Marks
<1>3. CASE published'[c] # published[c]
  <2>1. PICK l \in Launchers :
          /\ \A t \in ShardsOf(Min(pending[l])) : result[t] = commit[l] /\ result'[t] = result[t]
          /\ published' = [published EXCEPT ![Min(pending[l])] = commit[l]]
    BY <1>3, Publications
  <2>2. c = Min(pending[l]) /\ published'[c] = commit[l]
    BY <1>3, <2>1 DEF IInv, TypeOK
  <2>3. QED
    BY <2>1, <2>2
<1>4. QED
  BY <1>2, <1>3

\* A published cell keeps its commit.
LEMMA PublishedStays ==
  ASSUME IInv, [Next]_vars, NEW c \in Cells, published[c] # Absent
  PROVE  published'[c] = published[c]
<1>1. CASE published'[c] # published[c]
  <2>1. PICK l \in Launchers :
          /\ \A t \in ShardsOf(Min(pending[l])) : result[t] = commit[l]
          /\ published' = [published EXCEPT ![Min(pending[l])] = commit[l]]
    BY <1>1, Publications
  <2>2. c = Min(pending[l]) /\ published'[c] = commit[l]
    BY <1>1, <2>1 DEF IInv, TypeOK
  <2>3. PICK s \in ShardsOf(c) : TRUE
    BY CellsHaveShards
  <2>4. QED
    BY <2>1, <2>2, <2>3 DEF IInv, Evident
<1>2. QED
  BY <1>1

-----------------------------------------------------------------------------
\* Launches account for their cells.

LEMMA OthersAccounted ==
  ASSUME IInv, [Next]_vars, NEW l \in Launchers,
         at'[l] = at[l], commit'[l] = commit[l], asked'[l] = asked[l],
         pending'[l] = pending[l], completed'[l] = completed[l]
  PROVE  /\ at'[l] \notin {"idle", "killed"} =>
              /\ completed'[l] = FALSE
              /\ pending'[l] # {}
              /\ \A c \in asked'[l] \ pending'[l] : Settled(l, c)'
         /\ completed'[l] => \A c \in asked'[l] : Settled(l, c)'
<1>1. asked[l] \subseteq Cells
  BY DEF IInv, TypeOK
<1>2. \A c \in asked[l] : Settled(l, c) => Settled(l, c)'
  BY <1>1, PublishedStays DEF Settled, Available
<1>3. QED
  BY <1>2 DEF IInv, Accounted

LEMMA AccountedKept ==
  ASSUME IInv, [Next]_vars
  PROVE  Accounted'
<1> DEFINE Good(l) ==
      /\ at'[l] \notin {"idle", "killed"} =>
           /\ completed'[l] = FALSE
           /\ pending'[l] # {}
           /\ \A c \in asked'[l] \ pending'[l] : Settled(l, c)'
      /\ completed'[l] => \A c \in asked'[l] : Settled(l, c)'
<1>0. TypeOK
  BY DEF IInv
<1>1. CASE UNCHANGED launcher
  BY <1>1, OthersAccounted DEF launcher, Accounted
<1>2. ASSUME NEW l \in Launchers, NEW s \in Shards, WorkerStep(l, s) PROVE UNCHANGED launcher
  BY <1>2, WorkerSteps
<1>3. CASE Surroundings
  BY <1>0, <1>1, <1>3, SurroundingSteps
<1>4. ASSUME NEW l \in Launchers, LauncherStep(l) PROVE Accounted'
  <2>1. \A m \in Launchers \ {l} : Good(m)
    BY <1>0, <1>4, LauncherSteps, OthersAccounted DEF IInv, Others
  <2>2. SUFFICES Good(l)
    BY <2>1 DEF Accounted
  <2>3. CASE Fail(l)
    BY <1>0, <2>3 DEF Fail, TypeOK
  <2>4. CASE at[l] \notin {"idle", "killed"} /\ at'[l] \notin {"idle", "killed"} /\ UNCHANGED <<commit, asked, pending, completed>>
    <3>1. \A c \in asked[l] : Settled(l, c) => Settled(l, c)'
      BY <1>0, <2>4, PublishedStays DEF Settled, Available, TypeOK
    <3>2. QED
      BY <2>4, <3>1 DEF IInv, Accounted
  <2>5. CASE Scan(l)
    BY <1>0, <2>3, <2>4, <2>5 DEF Scan, TypeOK
  <2>6. CASE Acquire(l)
    BY <1>0, <2>3, <2>4, <2>6 DEF Acquire, TypeOK
  <2>7. CASE Start(l)
    BY <1>0, <2>4, <2>7 DEF Start, TypeOK
  <2>8. CASE Drain(l)
    BY <1>0, <2>4, <2>8 DEF Drain, TypeOK
  <2>9. CASE Merge(l)
    <3>1. CASE Fail(l)
      BY <2>3, <3>1
    <3>2. CASE ~ Fail(l)
      <4>0. PICK c : c = Min(pending[l])
        OBVIOUS
      <4>1. c \in pending[l] /\ pending[l] \subseteq Cells
        BY <1>0, <2>9, <4>0, LeastNatural, Constants DEF Merge, IInv, Accounted, TypeOK
      <4>2. /\ published'[c] = commit[l] /\ commit' = commit /\ asked' = asked
            /\ pending'[l] = pending[l] \ {c}
            /\ \/ pending[l] = {c} /\ Succeed(l)
               \/ pending[l] # {c} /\ UNCHANGED <<at, completed>>
        BY <1>0, <2>9, <3>2, <4>0, <4>1 DEF Merge, TypeOK
      <4>3. Settled(l, c)'
        BY <1>0, <4>2, Marks DEF Settled, Available, TypeOK
      <4>4. \A d \in asked[l] \ pending[l] : Settled(l, d)'
        BY <1>0, <2>9, <4>2, PublishedStays DEF Settled, Available, IInv, Accounted, Merge, TypeOK
      <4>5. CASE pending[l] = {c} /\ Succeed(l)
        BY <1>0, <4>2, <4>3, <4>4, <4>5 DEF Succeed, TypeOK
      <4>6. CASE pending[l] # {c} /\ UNCHANGED <<at, completed>>
        BY <2>9, <4>1, <4>2, <4>3, <4>4, <4>6 DEF IInv, Accounted, Merge
      <4>7. QED
        BY <4>2, <4>5, <4>6
    <3>3. QED
      BY <3>1, <3>2
  <2>10. CASE \E s \in Shards : Poll(l, s)
    BY <1>0, <2>3, <2>4, <2>10 DEF Poll, TypeOK, Abandon
  <2>11. CASE Interrupt(l)
    BY <2>3, <2>11 DEF Interrupt, Abandon
  <2>12. CASE Kill(l)
    BY <1>0, <2>12 DEF Kill, TypeOK
  <2>13. CASE \E x \in Sections : Preflight(l, x)
    <3>1. PICK x \in Sections : Preflight(l, x)
      BY <2>13
    <3> DEFINE missing == {c \in Selected(x) : published[c] = Absent}
    <3>2. \A c \in Selected(x) \ missing : Settled(l, c)'
      BY <1>0, <3>1 DEF Preflight, Settled, Available, files, TypeOK
    <3>3. asked'[l] = Selected(x)
      BY <1>0, <3>1 DEF Preflight, TypeOK
    <3>4. CASE missing = {}
      BY <1>0, <3>1, <3>2, <3>3, <3>4 DEF Preflight, Succeed, TypeOK
    <3>5. CASE missing # {}
      BY <1>0, <3>1, <3>2, <3>3, <3>5 DEF Preflight, TypeOK
    <3>6. QED
      BY <3>4, <3>5
  <2>14. QED
    BY <1>4, <2>5, <2>6, <2>7, <2>8, <2>9, <2>10, <2>11, <2>12, <2>13 DEF LauncherStep, Proceed
<1>5. QED
  BY <1>1, <1>2, <1>3, <1>4, Steps DEF vars

-----------------------------------------------------------------------------
\* The cores of the lanes.

\* The smaller of two naturals, as the code of the lanes takes it.
LEMMA MinOfTwo ==
  ASSUME NEW m \in Nat, NEW n \in Nat
  PROVE  Min({m, n}) = IF m <= n THEN m ELSE n
BY DEF Min

\* Blocks of cores of two places on a node do not overlap: the first extra ones are by
\* one core wider than the others.
LEMMA BlocksInOrder ==
  ASSUME NEW width \in Nat, NEW extra \in Nat, NEW p \in Nat, NEW q \in Nat, p < q
  PROVE  p * width + Min({p, extra}) + (width + (IF p < extra THEN 1 ELSE 0))
           <= q * width + Min({q, extra})
<1>1. PICK d \in Nat : q = p + 1 + d
  <2>1. q - (p + 1) \in Nat /\ q = p + 1 + (q - (p + 1))
    OBVIOUS
  <2>2. QED
    BY <2>1
<1>2. q * width = p * width + width + d * width
  <2>1. \A a, b, w \in Nat : (a + b) * w = a * w + b * w
    OBVIOUS
  <2>2. (p + 1 + d) * width = (p + 1) * width + d * width
    BY <2>1
  <2>3. (p + 1) * width = p * width + width
    BY <2>1
  <2>4. QED
    BY <1>1, <2>2, <2>3
<1>3. d * width \in Nat /\ p * width \in Nat
  OBVIOUS
<1>4. Min({p, extra}) + (IF p < extra THEN 1 ELSE 0) <= Min({q, extra})
  BY MinOfTwo
<1>5. QED
  BY <1>2, <1>3, <1>4, MinOfTwo

\* A lane has a place of its own among the lanes of its node.
LEMMA PlacesInOrder ==
  ASSUME NEW i \in Lanes, NEW j \in Lanes, i < j, NodeOf(i) = NodeOf(j)
  PROVE  /\ PeersOf(i) = PeersOf(j) /\ Cardinality(PeersOf(i)) \in Nat \ {0}
         /\ PlaceOf(i) \in Nat /\ PlaceOf(j) \in Nat
         /\ PlaceOf(i) < PlaceOf(j)
<1> DEFINE below(k) == {p \in PeersOf(k) : p < k}
<1>1. IsFiniteSet(Lanes) /\ Lanes \subseteq Int
  BY Constants, FS_Interval DEF Lanes
<1>2. PeersOf(i) = PeersOf(j) /\ i \in PeersOf(i)
  BY DEF PeersOf
<1>3. PeersOf(i) \in SUBSET Lanes /\ below(i) \in SUBSET Lanes /\ below(j) \in SUBSET Lanes
  BY DEF PeersOf
<1>4. IsFiniteSet(PeersOf(i)) /\ IsFiniteSet(below(i)) /\ IsFiniteSet(below(j))
  BY <1>1, <1>3, FS_Subset
<1>5. /\ Cardinality(PeersOf(i)) \in Nat
      /\ Cardinality(below(i)) \in Nat /\ Cardinality(below(j)) \in Nat
  BY <1>4, FS_CardinalityType
<1>6. Cardinality(PeersOf(i)) # 0
  BY <1>2, <1>4, FS_EmptySet
<1>7. i \notin below(i) /\ below(i) \cup {i} \in SUBSET below(j)
  <2>1. ASSUME NEW p \in below(i) PROVE p \in below(j)
    <3>1. p \in Int /\ i \in Int /\ j \in Int /\ p < i /\ p \in PeersOf(j)
      BY <1>1, <1>2, <1>3
    <3>2. p < j
      BY <3>1
    <3>3. QED
      BY <3>1, <3>2
  <2>2. i \in below(j) /\ i \notin below(i)
    BY <1>1, <1>2
  <2>3. QED
    BY <2>1, <2>2
<1>8. Cardinality(below(i) \cup {i}) = Cardinality(below(i)) + 1
  BY <1>4, <1>7, FS_AddElement
<1>9. Cardinality(below(i) \cup {i}) <= Cardinality(below(j))
  BY <1>4, <1>7, FS_Subset
<1>10. QED
  BY <1>2, <1>5, <1>6, <1>8, <1>9 DEF PlaceOf

\* The cores of two lanes are disjoint, however many lanes there are on a node.
LEMMA CoresInOrder ==
  ASSUME NEW i \in Lanes, NEW j \in Lanes, i < j
  PROVE  CoresOf(i) \cap CoresOf(j) = {}
<1>1. CASE NodeOf(i) # NodeOf(j)
  BY <1>1 DEF CoresOf
<1>2. CASE NodeOf(i) = NodeOf(j)
  <2>1. PICK n \in Nat \ {0}, p, q \in Nat :
          /\ n = Cardinality(PeersOf(i)) /\ n = Cardinality(PeersOf(j))
          /\ p = PlaceOf(i) /\ q = PlaceOf(j) /\ p < q
    BY <1>2, PlacesInOrder
  <2>2. PICK w, e \in Nat : w = Cores \div n /\ e = Cores % n
    <3>1. Cores \div n \in Nat /\ Cores % n \in Nat
      BY Constants
    <3>2. QED
      BY <3>1
  <2> DEFINE a == p * w + Min({p, e})
             b == q * w + Min({q, e})
             wide(k) == w + (IF k < e THEN 1 ELSE 0)
  <2>3. /\ CoresOf(i) = {NodeOf(i)} \X (a .. a + w + (IF p < e THEN 1 ELSE 0) - 1)
        /\ CoresOf(j) = {NodeOf(j)} \X (b .. b + w + (IF q < e THEN 1 ELSE 0) - 1)
    BY <2>1, <2>2 DEF CoresOf
  <2>4. a + wide(p) <= b
    BY <2>1, BlocksInOrder
  <2>5. a \in Nat /\ b \in Nat
    BY MinOfTwo
  <2>6. a + w + (IF p < e THEN 1 ELSE 0) - 1 < b
    BY <2>4, <2>5
  <2> HIDE DEF a, b
  <2>7. QED
    BY <2>3, <2>5, <2>6
<1>3. QED
  BY <1>1, <1>2

LEMMA LanesShareNoCore ==
  ASSUME NEW i \in Lanes, NEW j \in Lanes, i # j
  PROVE  CoresOf(i) \cap CoresOf(j) = {}
<1>1. i \in Int /\ j \in Int
  BY DEF Lanes
<1>2. i < j \/ j < i
  BY <1>1
<1>3. QED
  BY <1>2, CoresInOrder

-----------------------------------------------------------------------------
\* The inductive invariant, and what follows from it.

LEMMA IInvInit == Init => IInv
<1> SUFFICES ASSUME Init PROVE IInv
  OBVIOUS
<1>1. 1 \in Commits /\ NoLanes \in LaneFunctions /\ DOMAIN NoLanes = {}
  BY Constants DEF Commits, NoLanes, LaneFunctions
<1>2. LanesTyped
  BY <1>1 DEF Init, LanesTyped, LaneFunctions
<1>3. TypeOK
  BY <1>1, <1>2 DEF Init, TypeOK, Places, Range, NoLanes
<1>4. Reserved /\ Laned
  BY <1>1 DEF Init, Reserved, ReservedAt, Laned, Holding
<1>5. Accounted
  BY DEF Init, Accounted
<1>6. Evident
  BY DEF Init, Evident, ShardsOf
<1>7. QED
  BY <1>2, <1>3, <1>4, <1>5, <1>6 DEF IInv

LEMMA Invariance == Spec => []IInv
<1>1. IInv /\ [Next]_vars => IInv'
  BY TypesKept, ReservedKept, LanedKept, AccountedKept, EvidentKept DEF IInv
<1>2. QED
  BY <1>1, IInvInit, PTL DEF Spec

\* Every variable has its type, the files that launches of different commits and
\* orphaned workers write included.
THEOREM TypesAreCorrect == Spec => []TypeOK
BY Invariance, PTL DEF IInv

\* A launch that reports success has an acceptable result for every cell of its section,
\* for good: whatever fails, is killed or is launched again, at any commit (execute).
THEOREM SuccessIsForGood == Spec => []SuccessIsComplete
<1>1. IInv => SuccessIsComplete
  BY DEF IInv, Accounted, Settled, SuccessIsComplete
<1>2. QED
  BY <1>1, Invariance, PTL

\* No launch leaves a worker behind, unless it is killed, and its workers share no core,
\* for every number of lanes, GPUs, nodes and cores (build_lane_specs, _terminate).
THEOREM WorkersKeepTheirLanes == Spec => []WorkersHaveLanes
<1>1. IInv => WorkersHaveLanes
  <2> SUFFICES ASSUME IInv, NEW l \in Launchers, at[l] # "killed"
               PROVE  \A s, t \in DOMAIN lane[l] :
                        s # t => CoresOf(lane[l][s]) \cap CoresOf(lane[l][t]) = {}
    BY DEF IInv, Laned, WorkersHaveLanes
  <2>1. \A s \in DOMAIN lane[l] : lane[l][s] \in Lanes
    BY DEF IInv, TypeOK, Range
  <2>2. QED
    BY <2>1, LanesShareNoCore DEF IInv, Laned
<1>2. QED
  BY <1>1, Invariance, PTL

-----------------------------------------------------------------------------
\* The files implement the matrix.

Shown == [s \in Shards |-> IF result[s] = Unmarked THEN Absent ELSE result[s]]

LEMMA InitIsMatrix == Init => Matrix!Init
<1> SUFFICES ASSUME Init PROVE Matrix!Init
  OBVIOUS
<1>1. 1 \in Commits
  BY Constants DEF Commits
<1>2. published \in [Cells -> Commits \cup {Absent}]
  BY <1>1 DEF Init
<1>3. Shown = [s \in Shards |-> published[s.cell]]
  BY <1>1, ShardFields, Marks DEF Init, Shown
<1>4. QED
  BY <1>2, <1>3 DEF Matrix!Init, Shown

LEMMA StepIsMatrix ==
  ASSUME IInv, [Next]_vars
  PROVE  [Matrix!Next]_(Matrix!vars)
<1> USE DEF IInv
<1>1. CASE published' # published
  <2>1. PICK l \in Launchers :
          LET c == Min(pending[l]) IN
          /\ Merge(l) /\ c \in pending[l]
          /\ \A s \in ShardsOf(c) : result[s] = commit[l] /\ result'[s] = result[s]
          /\ UNION {Indices(s) : s \in ShardsOf(c)} = 0 .. Episodes[c] - 1
          /\ published' = [published EXCEPT ![c] = commit[l]]
    BY <1>1, Publications
  <2>0. PICK c, k : c = Min(pending[l]) /\ k = commit[l]
    OBVIOUS
  <2>2. c \in Cells /\ k \in Commits
    BY <2>0, <2>1 DEF TypeOK
  <2>3. published[c] = Absent
    BY <1>1, <2>0, <2>1, <2>2, PublishedStays DEF TypeOK
  <2>4. Shown' = Shown
    BY <2>1 DEF Merge, Shown
  <2>5. {s \in Shards : s.cell = c /\ Shown[s] = k} = ShardsOf(c)
    BY <2>0, <2>1, <2>2, Marks DEF Shown, ShardsOf
  <2>6. Matrix!Publish(c, k)
    <3>1. UNION {Indices(s) : s \in {s \in Shards : s.cell = c /\ Shown[s] = k}}
            = 0 .. Episodes[c] - 1
      BY <2>0, <2>1, <2>5, Zenon
    <3>2. published' = [published EXCEPT ![c] = k]
      BY <2>0, <2>1
    <3>3. QED
      BY <2>2, <2>3, <2>4, <3>1, <3>2 DEF Matrix!Publish, Shown
  <2>7. QED
    BY <2>2, <2>6 DEF Matrix!Next
<1>2. CASE published' = published
  <2>1. CASE Shown' = Shown
    BY <1>2, <2>1 DEF Matrix!vars, Shown
  <2>2. CASE Shown' # Shown
    <3>1. ~ Surroundings
      BY <2>2, SurroundingSteps DEF Shown
    <3>2. ASSUME NEW l \in Launchers PROVE ~ LauncherStep(l)
      BY <2>2, <3>2, LauncherSteps DEF Shown
    <3>3. ~ UNCHANGED vars
      BY <2>2 DEF vars, files, Shown
    <3>4. PICK l \in Launchers, s \in Shards : WorkerStep(l, s)
      BY <3>1, <3>2, <3>3, Steps
    <3>5. result[s] \in {Absent, Unmarked} /\ result'[s] = head
      BY <2>2, <3>4, WorkerEffects, Marks DEF Shown, Reserved, ReservedAt, TypeOK
    <3>6. \A t \in Shards \ {s} : result'[t] = result[t]
      BY <3>4, WorkerEffects
    <3>7. Shown[s] = Absent /\ Shown' = [Shown EXCEPT ![s] = head]
      BY <3>5, <3>6, Marks DEF Shown, TypeOK
    <3>8. PICK k \in Commits : k = head
      BY DEF TypeOK
    <3>9. Matrix!Evaluate(s, k)
      BY <1>2, <3>7, <3>8 DEF Matrix!Evaluate, Shown
    <3>10. QED
      BY <3>9 DEF Matrix!Next
  <2>3. QED
    BY <2>1, <2>2
<1>3. QED
  BY <1>1, <1>2

\* The files implement the abstract matrix: evidence and published cells are never
\* replaced, and a cell is published from evidence of one commit for all its episodes.
THEOREM ImplementsMatrix == Spec => MatrixSpec
BY Invariance, InitIsMatrix, StepIsMatrix, PTL DEF Spec, MatrixSpec, Matrix!Spec
================================================================================
