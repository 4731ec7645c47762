------------------------------ MODULE FormalMatrix ------------------------------
(***************************************************************************)
(* What the formal evaluation promises.  Every cell of the matrix is       *)
(* evaluated in shards, each shard yields one piece of evidence bound to   *)
(* the commit that produced it, and a cell is published once, from         *)
(* evidence that covers all its episodes and belongs to one commit.        *)
(* Evidence and published cells are never replaced or withdrawn.           *)
(***************************************************************************)
EXTENDS Naturals

CONSTANTS Cells,      \* the cells of the matrix
          Episodes,   \* Episodes[c] is the set of episode indices of cell c
          Shards,     \* the units of work
          CellOf,     \* the cell a shard belongs to
          Covered,    \* Covered[s] is the set of episode indices shard s runs
          Commits,
          Nothing     \* no evidence, no result

VARIABLES evidence,   \* commit of the evidence of each shard, or Nothing
          matrix      \* commit of the published result of each cell, or Nothing

vars == <<evidence, matrix>>

\* Some of the cells may have been finished before.
Init == /\ matrix \in [Cells -> Commits \cup {Nothing}]
        /\ evidence = [s \in Shards |-> matrix[CellOf[s]]]

Evaluate(s, k) == /\ evidence[s] = Nothing
                  /\ evidence' = [evidence EXCEPT ![s] = k]
                  /\ UNCHANGED matrix

Publish(c, k) ==
  /\ matrix[c] = Nothing
  /\ UNION {Covered[s] : s \in {s \in Shards : CellOf[s] = c /\ evidence[s] = k}}
       = Episodes[c]
  /\ matrix' = [matrix EXCEPT ![c] = k]
  /\ UNCHANGED evidence

Next == \E k \in Commits : \/ \E s \in Shards : Evaluate(s, k)
                           \/ \E c \in Cells : Publish(c, k)

Spec == Init /\ [][Next]_vars
=================================================================================
