---------------------------- MODULE AtomicCrossing ----------------------------
(***************************************************************************)
(* What the skill-boundary transaction promises.  Every arm walks a linear *)
(* sequence of skills.  A step moves a set of arms over their current      *)
(* boundaries; a boundary that belongs to a transaction group is crossed   *)
(* only together with every other boundary of that group.                  *)
(***************************************************************************)
EXTENDS Naturals

CONSTANTS Arms,       \* the controlled arms
          LastSkill,  \* LastSkill[a] is the index of the last skill of a
          Group,      \* transaction group of each boundary, or NoGroup
          NoGroup

VARIABLE skill        \* skill of the committed reference of each arm

Boundaries == UNION {{a} \X (0 .. LastSkill[a] - 1) : a \in Arms}

Closed(X) == \A b \in X, m \in Boundaries :
                Group[b] # NoGroup /\ Group[m] = Group[b] => m \in X

Init == skill = [a \in Arms |-> 0]

Cross(X) == /\ X \subseteq {b \in Boundaries : skill[b[1]] = b[2]}
            /\ Closed(X)
            /\ skill' = [a \in Arms |->
                           skill[a] + (IF \E b \in X : b[1] = a THEN 1 ELSE 0)]

Next == \E X \in SUBSET Boundaries : Cross(X)

Spec == Init /\ [][Next]_skill
===============================================================================
