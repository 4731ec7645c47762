---------------------------- MODULE MCExecutionCycle ----------------------------
(* Three skills of two, three and two states; the interval of the one LINK event     *)
(* begins with the second skill and lies within it, the link lasts until the last    *)
(* state of the third.                                                               *)
EXTENDS ExecutionCycle

MCSkill == [s \in States |-> IF s <= 1 THEN 0 ELSE IF s <= 4 THEN 1 ELSE 2]
MCEntry == [e \in Events |-> 2 .. 3]
MCOwned == [e \in Events |-> 2 .. 5]
================================================================================
