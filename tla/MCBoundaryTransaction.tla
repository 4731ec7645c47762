------------------------ MODULE MCBoundaryTransaction ------------------------
(* The left arm crosses an independent boundary and then one that is joint     *)
(* with the only boundary of the right arm.                                    *)
EXTENDS BoundaryTransaction

MCBoundaries == {<<"left", 0>>, <<"left", 1>>, <<"right", 0>>}
MCLastSkill == [a \in Arms |-> IF a = "left" THEN 2 ELSE 1]
MCConfirm == [b \in MCBoundaries |-> IF b = <<"left", 1>> THEN 2 ELSE 1]
MCConditions == [b \in MCBoundaries |->
                   IF b = <<"right", 0>> THEN {"local", "guard"} ELSE {"local"}]
JointGroup == [b \in MCBoundaries |-> IF b = <<"left", 0>> THEN "none" ELSE "joint"]
===============================================================================
