----------------------------- MODULE MCPhysicalFault -----------------------------
\* An object that a gripper attaches and one that is only held by contact; all
\* kinds of fault.
EXTENDS PhysicalFault

TwoObjects == 1 .. 2
OneGraspable == {1}
AllKinds == {"time_stall", "grasp_failure", "relation_mismatch", "unexpected_drop"}
=================================================================================
