--------------------------- MODULE MCRecoveryTrigger ---------------------------
(* Relation 1 belongs to the right arm and guards the boundary of the left one. *)
EXTENDS RecoveryTrigger

OwnerOf == [r \in Relations |-> IF "right" \in Arms THEN "right" ELSE "left"]
PeerGuard == {<<"left", 1>>}
MCLastSkill == [a \in Arms |-> IF a = "left" THEN 1 ELSE 0]
MCPersist == [k \in Kinds |-> 2]
================================================================================
