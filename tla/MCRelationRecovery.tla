-------------------------- MODULE MCRelationRecovery --------------------------
(* Frame 2 may have to be released before frame 1, whose anchor is a Pending  *)
(* one, is linked again; its own anchor has no approach direction.            *)
EXTENDS RelationRecovery

link(f) == [frame |-> f, kind |-> "link"]
unlink(f) == [frame |-> f, kind |-> "unlink"]
MCLearned == {link(1), unlink(2), link(2)}
OneFrameLearned == {link(1)}
===============================================================================
