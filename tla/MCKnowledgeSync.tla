--------------------------- MODULE MCKnowledgeSync ---------------------------
(* Instances of KnowledgeSync for TLC. *)
EXTENDS KnowledgeSync

CONSTANTS i1, i2, w1, w2, p1, p2

TwoProcesses == [w \in {w1, w2} |-> IF w = w1 THEN p1 ELSE p2]
=============================================================================
