-------------------------- MODULE MCKnowledgeIngest --------------------------
(* Instances of KnowledgeIngest for TLC: the values are in the .cfg files. *)
EXTENDS KnowledgeIngest

=============================================================================
