-------------------------- MODULE MCScheduleFiring --------------------------
(* Instances of ScheduleFiring for TLC: the values are in the .cfg files. *)
EXTENDS ScheduleFiring

=============================================================================
