-------------------------- MODULE MCApprovalResume --------------------------
(* Instances of ApprovalResume for TLC. *)
EXTENDS ApprovalResume

CONSTANTS m1, m2

Members == {m1, m2}
=============================================================================
