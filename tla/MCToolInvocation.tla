-------------------------- MODULE MCToolInvocation --------------------------
(***************************************************************************)
(* Instances of ToolInvocation for TLC: a lease owner for every request.   *)
(***************************************************************************)
EXTENDS ToolInvocation, TLC

CONSTANTS r1, r2, r3, o1, o2, o3

OwnOwner == r1 :> o1 @@ r2 :> o2 @@ r3 :> o3
=============================================================================
