----------------------------- MODULE MCModelCalls -----------------------------
(* Instances of ModelCalls for TLC: the values are in the .cfg files. *)
EXTENDS ModelCalls

CONSTANTS r1, r2, r3, p1, p2

TwoHomes == (r1 :> p1) @@ (r2 :> p2)
TwoMixes == {(r1 :> k) @@ (r2 :> "image") : k \in {"chat", "stream"}}

ThreeHomes == TwoHomes @@ (r3 :> p2)
ThreeChats == {[r \in {r1, r2, r3} |-> "chat"]}
===============================================================================
