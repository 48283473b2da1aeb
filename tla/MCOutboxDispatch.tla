-------------------------- MODULE MCOutboxDispatch --------------------------
(***************************************************************************)
(* Instances of OutboxDispatch for TLC.                                    *)
(***************************************************************************)
EXTENDS OutboxDispatch, TLC

CONSTANTS e1, e2, c1, c2, d1, w1, w2

(* A task retry that has a second consumer, and an event that has only it. *)
RetryHandlers == e1 :> {d1, c1} @@ e2 :> {c1}

(* A task retry next to an event that is not. *)
MixedHandlers == e1 :> {d1} @@ e2 :> {c1, c2}

NoPair == {}

FirstPair == {<<e1, c1>>}

SecondPair == {<<e2, c1>>}

Symmetric == Permutations({w1, w2})
=============================================================================
