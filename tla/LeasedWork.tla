----------------------------- MODULE LeasedWork -----------------------------
(***************************************************************************)
(* What a durable work row promises (the module docstring of               *)
(* kernel/runtime/common/lease.py): the row is taken by one worker at a    *)
(* time, every taking is a new attempt, a row whose worker is gone can be  *)
(* taken again, and a row that is over is never taken again.               *)
(*                                                                         *)
(* How a worker comes to be gone (a crash, a lost lease, a shutdown) and   *)
(* how its place is found free (an expired lease, a released claim) is     *)
(* the business of the modules that implement this one.                    *)
(***************************************************************************)
EXTENDS Naturals

CONSTANT MaxAttempts

VARIABLES
    phase,      \* "ready", "held" or "over"
    attempt,    \* how many times the row was taken
    live        \* the attempt being executed, 0 when there is none

work == <<phase, attempt, live>>

WorkTypeOK ==
    /\ phase \in {"ready", "held", "over"}
    /\ attempt \in 0..MaxAttempts
    /\ live \in 0..MaxAttempts

WorkInit == phase = "ready" /\ attempt = 0 /\ live = 0

(* Only a row nobody executes is taken, and taking it is a new attempt. *)
Take ==
    /\ phase \in {"ready", "held"}
    /\ live = 0
    /\ attempt < MaxAttempts
    /\ phase' = "held"
    /\ attempt' = attempt + 1
    /\ live' = attempt'

(* The execution stops, for whatever reason. *)
Stop == live # 0 /\ live' = 0 /\ UNCHANGED <<phase, attempt>>

(* The row ends, by its execution or by someone outside. *)
End ==
    /\ phase \in {"ready", "held"}
    /\ phase' = "over"
    /\ live' \in {live, 0}
    /\ UNCHANGED attempt

(* A row nobody executes any more goes back to the queue. *)
GiveBack ==
    /\ phase = "held" /\ live = 0
    /\ phase' = "ready"
    /\ UNCHANGED <<attempt, live>>

WorkNext == Take \/ Stop \/ End \/ GiveBack

WorkSpec == WorkInit /\ [][WorkNext]_work

=============================================================================
