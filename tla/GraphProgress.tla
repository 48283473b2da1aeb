--------------------------- MODULE GraphProgress ---------------------------
(***************************************************************************)
(* What the recorded progress of a workflow run promises, whatever crashes *)
(* and resumes there are in between: nodes are decided in the order of the *)
(* graph; a node is run only if some edge leads to it, and passed over     *)
(* only if none does; and what was decided stays decided, save that a node *)
(* that failed may be tried again.                                         *)
(***************************************************************************)

CONSTANTS
    Node, Edge,
    Fixed       \* the edges without a condition

VARIABLE progress

Decision == {"open", "failed", "skipped", "succeeded"}

Before(n) == {m \in Node : <<m, n>> \in Edge}

(* After p, node n may have run: it is a first node, or an edge that was   *)
(* taken leads to it, and everything before it is decided.                 *)
Reached(p, n) ==
    /\ \A m \in Before(n) : p[m] # "open"
    /\ Before(n) = {} \/ \E m \in Before(n) : p[m] \in {"succeeded", "failed"}

(* After p, node n may have been passed over: no edge without a condition  *)
(* comes from a node that ran.                                             *)
PassedOver(p, n) ==
    /\ Before(n) # {}
    /\ \A m \in Before(n) : p[m] # "open" /\ (<<m, n>> \in Fixed => p[m] = "skipped")

ProgressInit == progress = [n \in Node |-> "open"]

Decide ==
    /\ progress' \in [Node -> Decision]
    /\ \A n \in Node : progress'[n] # progress[n] =>
           \/ /\ progress'[n] \in {"failed", "succeeded"}
              /\ progress[n] \in {"open", "failed"}
              /\ Reached(progress', n)
           \/ /\ progress'[n] = "skipped" /\ progress[n] = "open"
              /\ PassedOver(progress', n)

ProgressSpec == ProgressInit /\ [][Decide]_progress

=============================================================================
