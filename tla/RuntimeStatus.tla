--------------------------- MODULE RuntimeStatus ---------------------------
(***************************************************************************)
(* The lifecycle tables of kernel/runtime/status.py, and the conditional   *)
(* status update every writer of a Run or a RunStep goes through           *)
(* (kernel/runtime/runs/writer.py).  The tables are functions from a       *)
(* status to the set of statuses it may move to.                           *)
(***************************************************************************)

RunStatus ==
    {"queued", "preparing", "running", "waiting_input", "waiting_approval",
     "paused", "retrying", "succeeded", "failed", "canceled", "expired"}

StepStatus == RunStatus \cup {"skipped"}

(* The unsuccessful endings, where a live status may always go and from    *)
(* where only a retry leads on.                                            *)
Unsuccessful == {"failed", "canceled", "expired"}

TerminalStatus == {"succeeded"} \cup Unsuccessful

RunTransitions ==
    [s \in RunStatus |->
        CASE s = "queued"    -> {"preparing", "running"} \cup Unsuccessful
          [] s = "preparing" -> {"running", "waiting_input", "waiting_approval",
                                 "paused", "succeeded"} \cup Unsuccessful
          [] s = "running"   -> {"waiting_input", "waiting_approval", "paused",
                                 "succeeded"} \cup Unsuccessful
          [] s \in {"waiting_input", "waiting_approval"} -> {"running"} \cup Unsuccessful
          [] s = "paused"    -> {"running", "canceled", "expired"}
          [] s = "retrying"  -> {"queued", "preparing", "running"} \cup Unsuccessful
          [] s = "succeeded" -> {}
          [] s \in Unsuccessful -> {"retrying"}]

(* A step has one status more, skipped, reached before it runs. *)
StepTransitions ==
    [s \in StepStatus |->
        IF s = "skipped" THEN {}
        ELSE RunTransitions[s] \cup
             (IF s \in {"queued", "preparing"} THEN {"skipped"} ELSE {})]

(* A task moves through the statuses of a run. *)
TaskTransitions == RunTransitions

(***************************************************************************)
(* update_step_status / update_run_status.  `seen' is the status the       *)
(* writer's session has cached, `row' the one in the database.  A repeat   *)
(* of the cached status writes nothing and checks nothing; otherwise the   *)
(* move must be legal from the cached status, and the UPDATE is            *)
(* conditional on the row still holding it.  Losing that race is accepted  *)
(* only when the winner moved the row to the very same target.             *)
(***************************************************************************)
ConditionalMove(table, seen, row, target) ==
    IF target = seen
    THEN [ok |-> TRUE, row |-> row, seen |-> seen]
    ELSE IF target \notin table[seen]
    THEN [ok |-> FALSE, row |-> row, seen |-> seen]
    ELSE IF row = seen
    THEN [ok |-> TRUE, row |-> target, seen |-> target]
    ELSE [ok |-> row = target, row |-> row, seen |-> row]

=============================================================================
