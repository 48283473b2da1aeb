------------------------ MODULE MCWorkflowExecution ------------------------
(* Instances of WorkflowExecution for TLC: node a decides whether c runs,  *)
(* b always does, d joins the two and is the output.                       *)
EXTENDS WorkflowExecution

CONSTANTS a, b, c, d

Nodes == {a, b, c, d}
Diamond == {<<a, b>>, <<a, c>>, <<b, d>>, <<c, d>>}
Branch == [x \in Diamond |-> IF x = <<a, c>> THEN "yes" ELSE "always"]
References == [n \in Nodes |-> IF n = b THEN {a} ELSE IF n = d THEN {b, c} ELSE {}]
Join == {d}
OnlyB == {b}
OnlyC == {c}
AOrB == {a, b}

Setup(onError, slots, claimed, steady) ==
    [onError |-> onError, slots |-> slots, claimed |-> claimed, steady |-> steady,
     executions |-> IF steady THEN MaxExecutions ELSE 2]

(* One node at a time in every way, and two at a time as a request runs    *)
(* them, on a row nobody else can see yet.                                 *)
Every ==
    {Setup(o, 1, TRUE, TRUE) : o \in {"fail_fast", "continue", "compensate"}}
    \cup {Setup("fail_fast", 1, FALSE, TRUE), Setup("fail_fast", 1, TRUE, FALSE)}
    \cup {Setup(o, 2, FALSE, TRUE) : o \in {"fail_fast", "compensate"}}

Streamed == {Setup("fail_fast", 2, TRUE, TRUE)}

=============================================================================
