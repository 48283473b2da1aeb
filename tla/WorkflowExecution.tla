------------------------- MODULE WorkflowExecution -------------------------
(***************************************************************************)
(* One workflow run, execution after execution: the nodes of its graph on  *)
(* the executor (modules/workflow/runtime/executor.py), the checkpoint it  *)
(* leaves on the row of the run (runtime/resume.py), and the ways a run    *)
(* goes on: a redrive from the crash checkpoint, the resume after an       *)
(* approval, the reaper that fails a run whose worker is gone.             *)
(*                                                                         *)
(* An execution lives in the memory of one process; what survives it is    *)
(* the row and the ledger of steps, and those change only at a commit.     *)
(* With one slot the nodes share the engine's database session, with more  *)
(* each node has a session of its own, and the engine's session keeps the  *)
(* row locked from its first write to its next commit.                     *)
(***************************************************************************)
EXTENDS Naturals, FiniteSets

CONSTANTS
    Node, Edge,
    When,           \* [Edge -> {"always"} \cup Answer], the condition of an edge
    Uses,           \* [Node -> SUBSET Node], the outputs a node's input refers to
    Output,         \* the nodes of type "output"
    Gated,          \* the nodes whose tool call may need an approval
    Unsafe,         \* effectful nodes whose calls do not go through the tool call ledger
    Bulky,          \* the nodes whose output may be too long for a checkpoint
    MaxRetries,     \* retry_policy.max_retries
    MaxSteps,       \* limits.max_steps
    MaxExecutions,  \* bound: executions begun for the run
    MaxCrashes,     \* bound: processes lost
    Settings,       \* the ways a run is set up, see Setting
    NoNode

Answer == {"yes", "no"}
Execution == 1..MaxExecutions

(* semantics.on_error, semantics.concurrency, whether the run was started  *)
(* by the streaming endpoint, which commits a leased row first, and        *)
(* whether every heartbeat of a live worker arrives in time; and a bound   *)
(* on the executions of such a run.                                        *)
Setting == [onError : {"fail_fast", "continue", "compensate"}, slots : 1..2,
            claimed : BOOLEAN, steady : BOOLEAN, executions : Execution]

(* An approval is asked for the calls of "tool", "http" and "node" nodes,  *)
(* and those are the nodes whose calls go through the ledger               *)
(* (LEDGER_BACKED_NODE_TYPES); the compiler refuses a graph with a cycle,  *)
(* so that every set of nodes has one that no other of them leads to.      *)
ASSUME WorkflowAssumption ==
    /\ IsFiniteSet(Node) /\ NoNode \notin Node
    /\ Edge \subseteq Node \X Node
    /\ When \in [Edge -> {"always"} \cup Answer]
    /\ Uses \in [Node -> SUBSET Node]
    /\ Output \subseteq Node /\ Gated \subseteq Node
    /\ Unsafe \subseteq Node \ Gated /\ Bulky \subseteq Node
    /\ \A S \in SUBSET Node : S # {} => \E n \in S : \A x \in Edge : x[2] = n => x[1] \notin S
    /\ MaxRetries \in Nat /\ MaxSteps \in Nat
    /\ MaxExecutions \in Nat \ {0} /\ MaxCrashes \in Nat
    /\ Settings \subseteq Setting

VARIABLES
    setting,    \* how the run is set up
    long,       \* the nodes whose output is too long for a checkpoint
    row,        \* the committed workflow run
    ledger,     \* [Node -> SUBSET StepEnd], the committed ends of its steps
    parked,     \* the committed step of the node awaiting approval still waits
    session,    \* [Execution -> what its session holds uncommitted]
    exec,       \* [Execution -> what it has in memory]
    entered,    \* [Node -> how many executions ran it]
    begun,      \* executions prepared so far
    crashes

vars == <<setting, long, row, ledger, parked, session, exec, entered, begun, crashes>>

StepEnd == {"succeeded", "failed", "skipped"}
Verdict == {"none", "approved", "rejected"}

Empty == [node_states |-> [n \in Node |-> "none"], node_outputs |-> [n \in Node |-> "none"],
          truncated |-> {}, taken |-> FALSE, waiting |-> NoNode]

Checkpoint ==
    [node_states : [Node -> {"none", "succeeded", "skipped"}],
     node_outputs : [Node -> {"none"} \cup Answer],
     truncated : SUBSET Node, taken : BOOLEAN, waiting : Node \cup {NoNode}]

Row == [status : {"absent", "queued", "running", "waiting_approval", "failed", "succeeded"},
        leased : BOOLEAN, checkpoint : Checkpoint]

Session == [held : BOOLEAN, steps : SUBSET (Node \X StepEnd), unparked : BOOLEAN]
Clean == [held |-> FALSE, steps |-> {}, unparked |-> FALSE]

NodeState == {"none", "succeeded", "skipped", "failed", "waiting_approval"}
Phase == {"none", "queued", "restoring", "running", "over", "lost"}
Task == {"none", "running", "resolving", "waiting", "raised", "compensate", "blind", "stale", "done"}

Memory ==
    [phase : Phase, from : Checkpoint, verdict : Verdict,
     state : [Node -> NodeState], out : [Node -> {"none", "error"} \cup Answer],
     settled : SUBSET Edge, active : SUBSET Edge, ready : SUBSET Node,
     todo : SUBSET Node, task : [Node -> Task], tries : [Node -> 0..MaxRetries],
     started : Nat]

Blank(phase, point, verdict) ==
    [phase |-> phase, from |-> point, verdict |-> verdict,
     state |-> [n \in Node |-> "none"], out |-> [n \in Node |-> "none"],
     settled |-> {}, active |-> {}, ready |-> {}, todo |-> {},
     task |-> [n \in Node |-> "none"], tries |-> [n \in Node |-> 0], started |-> 0]

TypeOK ==
    /\ setting \in Settings /\ long \subseteq Bulky
    /\ row \in Row
    /\ ledger \in [Node -> SUBSET StepEnd]
    /\ parked \in BOOLEAN
    /\ session \in [Execution -> Session]
    /\ exec \in [Execution -> Memory]
    /\ entered \in [Node -> Nat]
    /\ begun \in Execution /\ crashes \in 0..MaxCrashes

-----------------------------------------------------------------------------
(* The graph, and the progress of an execution over it.                    *)

In(n) == {x \in Edge : x[2] = n}
Out(n) == {x \in Edge : x[1] = n}
First == {n \in Node : In(n) = {}}

(* resolve_edge_condition: an edge with a condition reads its source's     *)
(* output, and raises when the output is not there or is an error. Only    *)
(* what a condition can tell apart of an output is kept.                   *)
Answers(n) == IF \E x \in Out(n) : When[x] # "always" THEN Answer ELSE {"yes"}
Defined(m, x) == When[x] = "always" \/ m.out[x[1]] \in Answer
Holds(m, x) == When[x] = "always" \/ m.out[x[1]] = When[x]

(* MUTANT of Resolve: a node is skipped unless every edge to it is active. *)
Resolve_AllActive(m, n, xs) ==
    LET settled == m.settled \cup xs
        active == m.active \cup {x \in xs : m.state[n] # "skipped" /\ Holds(m, x)}
        reached == {t \in Node : /\ \E x \in xs : x[2] = t
                                 /\ In(t) \subseteq settled /\ m.state[t] = "none"}
        dead == {t \in reached : ~(In(t) \subseteq active)}
    IN [m EXCEPT !.settled = settled, !.active = active,
                 !.ready = @ \cup (reached \ dead),
                 !.state = [t \in Node |-> IF t \in dead THEN "skipped" ELSE @[t]],
                 !.todo = (@ \ {n}) \cup dead]

(* resolve_outgoing_edges over the edges xs of node n: a node all of whose *)
(* edges are settled is ready if one of them is active, else it is skipped *)
(* (mark_skipped), and its own edges are resolved in turn.                 *)
Resolve(m, n, xs) ==
    LET settled == m.settled \cup xs
        active == m.active \cup {x \in xs : m.state[n] # "skipped" /\ Holds(m, x)}
        reached == {t \in Node : /\ \E x \in xs : x[2] = t
                                 /\ In(t) \subseteq settled /\ m.state[t] = "none"}
        dead == {t \in reached : In(t) \cap active = {}}
    IN [m EXCEPT !.settled = settled, !.active = active,
                 !.ready = @ \cup (reached \ dead),
                 !.state = [t \in Node |-> IF t \in dead THEN "skipped" ELSE @[t]],
                 !.todo = (@ \ {n}) \cup dead]

(* node_states and node_outputs at the start: what the checkpoint vouches  *)
(* for, and nothing of the nodes that were still under way.                *)
Restored(m) ==
    LET point == m.from
        known == {n \in Node : point.node_states[n] # "none"}
    IN [m EXCEPT !.phase = "restoring",
                 !.state = point.node_states, !.out = point.node_outputs,
                 !.ready = First \ known, !.todo = known,
                 !.started = Cardinality({n \in Node : point.node_states[n] = "succeeded"})]

Busy(m) == {n \in Node : m.task[n] \in {"running", "resolving"}}
Halted(m) == \E n \in Node : m.task[n] \in {"raised", "compensate", "waiting", "blind", "stale"}

(* What build_checkpoint_snapshot keeps of progress s and outputs o.       *)
Snapshot(s, o) ==
    LET done == {n \in Node : s[n] = "succeeded"}
    IN [node_states |-> [n \in Node |-> IF s[n] \in {"succeeded", "skipped"} THEN s[n] ELSE "none"],
        node_outputs |-> [n \in Node |-> IF n \in done \ long THEN o[n] ELSE "none"],
        truncated |-> done \cap long, taken |-> TRUE, waiting |-> NoNode]

(* The checkpoint of an approval keeps every output, whatever its length.  *)
ApprovalPoint(m, n) ==
    [Snapshot(m.state, m.out) EXCEPT
        !.node_outputs = [k \in Node |-> IF m.state[k] = "succeeded" THEN m.out[k] ELSE "none"],
        !.truncated = {}, !.waiting = n]

Remaining(point) == {n \in Node : point.node_states[n] = "none"}

(* referenced_truncated_nodes *)
Unreadable(point) == point.truncated \cap UNION {Uses[n] : n \in Remaining(point)}

(* MUTANT of Resumable: only the outputs are looked at. *)
Resumable_AnyEffect(point) == point.taken /\ Unreadable(point) = {}

(* assess_resume: a redrive must not enter an unsafe node again, nor need  *)
(* an output that was not kept.                                            *)
Resumable(point) ==
    /\ point.taken
    /\ Remaining(point) \cap Unsafe = {}
    /\ Unreadable(point) = {}

-----------------------------------------------------------------------------
(* The row, its lock and the sessions.                                     *)

Shared == setting.slots = 1

(* The row is locked by a session that wrote it and has not committed.     *)
LockedBy(e) == session[e].held /\ row.status # "absent"
Locked == \E e \in Execution : LockedBy(e)

(* A node's session can lock the row: it is the engine's own session, or   *)
(* nobody's uncommitted write stands in the way.                           *)
CanStage(e) == \A f \in Execution : LockedBy(f) => Shared /\ e = f

(* The row once session e has committed. *)
Landed(e) == IF session[e].held THEN [row EXCEPT !.status = "running"] ELSE row

(* Session e commits, with end v of node n if there is one.                *)
CommitSteps(e, ends) ==
    /\ ledger' = [n \in Node |-> ledger[n] \cup
                     {v \in StepEnd : <<n, v>> \in ends \cup session[e].steps}]
    /\ parked' = (parked /\ ~session[e].unparked)

(* MUTANT of StageNode: the checkpoint is committed before the node's step *)
(* is.                                                                     *)
StageNode_CheckpointFirst(e, n, v, s, o) ==
    IF Shared
    THEN /\ row' = [Landed(e) EXCEPT !.checkpoint = Snapshot(s, o)]
         /\ session' = [session EXCEPT ![e].held = FALSE, ![e].steps = @ \cup {<<n, v>>}]
         /\ UNCHANGED <<ledger, parked>>
    ELSE /\ row' = IF row.status \in {"running", "queued"}
                   THEN [row EXCEPT !.checkpoint = Snapshot(s, o)] ELSE row
         /\ ledger' = [ledger EXCEPT ![n] = @ \cup {v}]
         /\ UNCHANGED <<parked, session>>

(* _stage_workflow_checkpoint and the commit of the node's outbox event.   *)
(* On the shared session the row is the cached one, which still reads as   *)
(* running; a node's own session reads it anew.                            *)
StageNode(e, n, v, s, o) ==
    IF Shared
    THEN /\ row' = [Landed(e) EXCEPT !.checkpoint = Snapshot(s, o)]
         /\ CommitSteps(e, {<<n, v>>})
         /\ session' = [session EXCEPT ![e] = Clean]
    ELSE /\ row' = IF row.status \in {"running", "queued"}
                   THEN [row EXCEPT !.checkpoint = Snapshot(s, o)] ELSE row
         /\ ledger' = [ledger EXCEPT ![n] = @ \cup {v}]
         /\ UNCHANGED <<parked, session>>

(* The engine's last write of the row, over whatever it is now, and its    *)
(* commit. Nodes it left running on their own sessions commit later.       *)
EndRow(e, status, point, left) ==
    /\ row' = [row EXCEPT !.status = status, !.leased = FALSE, !.checkpoint = point]
    /\ IF left
       THEN session' = [session EXCEPT ![e].held = FALSE] /\ UNCHANGED <<ledger, parked>>
       ELSE CommitSteps(e, {}) /\ session' = [session EXCEPT ![e] = Clean]

-----------------------------------------------------------------------------
Init ==
    /\ setting \in Settings
    /\ long \in SUBSET Bulky
    /\ row = [status |-> IF setting.claimed THEN "running" ELSE "absent",
              leased |-> setting.claimed, checkpoint |-> Empty]
    /\ ledger = [n \in Node |-> {}] /\ parked = FALSE
    /\ session = [e \in Execution |-> Clean]
    /\ exec = [e \in Execution |-> Blank(IF e = 1 THEN "queued" ELSE "none", Empty, "none")]
    /\ entered = [n \in Node |-> 0]
    /\ begun = 1 /\ crashes = 0

(* What is left of an execution that ended, or whose process was lost. *)
Over(p) == Blank(p, Empty, "none")

(* Executions that are over, or were lost, leave their nodes nothing to do *)
(* but finish.                                                             *)
NodesRun(m) == m.phase \in {"running", "over"}

(* _execute_workflow adopts the row it was staged on, or adds one of its   *)
(* own; the write waits for the lock and is not committed yet.             *)
Begin(e) ==
    /\ exec[e].phase = "queued"
    /\ ~Locked
    /\ IF Unreadable(exec[e].from) = {}
       THEN /\ exec' = [exec EXCEPT ![e] = Restored(exec[e])]
            /\ session' = [session EXCEPT ![e].held = TRUE]
            /\ UNCHANGED <<row, ledger, parked>>
       ELSE /\ exec' = [exec EXCEPT ![e] = Over("over")]
            /\ EndRow(e, "failed", row.checkpoint, FALSE)
    /\ UNCHANGED <<setting, long, entered, begun, crashes>>

(* MUTANT of NewlySkipped: a skipped node leaves no step. *)
NewlySkipped_NoStep(m, k) == {}

(* The steps that Resolve skipped between memory m and k. *)
NewlySkipped(m, k) ==
    {<<t, "skipped">> : t \in {t \in Node : m.state[t] = "none" /\ k.state[t] = "skipped"}}

(* One restored or decided node hands its edges on. *)
ResolveNode(e) ==
    LET m == exec[e] IN
    \E n \in m.todo :
        /\ m.state[n] = "skipped" \/ \A x \in Out(n) : Defined(m, x)
        /\ exec' = [exec EXCEPT ![e] = Resolve(m, n, Out(n))]
        /\ session' = [session EXCEPT ![e].steps = @ \cup NewlySkipped(m, exec'[e])]
        /\ UNCHANGED <<setting, long, row, ledger, parked, entered, begun, crashes>>

(* The condition of an edge cannot be read: at the start the execution     *)
(* fails, later (after a failed node) the edges that come after it are     *)
(* never resolved and the loop goes on.                                    *)
ResolveRaises(e) ==
    LET m == exec[e] IN
    \E n \in m.todo :
        /\ m.state[n] # "skipped" /\ \E x \in Out(n) : ~Defined(m, x)
        /\ IF m.phase = "restoring"
           THEN /\ exec' = [exec EXCEPT ![e] = Over("over")]
                /\ EndRow(e, "failed", row.checkpoint, FALSE)
           ELSE /\ \E xs \in SUBSET {x \in Out(n) : Defined(m, x)} :
                       exec' = [exec EXCEPT ![e] = Resolve(m, n, xs)]
                /\ session' = [session EXCEPT ![e].steps = @ \cup NewlySkipped(m, exec'[e])]
                /\ UNCHANGED <<row, ledger, parked>>
        /\ UNCHANGED <<setting, long, entered, begun, crashes>>

RestoreDone(e) ==
    /\ exec[e].phase = "restoring" /\ exec[e].todo = {}
    /\ exec' = [exec EXCEPT ![e].phase = "running"]
    /\ UNCHANGED <<setting, long, row, ledger, parked, session, entered, begun, crashes>>

-----------------------------------------------------------------------------
(* The nodes.                                                              *)

CanStart(m) ==
    /\ m.phase = "running" /\ ~Halted(m)
    /\ m.ready # {} /\ Cardinality(Busy(m)) < setting.slots
    /\ Shared => m.todo = {}

(* What its input refers to and the execution has not: the resolver raises.*)
Missing(m, n) == {u \in Uses[n] : m.out[u] = "none" /\ m.state[u] # "skipped"}

(* The main loop starts a node. The node an approval was given for takes   *)
(* its waiting step up again, and only a step that still waits.            *)
Start(e) ==
    LET m == exec[e] IN
    /\ CanStart(m) /\ m.started < MaxSteps
    /\ \E n \in m.ready :
        LET task == IF Missing(m, n) # {} THEN "blind"
                    ELSE IF n = m.from.waiting /\ ~parked THEN "stale" ELSE "running"
        IN /\ exec' = [exec EXCEPT ![e].ready = @ \ {n}, ![e].task[n] = task,
                                   ![e].started = @ + 1]
           /\ session' = [session EXCEPT ![e].unparked =
                              @ \/ (task = "running" /\ n = m.from.waiting)]
           /\ entered' = IF task = "running" THEN [entered EXCEPT ![n] = @ + 1] ELSE entered
    /\ UNCHANGED <<setting, long, row, ledger, parked, begun, crashes>>

(* A node's call commits before it waits on a provider (release_before_    *)
(* wait); on the shared session that makes everything staged durable.      *)
CommitEarly(e) ==
    /\ Shared /\ NodesRun(exec[e]) /\ \E n \in Node : exec[e].task[n] = "running"
    /\ session[e] # Clean
    /\ row' = Landed(e)
    /\ CommitSteps(e, {})
    /\ session' = [session EXCEPT ![e] = Clean]
    /\ UNCHANGED <<setting, long, exec, entered, begun, crashes>>

Declined(m, n) == n = m.from.waiting /\ m.verdict = "rejected"

Retry(e) ==
    /\ NodesRun(exec[e])
    /\ \E n \in Node :
        /\ exec[e].task[n] = "running" /\ ~Declined(exec[e], n)
        /\ exec[e].tries[n] < MaxRetries
        /\ exec' = [exec EXCEPT ![e].tries[n] = @ + 1]
    /\ UNCHANGED <<setting, long, row, ledger, parked, session, entered, begun, crashes>>

(* The node's step, its event and the checkpoint in one commit; its edges  *)
(* are resolved after it.                                                  *)
Succeed(e) ==
    /\ NodesRun(exec[e]) /\ CanStage(e)
    /\ \E n \in Node : \E answer \in Answers(n) :
        /\ exec[e].task[n] = "running" /\ ~Declined(exec[e], n)
        /\ exec' = [exec EXCEPT ![e].state[n] = "succeeded", ![e].out[n] = answer,
                                ![e].task[n] = "resolving", ![e].todo = @ \cup {n}]
        /\ StageNode(e, n, "succeeded", exec'[e].state, exec'[e].out)
    /\ UNCHANGED <<setting, long, entered, begun, crashes>>

(* The node's last attempt failed: recorded the same way, and then what    *)
(* on_error says.                                                          *)
Fail(e) ==
    /\ NodesRun(exec[e]) /\ CanStage(e)
    /\ \E n \in Node :
        /\ exec[e].task[n] = "running"
        /\ Declined(exec[e], n) \/ exec[e].tries[n] = MaxRetries
        /\ exec' = [exec EXCEPT ![e].state[n] = "failed",
               ![e].task[n] = CASE setting.onError = "fail_fast" -> "raised"
                                [] setting.onError = "compensate" -> "compensate"
                                [] setting.onError = "continue" -> "resolving",
               ![e].out[n] = IF setting.onError = "continue" THEN "error" ELSE @,
               ![e].todo = IF setting.onError = "continue" THEN @ \cup {n} ELSE @]
        /\ StageNode(e, n, "failed", exec'[e].state, exec'[e].out)
    /\ UNCHANGED <<setting, long, entered, begun, crashes>>

(* The node's tool call stops for an approval. *)
Wait(e) ==
    /\ NodesRun(exec[e])
    /\ \E n \in Gated :
        /\ exec[e].task[n] = "running"
        /\ n = exec[e].from.waiting => exec[e].verdict = "none"
        /\ exec' = [exec EXCEPT ![e].state[n] = "waiting_approval", ![e].task[n] = "waiting"]
    /\ UNCHANGED <<setting, long, row, ledger, parked, session, entered, begun, crashes>>

(* execute_node is over; a session of the node's own is committed. *)
EndTask(e) ==
    /\ NodesRun(exec[e]) /\ exec[e].todo = {}
    /\ \E n \in Node :
        /\ exec[e].task[n] = "resolving"
        /\ exec' = [exec EXCEPT ![e] =
               IF @.phase = "over" /\ Busy(@) = {n} THEN Over("over")
               ELSE [@ EXCEPT !.task[n] = "done"]]
    /\ IF Shared THEN UNCHANGED <<ledger, parked, session>>
       ELSE /\ CommitSteps(e, {})
            /\ session' = [session EXCEPT ![e].steps = {}, ![e].unparked = FALSE]
    /\ UNCHANGED <<setting, long, row, entered, begun, crashes>>

-----------------------------------------------------------------------------
(* The main loop and the engine.                                           *)

(* fail_fast raises out of the loop and cancels nothing: what runs on its  *)
(* own session goes on running.                                            *)
Raise(e) ==
    LET m == exec[e] IN
    /\ m.phase = "running" /\ setting.onError = "fail_fast"
    /\ \E n \in Node : m.task[n] \in {"raised", "blind", "stale"}
    /\ exec' = [exec EXCEPT ![e] =
                    IF Busy(m) = {} THEN Over("over") ELSE [m EXCEPT !.phase = "over", !.ready = {}]]
    /\ EndRow(e, "failed", row.checkpoint, Busy(m) # {})
    /\ UNCHANGED <<setting, long, entered, begun, crashes>>

(* Otherwise an exception nobody asked for is passed over in silence. *)
Swallow(e) ==
    LET m == exec[e] IN
    /\ m.phase = "running" /\ setting.onError # "fail_fast"
    /\ \E n \in Node :
        /\ m.task[n] \in {"blind", "stale"}
        /\ exec' = [exec EXCEPT ![e].task[n] = "done"]
    /\ UNCHANGED <<setting, long, row, ledger, parked, session, entered, begun, crashes>>

(* Compensation runs once nothing else does. With another node under way,  *)
(* waiting for its cancellation raises the cancellation itself, which      *)
(* nobody in the executor or the engine turns into an end of the row.      *)
Compensate(e) ==
    LET m == exec[e] IN
    /\ m.phase = "running" /\ \E n \in Node : m.task[n] = "compensate"
    /\ IF Busy(m) = {}
       THEN /\ exec' = [exec EXCEPT ![e] = Over("over")]
            /\ EndRow(e, "failed", row.checkpoint, FALSE)
       ELSE /\ exec' = [exec EXCEPT ![e] = Over("lost")]
            /\ session' = [session EXCEPT ![e] = Clean]
            /\ UNCHANGED <<row, ledger, parked>>
    /\ UNCHANGED <<setting, long, entered, begun, crashes>>

(* The run stops for an approval, with a checkpoint of all the execution   *)
(* knows; the rest is cancelled.                                           *)
StopForApproval(e) ==
    LET m == exec[e] IN
    /\ m.phase = "running"
    /\ \E n \in Node :
        /\ m.task[n] = "waiting"
        /\ row' = [row EXCEPT !.status = "waiting_approval", !.leased = FALSE,
                              !.checkpoint = ApprovalPoint(m, n)]
        /\ exec' = [exec EXCEPT ![e] = Over("over")]
    /\ ledger' = [n \in Node |-> ledger[n] \cup {v \in StepEnd : <<n, v>> \in session[e].steps}]
    /\ parked' = TRUE
    /\ session' = [session EXCEPT ![e] = Clean]
    /\ UNCHANGED <<setting, long, entered, begun, crashes>>

(* A declared limit stops the run before the next node. *)
ReachLimit(e) ==
    /\ CanStart(exec[e]) /\ exec[e].started >= MaxSteps
    /\ exec' = [exec EXCEPT ![e] = Over("over")]
    /\ EndRow(e, "failed", row.checkpoint, FALSE)
    /\ UNCHANGED <<setting, long, entered, begun, crashes>>

(* Nothing is left to run: the run succeeds with the one output that was   *)
(* reached, and fails without one.                                         *)
Complete(e) ==
    LET m == exec[e]
        answered == Cardinality({n \in Output : m.state[n] = "succeeded"}) = 1
    IN /\ m.phase = "running" /\ ~Halted(m)
       /\ m.ready = {} /\ Busy(m) = {} /\ m.todo = {}
       /\ exec' = [exec EXCEPT ![e] = Over("over")]
       /\ IF answered \/ Output = {} THEN EndRow(e, "succeeded", Empty, FALSE)
          ELSE EndRow(e, "failed", row.checkpoint, FALSE)
       /\ UNCHANGED <<setting, long, entered, begun, crashes>>

-----------------------------------------------------------------------------
(* What happens to the run from outside.                                   *)

(* The process of an execution is lost, with all it had in memory. *)
Crash(e) ==
    /\ crashes < MaxCrashes
    /\ exec[e].phase \in {"queued", "restoring", "running"} \/ Busy(exec[e]) # {}
    /\ crashes' = crashes + 1
    /\ exec' = [exec EXCEPT ![e] = Over("lost")]
    /\ session' = [session EXCEPT ![e] = Clean]
    /\ UNCHANGED <<setting, long, row, ledger, parked, entered, begun>>

(* MUTANT of Reap: only a run that could be resumed is failed. *)
Reap_Resumable ==
    /\ row.status = "running" /\ row.leased /\ ~Locked
    /\ setting.steady => \A e \in Execution : exec[e].phase \notin {"queued", "restoring", "running"}
    /\ \A e \in Execution : exec[e].phase # "queued"
    /\ row.checkpoint.taken
    /\ row' = [row EXCEPT !.status = "failed", !.leased = FALSE]
    /\ UNCHANGED <<setting, long, ledger, parked, session, exec, entered, begun, crashes>>

(* reap_orphaned_workflow_runs: the lease ran out because the process is   *)
(* gone, or because its heartbeat did not get through. A locked row is     *)
(* skipped.                                                                *)
Reap ==
    /\ row.status = "running" /\ row.leased /\ ~Locked
    /\ setting.steady => \A e \in Execution : exec[e].phase \notin {"queued", "restoring", "running"}
    /\ \A e \in Execution : exec[e].phase # "queued"
    /\ row' = [row EXCEPT !.status = "failed", !.leased = FALSE]
    /\ UNCHANGED <<setting, long, ledger, parked, session, exec, entered, begun, crashes>>

Prepare(status, verdict, leased) ==
    /\ row.status = status /\ ~Locked /\ begun < setting.executions
    /\ row' = [row EXCEPT !.status = "queued", !.leased = leased]
    /\ begun' = begun + 1
    /\ exec' = [exec EXCEPT ![begun + 1] = Blank("queued", row.checkpoint, verdict)]
    /\ UNCHANGED <<setting, long, ledger, parked, session, entered, crashes>>

(* prepare_redrive: a run that failed is staged once more, where that is   *)
(* safe.                                                                   *)
Redrive == Resumable(row.checkpoint) /\ Prepare("failed", "none", TRUE)

(* prepare_approval_resume: the run stopped for an approval that has been  *)
(* decided, resumed by the server (with a lease) or by a member.           *)
ResumeApproval ==
    \E verdict \in {"approved", "rejected"}, leased \in BOOLEAN :
        Prepare("waiting_approval", verdict, leased)

Work(e) ==
    \/ Begin(e) \/ ResolveNode(e) \/ ResolveRaises(e) \/ RestoreDone(e)
    \/ Start(e) \/ CommitEarly(e) \/ Retry(e) \/ Succeed(e) \/ Fail(e) \/ Wait(e) \/ EndTask(e)
    \/ Raise(e) \/ Swallow(e) \/ Compensate(e) \/ StopForApproval(e)
    \/ ReachLimit(e) \/ Complete(e)

Next ==
    \/ \E e \in Execution : Work(e) \/ Crash(e)
    \/ Reap \/ Redrive \/ ResumeApproval

Spec == Init /\ [][Next]_vars

(* The event loop gives every execution its turns and the reaper sweeps;   *)
(* nobody has to redrive or to decide an approval.                         *)
FairSpec == Spec /\ (\A e \in Execution : WF_vars(Work(e))) /\ WF_vars(Reap)

-----------------------------------------------------------------------------
(* Properties.                                                             *)

Steady == setting.steady

(* "A crash never leaves a checkpoint claiming a node the step ledger has  *)
(* not seen" (executor.py): through the engine that holds, for skipped     *)
(* nodes too, whose steps are written after the node that skipped them.    *)
CheckpointHonest ==
    \A n \in Node : row.checkpoint.node_states[n] # "none" =>
        row.checkpoint.node_states[n] \in ledger[n]

(* No execution starts a node whose input refers to an output it lost to   *)
(* the size limit of the checkpoint, or never had.                         *)
NeverBlind == \A e \in Execution, n \in Node : exec[e].task[n] # "blind"

(* A node that repeats an effect when it is entered again is entered once, *)
(* however often the run crashes and is redriven.                          *)
UnsafeOnce ==
    Steady /\ Shared /\ setting.onError # "continue" =>
        \A n \in Unsafe : entered[n] <= 1

(* The limit on steps holds over all the executions of a run together. *)
StepsLimited ==
    Steady => Cardinality({n \in Node : "succeeded" \in ledger[n]}) <= MaxSteps

(* A run that reports success has decided every node on the way. *)
SuccessIsComplete ==
    Steady /\ row.status = "succeeded" /\ setting.onError # "continue" =>
        \A n \in Node : ledger[n] \cap {"succeeded", "skipped"} # {}

(* What the ledger records of each node, where the data lets the executions *)
(* agree on it.                                                            *)
Recorded ==
    [n \in Node |->
        IF ~Steady \/ ledger[n] = {} THEN "open"
        ELSE IF "succeeded" \in ledger[n] THEN "succeeded"
        ELSE IF "skipped" \in ledger[n] THEN "skipped" ELSE "failed"]

(* What is recorded of the graph only grows, in the order of the graph. *)
Progress == INSTANCE GraphProgress WITH
    Fixed <- {x \in Edge : When[x] = "always"},
    progress <- Recorded

ImplementsGraphProgress == Progress!ProgressSpec

(* A leased run that was left running comes to rest: its execution ends    *)
(* it, or the reaper does.                                                 *)
RunningSettles ==
    [](row.status = "running" /\ row.leased => <>(row.status # "running"))

-----------------------------------------------------------------------------
(* What the source says and the code does not do.                          *)

(* "A context on its own session, so nodes can run concurrently"           *)
(* (engine.py): a node that runs comes to an end.                          *)
NodesFinish ==
    \A e \in Execution, n \in Node :
        [](exec[e].task[n] = "running" => <>(exec[e].task[n] # "running"))

(* "Only process death ends it early, and then the expired lease makes the *)
(* orphan visible to the reaper" (workflow_redrive.py).                    *)
StagedRunSettles == [](row.status = "queued" => <>(row.status # "queued"))

(* "A workflow run can only be resumed when re-entering every unfinished   *)
(* node is provably safe" (resume.py).                                     *)
ReentrySafe == Steady => \A n \in Unsafe : entered[n] <= 1

=============================================================================
