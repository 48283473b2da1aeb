---------------------- MODULE WorkflowExecution_proofs ----------------------
(***************************************************************************)
(* Proofs about the executions of a workflow run: the checkpoint is        *)
(* honest, an unsafe node is entered once, a success is complete, and the  *)
(* ledger of steps keeps the order of the graph.                           *)
(***************************************************************************)
EXTENDS WorkflowExecution, FiniteSetTheorems, TLAPS

(***************************************************************************)
(* Records and their fields.                                               *)
(***************************************************************************)

States == [Node -> NodeState]
Outputs == [Node -> {"none", "error"} \cup Answer]

LEMMA MemoryFields ==
    ASSUME NEW m \in Memory
    PROVE  /\ m.phase \in Phase /\ m.from \in Checkpoint /\ m.verdict \in Verdict
           /\ m.state \in States /\ m.out \in Outputs
           /\ m.settled \subseteq Edge /\ m.active \subseteq Edge /\ m.ready \subseteq Node
           /\ m.todo \subseteq Node /\ m.task \in [Node -> Task] /\ m.tries \in [Node -> 0..MaxRetries]
           /\ m.started \in Nat
BY DEF Memory, States, Outputs

LEMMA CheckpointFields ==
    ASSUME NEW c \in Checkpoint
    PROVE  /\ c.node_states \in [Node -> {"none", "succeeded", "skipped"}]
           /\ c.node_outputs \in [Node -> {"none"} \cup Answer]
           /\ c.truncated \subseteq Node /\ c.taken \in BOOLEAN /\ c.waiting \in Node \cup {NoNode}
BY DEF Checkpoint

LEMMA EmptyFields ==
    /\ Empty \in Checkpoint /\ ~Empty.taken /\ Empty.waiting = NoNode
    /\ \A n \in Node : Empty.node_states[n] = "none" /\ Empty.node_outputs[n] = "none"
BY DEF Empty, Checkpoint

LEMMA BlankFields ==
    ASSUME NEW phase \in Phase, NEW point \in Checkpoint, NEW verdict \in Verdict
    PROVE  LET m == Blank(phase, point, verdict)
           IN  /\ m \in Memory
               /\ m.phase = phase /\ m.from = point /\ m.verdict = verdict
               /\ m.settled = {} /\ m.active = {} /\ m.ready = {} /\ m.todo = {} /\ m.started = 0
               /\ \A n \in Node : /\ m.state[n] = "none" /\ m.out[n] = "none"
                                  /\ m.task[n] = "none" /\ m.tries[n] = 0
<1>1. \A n \in Node : "none" \in NodeState /\ "none" \in Task /\ 0 \in 0..MaxRetries
  BY WorkflowAssumption DEF NodeState, Task
<1>2. /\ [n \in Node |-> "none"] \in [Node -> NodeState] /\ [n \in Node |-> "none"] \in [Node -> Task]
      /\ [n \in Node |-> "none"] \in [Node -> {"none", "error"} \cup Answer]
      /\ [n \in Node |-> 0] \in [Node -> 0..MaxRetries]
  BY <1>1
<1>. HIDE DEF Phase, Checkpoint, Verdict, NodeState, Task
<1>. QED BY <1>2 DEF Blank, Memory

LEMMA OverFields ==
    ASSUME NEW p \in {"over", "lost"}
    PROVE  /\ Over(p) \in Memory /\ Over(p).phase = p /\ Over(p).from = Empty
           /\ Over(p).settled = {} /\ Over(p).active = {} /\ Over(p).ready = {} /\ Over(p).todo = {}
           /\ \A n \in Node : /\ Over(p).state[n] = "none" /\ Over(p).out[n] = "none"
                              /\ Over(p).task[n] = "none"
<1>1. p \in Phase /\ "none" \in Verdict
  BY DEF Phase, Verdict
<1>. QED BY <1>1, BlankFields, EmptyFields DEF Over

LEMMA RestoredFields ==
    ASSUME NEW m \in Memory
    PROVE  LET k == Restored(m)
               known == {n \in Node : m.from.node_states[n] # "none"}
           IN  /\ k \in Memory
               /\ k.phase = "restoring" /\ k.from = m.from /\ k.verdict = m.verdict
               /\ k.state = m.from.node_states /\ k.out = m.from.node_outputs
               /\ k.settled = m.settled /\ k.active = m.active
               /\ k.ready = First \ known /\ k.todo = known /\ k.task = m.task /\ k.tries = m.tries
<1>. DEFINE c == m.from
            known == {n \in Node : c.node_states[n] # "none"}
            kept == {n \in Node : c.node_states[n] = "succeeded"}
<1>1. c \in Checkpoint /\ c.node_states \in States /\ c.node_outputs \in Outputs
  BY MemoryFields, CheckpointFields DEF States, Outputs, NodeState
<1>2. Cardinality(kept) \in Nat
  BY WorkflowAssumption, FS_Subset, FS_CardinalityType
<1>3. First \ known \subseteq Node /\ known \subseteq Node /\ "restoring" \in Phase
  BY DEF First, Phase
<1>. HIDE DEF known, kept, First
<1>4. Restored(m) = [m EXCEPT !.phase = "restoring", !.state = c.node_states, !.out = c.node_outputs,
                              !.ready = First \ known, !.todo = known, !.started = Cardinality(kept)]
  BY DEF Restored, known, kept
<1>5. /\ Restored(m) \in Memory
      /\ Restored(m).phase = "restoring" /\ Restored(m).from = m.from /\ Restored(m).verdict = m.verdict
      /\ Restored(m).state = c.node_states /\ Restored(m).out = c.node_outputs
      /\ Restored(m).settled = m.settled /\ Restored(m).active = m.active
      /\ Restored(m).ready = First \ known /\ Restored(m).todo = known
      /\ Restored(m).task = m.task /\ Restored(m).tries = m.tries
  BY ZenonT(60), <1>1, <1>2, <1>3, <1>4 DEF Memory, States, Outputs
<1>. QED BY <1>5 DEF known

(* Nodes that are reached and to be skipped once the edges xs of n settle. *)
Settles(m, xs) == m.settled \cup xs
Activates(m, n, xs) == m.active \cup {x \in xs : m.state[n] # "skipped" /\ Holds(m, x)}
Reaches(m, xs) ==
    {t \in Node : (\E x \in xs : x[2] = t) /\ In(t) \subseteq Settles(m, xs) /\ m.state[t] = "none"}
Kills(m, n, xs) == {t \in Reaches(m, xs) : In(t) \cap Activates(m, n, xs) = {}}

LEMMA ResolveFields ==
    ASSUME NEW m \in Memory, NEW n \in Node, NEW xs \in SUBSET Edge
    PROVE  LET k == Resolve(m, n, xs)
               dead == Kills(m, n, xs)
           IN  /\ k \in Memory
               /\ k.phase = m.phase /\ k.from = m.from /\ k.verdict = m.verdict
               /\ k.out = m.out /\ k.task = m.task /\ k.tries = m.tries
               /\ k.settled = Settles(m, xs) /\ k.active = Activates(m, n, xs)
               /\ k.ready = m.ready \cup (Reaches(m, xs) \ dead)
               /\ k.todo = (m.todo \ {n}) \cup dead
               /\ \A t \in Node : k.state[t] = IF t \in dead THEN "skipped" ELSE m.state[t]
<1>. DEFINE dead == Kills(m, n, xs)
            state == [t \in Node |-> IF t \in dead THEN "skipped" ELSE m.state[t]]
<1>1. /\ Settles(m, xs) \subseteq Edge /\ Activates(m, n, xs) \subseteq Edge
      /\ Reaches(m, xs) \subseteq Node /\ dead \subseteq Node
  BY MemoryFields DEF Settles, Activates, Reaches, Kills
<1>2. state \in States
  BY MemoryFields DEF States, NodeState
<1>3. Resolve(m, n, xs) =
        [m EXCEPT !.settled = Settles(m, xs), !.active = Activates(m, n, xs),
                  !.ready = m.ready \cup (Reaches(m, xs) \ dead), !.state = state,
                  !.todo = (m.todo \ {n}) \cup dead]
  <2>1. m.ready = m.ready /\ m \in Memory
    OBVIOUS
  <2>. QED BY <2>1 DEF Resolve, Settles, Activates, Reaches, Kills, Memory
<1>. HIDE DEF dead
<1>4. /\ m.ready \cup (Reaches(m, xs) \ dead) \subseteq Node /\ (m.todo \ {n}) \cup dead \subseteq Node
  BY <1>1, MemoryFields
<1>. HIDE DEF state
<1>5. /\ Resolve(m, n, xs) \in Memory
      /\ Resolve(m, n, xs).phase = m.phase /\ Resolve(m, n, xs).from = m.from
      /\ Resolve(m, n, xs).verdict = m.verdict /\ Resolve(m, n, xs).out = m.out
      /\ Resolve(m, n, xs).task = m.task /\ Resolve(m, n, xs).tries = m.tries
      /\ Resolve(m, n, xs).settled = Settles(m, xs) /\ Resolve(m, n, xs).active = Activates(m, n, xs)
      /\ Resolve(m, n, xs).ready = m.ready \cup (Reaches(m, xs) \ dead)
      /\ Resolve(m, n, xs).todo = (m.todo \ {n}) \cup dead
      /\ Resolve(m, n, xs).state = state
  BY ZenonT(60), <1>1, <1>2, <1>3, <1>4 DEF Memory, States
<1>. QED BY <1>5 DEF dead, state

LEMMA SnapshotFields ==
    ASSUME NEW st \in States, NEW out \in Outputs,
           \A n \in Node : st[n] = "succeeded" => out[n] # "error"
    PROVE  /\ Snapshot(st, out) \in Checkpoint
           /\ Snapshot(st, out).taken /\ Snapshot(st, out).waiting = NoNode
           /\ \A n \in Node :
                /\ Snapshot(st, out).node_states[n] =
                        IF st[n] \in {"succeeded", "skipped"} THEN st[n] ELSE "none"
                /\ Snapshot(st, out).node_outputs[n] =
                        IF st[n] = "succeeded" /\ n \notin long THEN out[n] ELSE "none"
<1>. DEFINE done == {n \in Node : st[n] = "succeeded"}
            kept == [n \in Node |-> IF st[n] \in {"succeeded", "skipped"} THEN st[n] ELSE "none"]
            told == [n \in Node |-> IF n \in done \ long THEN out[n] ELSE "none"]
<1>1. kept \in [Node -> {"none", "succeeded", "skipped"}]
  OBVIOUS
<1>2. told \in [Node -> {"none"} \cup Answer]
  BY DEF Outputs
<1>3. Snapshot(st, out) = [node_states |-> kept, node_outputs |-> told, truncated |-> done \cap long,
                          taken |-> TRUE, waiting |-> NoNode]
  BY DEF Snapshot
<1>4. done \cap long \subseteq Node
  OBVIOUS
<1>. HIDE DEF kept, told, done
<1>5. /\ Snapshot(st, out) \in Checkpoint
      /\ Snapshot(st, out).node_states = kept /\ Snapshot(st, out).node_outputs = told
      /\ Snapshot(st, out).taken /\ Snapshot(st, out).waiting = NoNode
  BY <1>1, <1>2, <1>3, <1>4 DEF Checkpoint
<1>. QED BY <1>5 DEF kept, told, done

LEMMA ApprovalPointFields ==
    ASSUME NEW m \in Memory, NEW n \in Node,
           \A k \in Node : m.state[k] = "succeeded" => m.out[k] # "error"
    PROVE  /\ ApprovalPoint(m, n) \in Checkpoint
           /\ ApprovalPoint(m, n).taken /\ ApprovalPoint(m, n).waiting = n
           /\ \A k \in Node :
                /\ ApprovalPoint(m, n).node_states[k] =
                        IF m.state[k] \in {"succeeded", "skipped"} THEN m.state[k] ELSE "none"
                /\ ApprovalPoint(m, n).node_outputs[k] =
                        IF m.state[k] = "succeeded" THEN m.out[k] ELSE "none"
<1>. DEFINE c == Snapshot(m.state, m.out)
            told == [k \in Node |-> IF m.state[k] = "succeeded" THEN m.out[k] ELSE "none"]
<1>1. /\ c \in Checkpoint /\ c.taken
      /\ \A k \in Node : c.node_states[k] = IF m.state[k] \in {"succeeded", "skipped"}
                                           THEN m.state[k] ELSE "none"
  BY MemoryFields, SnapshotFields
<1>2. told \in [Node -> {"none"} \cup Answer]
  BY MemoryFields DEF Outputs
<1>3. ApprovalPoint(m, n) = [c EXCEPT !.node_outputs = told, !.truncated = {}, !.waiting = n]
  BY DEF ApprovalPoint
<1>. HIDE DEF c, told
<1>4. /\ ApprovalPoint(m, n) \in Checkpoint
      /\ ApprovalPoint(m, n).node_states = c.node_states /\ ApprovalPoint(m, n).node_outputs = told
      /\ ApprovalPoint(m, n).taken /\ ApprovalPoint(m, n).waiting = n
  BY <1>1, <1>2, <1>3 DEF Checkpoint
<1>. QED BY <1>1, <1>4 DEF told

(***************************************************************************)
(* Types.                                                                  *)
(***************************************************************************)

(* A node that succeeded has an output. *)
OutputKnown ==
    \A e \in Execution, n \in Node : exec[e].state[n] = "succeeded" => exec[e].out[n] # "error"

TypeInv == TypeOK /\ OutputKnown

LEMMA TypeFields ==
    ASSUME TypeInv
    PROVE  /\ exec \in [Execution -> Memory] /\ session \in [Execution -> Session] /\ row \in Row
           /\ row.checkpoint \in Checkpoint /\ row.leased \in BOOLEAN
           /\ setting \in Setting /\ setting.executions \in Execution
           /\ ledger \in [Node -> SUBSET StepEnd] /\ parked \in BOOLEAN
           /\ entered \in [Node -> Nat] /\ begun \in Execution
           /\ \A e \in Execution :
                /\ exec[e] \in Memory
                /\ session[e].held \in BOOLEAN /\ session[e].steps \subseteq Node \X StepEnd
                /\ session[e].unparked \in BOOLEAN
<1>1. TypeOK /\ Settings \subseteq Setting
  BY WorkflowAssumption DEF TypeInv
<1>. HIDE DEF Memory, Checkpoint
<1>. QED BY <1>1 DEF TypeOK, Row, Session, Setting

(* The sessions and the commits, by the fields that change. *)
LEMMA CleanFields ==
    Clean \in Session /\ ~Clean.held /\ Clean.steps = {} /\ ~Clean.unparked
BY DEF Clean, Session

LEMMA SessionKeeps ==
    ASSUME TypeInv, NEW e \in Execution
    PROVE  /\ session' = [session EXCEPT ![e] = Clean] =>
                session' \in [Execution -> Session] /\ session'[e] = Clean
           /\ session' = [session EXCEPT ![e].held = FALSE] =>
                /\ session' \in [Execution -> Session] /\ session'[e].steps = session[e].steps
                /\ session'[e].unparked = session[e].unparked
           /\ session' = [session EXCEPT ![e].held = TRUE] =>
                /\ session' \in [Execution -> Session] /\ session'[e].steps = session[e].steps
                /\ session'[e].held = TRUE /\ session'[e].unparked = session[e].unparked
           /\ \A more \in SUBSET (Node \X StepEnd) :
                session' = [session EXCEPT ![e].steps = @ \cup more] =>
                    /\ session' \in [Execution -> Session]
                    /\ session'[e].steps = session[e].steps \cup more
                    /\ session'[e].held = session[e].held
                    /\ session'[e].unparked = session[e].unparked
           /\ \A b \in BOOLEAN :
                session' = [session EXCEPT ![e].unparked = b] =>
                    /\ session' \in [Execution -> Session]
                    /\ session'[e].steps = session[e].steps /\ session'[e].held = session[e].held
           /\ session' = [session EXCEPT ![e].steps = {}, ![e].unparked = FALSE] =>
                /\ session' \in [Execution -> Session] /\ session'[e].steps = {}
                /\ session'[e].held = session[e].held
<1>1. session \in [Execution -> Session] /\ session[e] \in Session
  BY TypeFields
<1>2. ASSUME NEW x \in Session, session' = [session EXCEPT ![e] = x]
      PROVE  session' \in [Execution -> Session] /\ session'[e] = x
  BY <1>1, <1>2
<1>3. ASSUME session' = [session EXCEPT ![e] = Clean]
      PROVE  session' \in [Execution -> Session] /\ session'[e] = Clean
  BY <1>2, <1>3, CleanFields
<1>4. ASSUME NEW b \in BOOLEAN, session' = [session EXCEPT ![e].held = b]
      PROVE  /\ session' \in [Execution -> Session] /\ session'[e].steps = session[e].steps
             /\ session'[e].held = b /\ session'[e].unparked = session[e].unparked
  BY <1>1, <1>4 DEF Session
<1>5. ASSUME NEW more \in SUBSET (Node \X StepEnd), session' = [session EXCEPT ![e].steps = @ \cup more]
      PROVE  /\ session' \in [Execution -> Session]
             /\ session'[e].steps = session[e].steps \cup more
             /\ session'[e].held = session[e].held /\ session'[e].unparked = session[e].unparked
  BY <1>1, <1>5 DEF Session
<1>6. ASSUME NEW b \in BOOLEAN, session' = [session EXCEPT ![e].unparked = b]
      PROVE  /\ session' \in [Execution -> Session]
             /\ session'[e].steps = session[e].steps /\ session'[e].held = session[e].held
  BY <1>1, <1>6 DEF Session
<1>7. ASSUME session' = [session EXCEPT ![e].steps = {}, ![e].unparked = FALSE]
      PROVE  /\ session' \in [Execution -> Session] /\ session'[e].steps = {}
             /\ session'[e].held = session[e].held
  BY <1>1, <1>7 DEF Session
<1>. HIDE DEF Session
<1>. QED BY <1>3, <1>4, <1>5, <1>6, <1>7

LEMMA RowKeeps ==
    ASSUME TypeInv, NEW e \in Execution
    PROVE  /\ Landed(e) \in Row /\ Landed(e).checkpoint = row.checkpoint
           /\ Landed(e).leased = row.leased
           /\ Landed(e).status = row.status \/ (session[e].held /\ Landed(e).status = "running")
           /\ session[e].held => Landed(e).status = "running"
           /\ \A c \in Checkpoint : [Landed(e) EXCEPT !.checkpoint = c] \in Row
                                     /\ [row EXCEPT !.checkpoint = c] \in Row
<1>1. row \in Row /\ session[e].held \in BOOLEAN
  BY TypeFields
<1>. HIDE DEF Checkpoint
<1>. QED BY <1>1 DEF Landed, Row

LEMMA LedgerGrows ==
    ASSUME TypeInv, NEW e \in Execution, NEW ends \in SUBSET (Node \X StepEnd), CommitSteps(e, ends)
    PROVE  /\ ledger' \in [Node -> SUBSET StepEnd] /\ parked' \in BOOLEAN
           /\ parked' => parked
           /\ \A n \in Node, v \in StepEnd :
                v \in ledger'[n] <=> v \in ledger[n] \/ <<n, v>> \in ends \/ <<n, v>> \in session[e].steps
<1>1. ledger \in [Node -> SUBSET StepEnd] /\ parked \in BOOLEAN
  BY TypeFields
<1>2. ledger' = [n \in Node |-> ledger[n] \cup {v \in StepEnd : <<n, v>> \in ends \cup session[e].steps}]
  BY DEF CommitSteps
<1>3. ledger' \in [Node -> SUBSET StepEnd]
  BY <1>1, <1>2
<1>4. \A n \in Node, v \in StepEnd :
        v \in ledger'[n] <=> v \in ledger[n] \/ <<n, v>> \in ends \/ <<n, v>> \in session[e].steps
  BY <1>1, <1>2
<1>5. parked' = (parked /\ ~session[e].unparked)
  BY DEF CommitSteps
<1>6. parked' \in BOOLEAN
  BY <1>5
<1>7. parked' => parked
  BY <1>5, Zenon
<1>. QED BY <1>3, <1>4, <1>6, <1>7

(***************************************************************************)
(* What each step makes of the memory of its execution.                    *)
(***************************************************************************)

Puts(e, k) == exec' = [exec EXCEPT ![e] = k]

(* Node n alone moves, to state st, output o and task t. *)
Moves(m, k, n, st, o, t) ==
    /\ k \in Memory /\ k.from = m.from /\ k.verdict = m.verdict /\ k.phase = m.phase
    /\ k.settled = m.settled /\ k.active = m.active
    /\ k.state = [m.state EXCEPT ![n] = st] /\ k.out = [m.out EXCEPT ![n] = o]
    /\ k.task = [m.task EXCEPT ![n] = t]

LEMMA PutsFields ==
    ASSUME TypeInv, NEW e \in Execution, NEW k \in Memory, Puts(e, k)
    PROVE  /\ exec' \in [Execution -> Memory] /\ exec'[e] = k
           /\ \A f \in Execution : f # e => exec'[f] = exec[f]
<1>1. exec \in [Execution -> Memory]
  BY TypeFields
<1>. HIDE DEF Memory
<1>. QED BY <1>1 DEF Puts

LEMMA RestoreDoneEffect ==
    ASSUME TypeInv, NEW e \in Execution, RestoreDone(e)
    PROVE  \E k \in Memory :
            /\ Puts(e, k) /\ exec[e].phase = "restoring" /\ exec[e].todo = {}
            /\ k.phase = "running" /\ k.from = exec[e].from /\ k.verdict = exec[e].verdict
            /\ k.settled = exec[e].settled /\ k.active = exec[e].active /\ k.ready = exec[e].ready
            /\ k.todo = exec[e].todo /\ k.state = exec[e].state /\ k.out = exec[e].out
            /\ k.task = exec[e].task
<1>1. exec[e] \in Memory /\ "running" \in Phase
  BY TypeFields DEF Phase
<1>. DEFINE k == [exec[e] EXCEPT !.phase = "running"]
<1>2. Puts(e, k)
  BY DEF RestoreDone, Puts
<1>3. k \in Memory
  BY <1>1 DEF Memory
<1>. QED BY <1>1, <1>2, <1>3 DEF RestoreDone, Memory

LEMMA StartEffect ==
    ASSUME TypeInv, NEW e \in Execution, Start(e)
    PROVE  \E n \in exec[e].ready, k \in Memory, task \in {"blind", "stale", "running"} :
            /\ n \in Node /\ CanStart(exec[e]) /\ Puts(e, k)
            /\ task = IF Missing(exec[e], n) # {} THEN "blind"
                      ELSE IF n = exec[e].from.waiting /\ ~parked THEN "stale" ELSE "running"
            /\ Moves(exec[e], k, n, exec[e].state[n], exec[e].out[n], task)
            /\ k.ready = exec[e].ready \ {n} /\ k.todo = exec[e].todo
            /\ entered' = IF task = "running" THEN [entered EXCEPT ![n] = @ + 1] ELSE entered
            /\ \E b \in BOOLEAN : session' = [session EXCEPT ![e].unparked = b]
            /\ UNCHANGED <<setting, long, row, ledger, parked, begun, crashes>>
<1>1. exec[e] \in Memory /\ session[e].unparked \in BOOLEAN
  BY TypeFields
<1>2. PICK n \in exec[e].ready, task \in {"blind", "stale", "running"} :
        /\ task = IF Missing(exec[e], n) # {} THEN "blind"
                  ELSE IF n = exec[e].from.waiting /\ ~parked THEN "stale" ELSE "running"
        /\ exec' = [exec EXCEPT ![e].ready = @ \ {n}, ![e].task[n] = task, ![e].started = @ + 1]
        /\ session' = [session EXCEPT ![e].unparked =
                           @ \/ (task = "running" /\ n = exec[e].from.waiting)]
        /\ entered' = IF task = "running" THEN [entered EXCEPT ![n] = @ + 1] ELSE entered
  BY DEF Start
<1>. DEFINE m == exec[e]
            k == [m EXCEPT !.ready = @ \ {n}, !.task = [@ EXCEPT ![n] = task], !.started = @ + 1]
<1>3. Puts(e, k)
  <2>1. exec \in [Execution -> Memory]
    BY TypeFields
  <2>. QED BY ZenonT(60), <1>2, <2>1 DEF Puts, Memory
<1>4. n \in Node /\ task \in Task
  BY <1>1, MemoryFields DEF Task
<1>5. k \in Memory
  <2>1. /\ [m.task EXCEPT ![n] = task] \in [Node -> Task] /\ m.ready \ {n} \subseteq Node
        /\ m.started + 1 \in Nat
    BY <1>1, <1>4, MemoryFields
  <2>. QED BY <1>1, <2>1 DEF Memory
<1>6. /\ k.from = m.from /\ k.verdict = m.verdict /\ k.phase = m.phase
      /\ k.settled = m.settled /\ k.active = m.active
      /\ k.state = m.state /\ k.out = m.out /\ k.task = [m.task EXCEPT ![n] = task]
      /\ k.ready = m.ready \ {n} /\ k.todo = m.todo
  BY <1>1 DEF Memory
<1>7. m.state = [m.state EXCEPT ![n] = m.state[n]] /\ m.out = [m.out EXCEPT ![n] = m.out[n]]
  BY <1>1, MemoryFields DEF States, Outputs
<1>. HIDE DEF k
<1>8. Moves(m, k, n, m.state[n], m.out[n], task)
  BY <1>5, <1>6, <1>7 DEF Moves
<1>9. \E b \in BOOLEAN : session' = [session EXCEPT ![e].unparked = b]
  <2>. DEFINE b == session[e].unparked \/ (task = "running" /\ n = exec[e].from.waiting)
  <2>1. b \in BOOLEAN
    OBVIOUS
  <2>2. session' = [session EXCEPT ![e].unparked = b]
    BY <1>2, TypeFields DEF Session
  <2>. QED BY <2>1, <2>2
<1>10. CanStart(m) /\ UNCHANGED <<setting, long, row, ledger, parked, begun, crashes>>
  BY DEF Start
<1>. QED BY <1>2, <1>3, <1>4, <1>5, <1>6, <1>8, <1>9, <1>10

LEMMA RetryEffect ==
    ASSUME TypeInv, NEW e \in Execution, Retry(e)
    PROVE  \E n \in Node, k \in Memory :
            /\ Puts(e, k) /\ Moves(exec[e], k, n, exec[e].state[n], exec[e].out[n], exec[e].task[n])
            /\ exec[e].task[n] = "running"
            /\ k.ready = exec[e].ready /\ k.todo = exec[e].todo
<1>1. exec[e] \in Memory /\ exec \in [Execution -> Memory]
  BY TypeFields
<1>2. PICK n \in Node : /\ exec[e].task[n] = "running" /\ exec[e].tries[n] < MaxRetries
                      /\ exec' = [exec EXCEPT ![e].tries[n] = @ + 1]
  BY DEF Retry
<1>. DEFINE m == exec[e]
            tries == [m.tries EXCEPT ![n] = m.tries[n] + 1]
            k == [m EXCEPT !.tries = tries]
<1>3. Puts(e, k)
  <2>1. m.tries \in [Node -> 0..MaxRetries] /\ m.tries[n] \in Int
    BY <1>1, MemoryFields, WorkflowAssumption
  <2>. HIDE DEF Memory
  <2>2. k = [exec[e] EXCEPT !.tries = [exec[e].tries EXCEPT ![n] = exec[e].tries[n] + 1]]
    OBVIOUS
  <2>3. exec' = [exec EXCEPT ![e] = [exec[e] EXCEPT !.tries = [exec[e].tries EXCEPT ![n] = exec[e].tries[n] + 1]]]
    BY <1>1, <1>2, <2>1
  <2>. QED BY <2>2, <2>3 DEF Puts
<1>4. k \in Memory
  <2>1. m.tries \in [Node -> 0..MaxRetries] /\ m.tries[n] + 1 \in 0..MaxRetries
    BY <1>1, <1>2, MemoryFields, WorkflowAssumption
  <2>2. tries \in [Node -> 0..MaxRetries]
    BY <2>1
  <2>. HIDE DEF tries
  <2>. QED BY <1>1, <2>2 DEF Memory
<1>5. /\ k.from = m.from /\ k.verdict = m.verdict /\ k.phase = m.phase
      /\ k.settled = m.settled /\ k.active = m.active
      /\ k.state = m.state /\ k.out = m.out /\ k.task = m.task
      /\ k.ready = m.ready /\ k.todo = m.todo
  BY <1>1 DEF Memory
<1>6. /\ m.state = [m.state EXCEPT ![n] = m.state[n]] /\ m.out = [m.out EXCEPT ![n] = m.out[n]]
      /\ m.task = [m.task EXCEPT ![n] = m.task[n]]
  BY <1>1, MemoryFields DEF States, Outputs
<1>. HIDE DEF k
<1>. QED BY <1>2, <1>3, <1>4, <1>5, <1>6 DEF Moves

LEMMA SucceedEffect ==
    ASSUME TypeInv, NEW e \in Execution, Succeed(e)
    PROVE  \E n \in Node : \E answer \in Answers(n), k \in Memory :
            /\ Puts(e, k) /\ exec[e].task[n] = "running" /\ answer \in Answer
            /\ Moves(exec[e], k, n, "succeeded", answer, "resolving")
            /\ k.ready = exec[e].ready /\ k.todo = exec[e].todo \cup {n}
            /\ StageNode(e, n, "succeeded", k.state, k.out)
<1>1. exec[e] \in Memory /\ exec \in [Execution -> Memory]
  BY TypeFields
<1>2. PICK n \in Node : \E answer \in Answers(n) :
        /\ exec[e].task[n] = "running"
        /\ exec' = [exec EXCEPT ![e].state[n] = "succeeded", ![e].out[n] = answer,
                                ![e].task[n] = "resolving", ![e].todo = @ \cup {n}]
        /\ StageNode(e, n, "succeeded", exec'[e].state, exec'[e].out)
  BY DEF Succeed
<1>3. PICK answer \in Answers(n) :
        /\ exec[e].task[n] = "running"
        /\ exec' = [exec EXCEPT ![e].state[n] = "succeeded", ![e].out[n] = answer,
                                ![e].task[n] = "resolving", ![e].todo = @ \cup {n}]
        /\ StageNode(e, n, "succeeded", exec'[e].state, exec'[e].out)
  BY <1>2
<1>10. answer \in Answer
  BY DEF Answers, Answer
<1>. DEFINE m == exec[e]
            k == [m EXCEPT !.state = [@ EXCEPT ![n] = "succeeded"], !.out = [@ EXCEPT ![n] = answer],
                           !.task = [@ EXCEPT ![n] = "resolving"], !.todo = @ \cup {n}]
<1>4. Puts(e, k)
  BY <1>1, <1>3 DEF Puts, Memory
<1>5. k \in Memory
  <2>1. /\ [m.state EXCEPT ![n] = "succeeded"] \in States /\ [m.out EXCEPT ![n] = answer] \in Outputs
        /\ [m.task EXCEPT ![n] = "resolving"] \in [Node -> Task] /\ m.todo \cup {n} \subseteq Node
    BY <1>1, <1>10, MemoryFields DEF States, Outputs, NodeState, Task
  <2>. QED BY <1>1, <2>1 DEF Memory, States, Outputs
<1>6. /\ k.from = m.from /\ k.verdict = m.verdict /\ k.phase = m.phase
      /\ k.settled = m.settled /\ k.active = m.active
      /\ k.state = [m.state EXCEPT ![n] = "succeeded"] /\ k.out = [m.out EXCEPT ![n] = answer]
      /\ k.task = [m.task EXCEPT ![n] = "resolving"]
      /\ k.ready = m.ready /\ k.todo = m.todo \cup {n}
  BY <1>1 DEF Memory
<1>. HIDE DEF k
<1>7. exec'[e] = k
  BY <1>4, <1>5, PutsFields
<1>. QED BY <1>3, <1>10, <1>4, <1>5, <1>6, <1>7 DEF Moves

LEMMA FailEffect ==
    ASSUME TypeInv, NEW e \in Execution, Fail(e)
    PROVE  \E n \in Node : \E k \in Memory, o \in {"error", exec[e].out[n]},
              task \in {"raised", "compensate", "resolving"} :
            /\ Puts(e, k) /\ exec[e].task[n] = "running"
            /\ Moves(exec[e], k, n, "failed", o, task)
            /\ (task = "resolving" <=> setting.onError = "continue")
            /\ o = IF setting.onError = "continue" THEN "error" ELSE exec[e].out[n]
            /\ k.ready = exec[e].ready
            /\ k.todo = IF setting.onError = "continue" THEN exec[e].todo \cup {n} ELSE exec[e].todo
            /\ StageNode(e, n, "failed", k.state, k.out)
<1>1. exec[e] \in Memory /\ exec \in [Execution -> Memory]
  BY TypeFields
<1>. DEFINE task == CASE setting.onError = "fail_fast" -> "raised"
                      [] setting.onError = "compensate" -> "compensate"
                      [] setting.onError = "continue" -> "resolving"
            m == exec[e]
            todo(n) == IF setting.onError = "continue" THEN m.todo \cup {n} ELSE m.todo
            o(n) == IF setting.onError = "continue" THEN "error" ELSE m.out[n]
<1>2. PICK n \in Node :
        /\ exec[e].task[n] = "running"
        /\ exec' = [exec EXCEPT ![e].state[n] = "failed", ![e].task[n] = task,
               ![e].out[n] = IF setting.onError = "continue" THEN "error" ELSE @,
               ![e].todo = IF setting.onError = "continue" THEN @ \cup {n} ELSE @]
        /\ StageNode(e, n, "failed", exec'[e].state, exec'[e].out)
  BY DEF Fail
<1>3. setting.onError \in {"fail_fast", "continue", "compensate"}
  BY TypeFields DEF Setting
<1>4. task \in {"raised", "compensate", "resolving"} /\ (task = "resolving" <=> setting.onError = "continue")
  BY <1>3
<1>. HIDE DEF task
<1>. DEFINE k == [m EXCEPT !.state = [@ EXCEPT ![n] = "failed"], !.task = [@ EXCEPT ![n] = task],
                           !.out = [@ EXCEPT ![n] = o(n)], !.todo = todo(n)]
<1>5. Puts(e, k)
  BY <1>1, <1>2 DEF Puts, Memory
<1>6. k \in Memory
  <2>1. /\ [m.state EXCEPT ![n] = "failed"] \in States /\ [m.out EXCEPT ![n] = o(n)] \in Outputs
        /\ [m.task EXCEPT ![n] = task] \in [Node -> Task] /\ todo(n) \subseteq Node
    BY <1>1, <1>4, MemoryFields DEF States, Outputs, NodeState, Task
  <2>. QED BY <1>1, <2>1 DEF Memory, States, Outputs
<1>7. /\ k.from = m.from /\ k.verdict = m.verdict /\ k.phase = m.phase
      /\ k.settled = m.settled /\ k.active = m.active
      /\ k.state = [m.state EXCEPT ![n] = "failed"] /\ k.out = [m.out EXCEPT ![n] = o(n)]
      /\ k.task = [m.task EXCEPT ![n] = task]
      /\ k.ready = m.ready /\ k.todo = todo(n)
  BY <1>1 DEF Memory
<1>. HIDE DEF k
<1>8. exec'[e] = k
  BY <1>5, <1>6, PutsFields
<1>9. Moves(m, k, n, "failed", o(n), task)
  BY <1>6, <1>7 DEF Moves
<1>10. o(n) \in {"error", m.out[n]}
  OBVIOUS
<1>11. StageNode(e, n, "failed", k.state, k.out)
  BY <1>2, <1>8
<1>. QED BY <1>2, <1>4, <1>5, <1>6, <1>7, <1>9, <1>10, <1>11

LEMMA WaitEffect ==
    ASSUME TypeInv, NEW e \in Execution, Wait(e)
    PROVE  \E n \in Gated, k \in Memory :
            /\ n \in Node /\ Puts(e, k) /\ exec[e].task[n] = "running"
            /\ Moves(exec[e], k, n, "waiting_approval", exec[e].out[n], "waiting")
            /\ k.ready = exec[e].ready /\ k.todo = exec[e].todo
<1>1. exec[e] \in Memory /\ exec \in [Execution -> Memory]
  BY TypeFields
<1>2. PICK n \in Gated :
        /\ n \in Node /\ exec[e].task[n] = "running"
        /\ exec' = [exec EXCEPT ![e].state[n] = "waiting_approval", ![e].task[n] = "waiting"]
  BY WorkflowAssumption DEF Wait
<1>. DEFINE m == exec[e]
            k == [m EXCEPT !.state = [@ EXCEPT ![n] = "waiting_approval"], !.task = [@ EXCEPT ![n] = "waiting"]]
<1>3. Puts(e, k)
  BY <1>1, <1>2 DEF Puts, Memory
<1>4. k \in Memory
  <2>1. /\ [m.state EXCEPT ![n] = "waiting_approval"] \in States
        /\ [m.task EXCEPT ![n] = "waiting"] \in [Node -> Task]
    BY <1>1, MemoryFields DEF States, NodeState, Task
  <2>. QED BY <1>1, <2>1 DEF Memory, States
<1>5. /\ k.from = m.from /\ k.verdict = m.verdict /\ k.phase = m.phase
      /\ k.settled = m.settled /\ k.active = m.active /\ k.out = m.out
      /\ k.state = [m.state EXCEPT ![n] = "waiting_approval"]
      /\ k.task = [m.task EXCEPT ![n] = "waiting"]
      /\ k.ready = m.ready /\ k.todo = m.todo
  BY <1>1 DEF Memory
<1>6. m.out = [m.out EXCEPT ![n] = m.out[n]]
  BY <1>1, MemoryFields DEF Outputs
<1>. HIDE DEF k
<1>. QED BY ZenonT(60), <1>2, <1>3, <1>4, <1>5, <1>6 DEF Moves

(* A task that comes to its end, or is passed over. *)
LEMMA DoneEffect ==
    ASSUME TypeInv, NEW e \in Execution, NEW n \in Node,
           exec' = [exec EXCEPT ![e].task[n] = "done"]
    PROVE  \E k \in Memory :
            /\ Puts(e, k) /\ Moves(exec[e], k, n, exec[e].state[n], exec[e].out[n], "done")
            /\ k.ready = exec[e].ready /\ k.todo = exec[e].todo
<1>1. exec[e] \in Memory /\ exec \in [Execution -> Memory]
  BY TypeFields
<1>. DEFINE m == exec[e]
            k == [m EXCEPT !.task = [@ EXCEPT ![n] = "done"]]
<1>3. Puts(e, k)
  BY <1>1 DEF Puts, Memory
<1>4. k \in Memory
  <2>1. [m.task EXCEPT ![n] = "done"] \in [Node -> Task]
    BY <1>1, MemoryFields DEF Task
  <2>. QED BY <1>1, <2>1 DEF Memory
<1>5. /\ k.from = m.from /\ k.verdict = m.verdict /\ k.phase = m.phase
      /\ k.settled = m.settled /\ k.active = m.active /\ k.out = m.out /\ k.state = m.state
      /\ k.task = [m.task EXCEPT ![n] = "done"] /\ k.ready = m.ready /\ k.todo = m.todo
  BY <1>1 DEF Memory
<1>6. m.out = [m.out EXCEPT ![n] = m.out[n]] /\ m.state = [m.state EXCEPT ![n] = m.state[n]]
  BY <1>1, MemoryFields DEF Outputs, States
<1>. HIDE DEF k
<1>. QED BY <1>3, <1>4, <1>5, <1>6 DEF Moves

(***************************************************************************)
(* The forms a step takes: what ends an execution ends it the same way.    *)
(***************************************************************************)

(* The run fails and its execution is over. *)
Fails(e) ==
    /\ exec[e].phase \in {"queued", "restoring", "running"}
    /\ Puts(e, Over("over")) /\ EndRow(e, "failed", row.checkpoint, FALSE)
    /\ UNCHANGED <<setting, long, entered, begun, crashes>>

(* The execution is lost with what it held uncommitted. *)
Loses(e) ==
    /\ Puts(e, Over("lost")) /\ session' = [session EXCEPT ![e] = Clean]
    /\ crashes' \in 0..MaxCrashes
    /\ UNCHANGED <<setting, long, row, ledger, parked, entered, begun>>

(* It starts from its checkpoint. *)
Restores(e) ==
    /\ exec[e].phase = "queued" /\ ~Locked
    /\ Puts(e, Restored(exec[e])) /\ session' = [session EXCEPT ![e].held = TRUE]
    /\ UNCHANGED <<setting, long, row, ledger, parked, entered, begun, crashes>>

(* Node n hands on its edges xs, all of them where they can be read. *)
Hands(e, n, xs) ==
    /\ n \in exec[e].todo /\ xs \subseteq Out(n)
    /\ exec[e].state[n] # "skipped" => \A x \in xs : Defined(exec[e], x)
    /\ (exec[e].state[n] = "skipped" \/ \A x \in Out(n) : Defined(exec[e], x)) => xs = Out(n)
    /\ exec[e].phase = "restoring" => xs = Out(n)
    /\ Puts(e, Resolve(exec[e], n, xs))
    /\ session' = [session EXCEPT ![e].steps = @ \cup NewlySkipped(exec[e], Resolve(exec[e], n, xs))]
    /\ UNCHANGED <<setting, long, row, ledger, parked, entered, begun, crashes>>

(* The run fails, and nodes of the execution are still under way. *)
Leaves(e) ==
    /\ exec[e].phase = "running" /\ Busy(exec[e]) # {}
    /\ \E n \in Node : exec[e].task[n] \in {"raised", "blind", "stale"}
    /\ Puts(e, [exec[e] EXCEPT !.phase = "over", !.ready = {}])
    /\ EndRow(e, "failed", row.checkpoint, TRUE)
    /\ UNCHANGED <<setting, long, entered, begun, crashes>>

(* The run succeeds. *)
Succeeds(e) ==
    /\ exec[e].phase = "running" /\ ~Halted(exec[e])
    /\ exec[e].ready = {} /\ Busy(exec[e]) = {} /\ exec[e].todo = {}
    /\ Puts(e, Over("over")) /\ EndRow(e, "succeeded", Empty, FALSE)
    /\ UNCHANGED <<setting, long, entered, begun, crashes>>

(* The run is staged once more, from the checkpoint on its row. *)
Stages(status, verdict, leased) ==
    /\ status \in {"failed", "waiting_approval"} /\ verdict \in Verdict /\ leased \in BOOLEAN
    /\ status = "failed" => Resumable(row.checkpoint)
    /\ Prepare(status, verdict, leased)

Moved(e) ==
    \/ Fails(e) \/ Loses(e) \/ Restores(e) \/ RestoreDone(e) \/ Start(e) \/ CommitEarly(e)
    \/ Retry(e) \/ Succeed(e) \/ Fail(e) \/ Wait(e) \/ EndTask(e) \/ Leaves(e) \/ Swallow(e)
    \/ StopForApproval(e) \/ Succeeds(e)

LEMMA StepForms ==
    ASSUME TypeInv, Next
    PROVE  \/ \E e \in Execution : Moved(e)
           \/ \E e \in Execution, n \in Node, xs \in SUBSET Edge : Hands(e, n, xs)
           \/ Reap
           \/ \E status \in {"failed", "waiting_approval"}, verdict \in Verdict, leased \in BOOLEAN :
                Stages(status, verdict, leased)
<1>1. ASSUME NEW e \in Execution, Begin(e) PROVE Fails(e) \/ Restores(e)
  BY <1>1 DEF Begin, Fails, Restores, Puts
<1>2. ASSUME NEW e \in Execution, ResolveNode(e)
      PROVE  \E n \in Node, xs \in SUBSET Edge : Hands(e, n, xs)
  <2>1. exec \in [Execution -> Memory] /\ exec[e] \in Memory
    BY TypeFields
  <2>2. PICK n \in exec[e].todo :
          /\ exec[e].state[n] = "skipped" \/ \A x \in Out(n) : Defined(exec[e], x)
          /\ exec' = [exec EXCEPT ![e] = Resolve(exec[e], n, Out(n))]
          /\ session' = [session EXCEPT ![e].steps = @ \cup NewlySkipped(exec[e], exec'[e])]
          /\ UNCHANGED <<setting, long, row, ledger, parked, entered, begun, crashes>>
    BY <1>2 DEF ResolveNode
  <2>3. n \in Node /\ Out(n) \in SUBSET Edge
    BY <2>1, MemoryFields DEF Out
  <2>. HIDE DEF Memory, Resolve, NewlySkipped, Out, Defined
  <2>4. exec'[e] = Resolve(exec[e], n, Out(n))
    BY <2>1, <2>2
  <2>5. Hands(e, n, Out(n))
    BY <2>2, <2>4 DEF Hands, Puts
  <2>. QED BY <2>3, <2>5
<1>3. ASSUME NEW e \in Execution, ResolveRaises(e)
      PROVE  Fails(e) \/ \E n \in Node, xs \in SUBSET Edge : Hands(e, n, xs)
  <2>1. exec \in [Execution -> Memory] /\ exec[e] \in Memory
    BY TypeFields
  <2>2. PICK n \in exec[e].todo :
          /\ exec[e].state[n] # "skipped" /\ \E x \in Out(n) : ~Defined(exec[e], x)
          /\ IF exec[e].phase = "restoring"
             THEN /\ exec' = [exec EXCEPT ![e] = Over("over")]
                  /\ EndRow(e, "failed", row.checkpoint, FALSE)
             ELSE /\ \E xs \in SUBSET {x \in Out(n) : Defined(exec[e], x)} :
                         exec' = [exec EXCEPT ![e] = Resolve(exec[e], n, xs)]
                  /\ session' = [session EXCEPT ![e].steps = @ \cup NewlySkipped(exec[e], exec'[e])]
                  /\ UNCHANGED <<row, ledger, parked>>
          /\ UNCHANGED <<setting, long, entered, begun, crashes>>
    BY <1>3 DEF ResolveRaises
  <2>3. ASSUME exec[e].phase = "restoring" PROVE Fails(e)
    BY <2>2, <2>3 DEF Fails, Puts
  <2>4. ASSUME exec[e].phase # "restoring"
        PROVE  \E k \in Node, xs \in SUBSET Edge : Hands(e, k, xs)
    <3>1. PICK xs \in SUBSET {x \in Out(n) : Defined(exec[e], x)} :
                exec' = [exec EXCEPT ![e] = Resolve(exec[e], n, xs)]
      BY <2>2, <2>4
    <3>2. n \in Node /\ xs \in SUBSET Edge /\ xs \subseteq Out(n)
      BY <2>1, MemoryFields DEF Out
    <3>. HIDE DEF Memory, Resolve, NewlySkipped, Out, Defined
    <3>3. exec'[e] = Resolve(exec[e], n, xs)
      BY <2>1, <3>1
    <3>4. Hands(e, n, xs)
      BY <2>2, <2>4, <3>1, <3>2, <3>3 DEF Hands, Puts
    <3>. QED BY <3>2, <3>4
  <2>. QED BY <2>3, <2>4
<1>4. ASSUME NEW e \in Execution, Raise(e) PROVE Fails(e) \/ Leaves(e)
  BY <1>4 DEF Raise, Fails, Leaves, Puts
<1>5. ASSUME NEW e \in Execution, Compensate(e) PROVE Fails(e) \/ Loses(e)
  <2>1. crashes \in 0..MaxCrashes
    BY DEF TypeInv, TypeOK
  <2>. QED BY <1>5, <2>1 DEF Compensate, Fails, Loses, Puts
<1>6. ASSUME NEW e \in Execution, ReachLimit(e) PROVE Fails(e)
  BY <1>6 DEF ReachLimit, CanStart, Fails, Puts
<1>7. ASSUME NEW e \in Execution, Complete(e) PROVE Fails(e) \/ Succeeds(e)
  BY <1>7 DEF Complete, Fails, Succeeds, Puts
<1>8. ASSUME NEW e \in Execution, Crash(e) PROVE Loses(e)
  <2>1. crashes \in 0..MaxCrashes
    BY DEF TypeInv, TypeOK
  <2>2. crashes' \in 0..MaxCrashes
    BY <1>8, <2>1, WorkflowAssumption DEF Crash
  <2>. QED BY <1>8, <2>2 DEF Crash, Loses, Puts
<1>9. ASSUME Redrive PROVE Stages("failed", "none", TRUE)
  BY <1>9 DEF Redrive, Stages, Verdict
<1>10. ASSUME ResumeApproval
       PROVE  \E verdict \in Verdict, leased \in BOOLEAN : Stages("waiting_approval", verdict, leased)
  BY <1>10 DEF ResumeApproval, Stages, Verdict
<1>. QED
  BY <1>1, <1>2, <1>3, <1>4, <1>5, <1>6, <1>7, <1>8, <1>9, <1>10 DEF Next, Work, Moved, Verdict

(***************************************************************************)
(* What the commits do to the row, the ledger and the sessions.            *)
(***************************************************************************)

RowStatus == {"absent", "queued", "running", "waiting_approval", "failed", "succeeded"}

LEMMA EndKeeps ==
    ASSUME TypeInv, NEW e \in Execution, NEW status \in RowStatus, NEW point \in Checkpoint,
           NEW left \in BOOLEAN, EndRow(e, status, point, left)
    PROVE  /\ row' \in Row /\ row'.status = status /\ row'.leased = FALSE /\ row'.checkpoint = point
           /\ ledger' \in [Node -> SUBSET StepEnd] /\ parked' \in BOOLEAN
           /\ session' \in [Execution -> Session]
           /\ ~left => CommitSteps(e, {}) /\ session' = [session EXCEPT ![e] = Clean]
           /\ left => session' = [session EXCEPT ![e].held = FALSE] /\ UNCHANGED <<ledger, parked>>
<1>1. row \in Row /\ ledger \in [Node -> SUBSET StepEnd] /\ parked \in BOOLEAN
  BY TypeFields
<1>2. row' = [row EXCEPT !.status = status, !.leased = FALSE, !.checkpoint = point]
  BY DEF EndRow
<1>3. row' \in Row /\ row'.status = status /\ row'.leased = FALSE /\ row'.checkpoint = point
  <2>. HIDE DEF Checkpoint
  <2>. QED BY <1>1, <1>2 DEF Row, RowStatus
<1>4. ASSUME left PROVE session' = [session EXCEPT ![e].held = FALSE] /\ UNCHANGED <<ledger, parked>>
  BY <1>4 DEF EndRow
<1>5. ASSUME ~left PROVE CommitSteps(e, {}) /\ session' = [session EXCEPT ![e] = Clean]
  BY <1>5 DEF EndRow
<1>6. {} \in SUBSET (Node \X StepEnd)
  OBVIOUS
<1>. QED BY <1>1, <1>3, <1>4, <1>5, <1>6, LedgerGrows, SessionKeeps

LEMMA CloseKeeps ==
    ASSUME TypeInv, NEW e \in Execution, NEW status \in RowStatus, NEW point \in Checkpoint,
           EndRow(e, status, point, FALSE)
    PROVE  /\ row'.status = status /\ row'.checkpoint = point /\ row'.leased = FALSE
           /\ CommitSteps(e, {}) /\ session' = [session EXCEPT ![e] = Clean]
<1>. DEFINE left == FALSE
<1>1. left \in BOOLEAN /\ ~left /\ EndRow(e, status, point, left)
  OBVIOUS
<1>. HIDE DEF left
<1>. QED BY <1>1, EndKeeps

(* Whatever succeeded has an output that is not an error. *)
Told(st, out) == \A t \in Node : st[t] = "succeeded" => out[t] # "error"

LEMMA StageKeeps ==
    ASSUME TypeInv, NEW e \in Execution, NEW n \in Node, NEW v \in StepEnd,
           NEW st \in States, NEW out \in Outputs,
           Told(st, out), StageNode(e, n, v, st, out)
    PROVE  /\ row' \in Row /\ row'.leased = row.leased
           /\ row'.checkpoint \in {row.checkpoint, Snapshot(st, out)}
           /\ ledger' \in [Node -> SUBSET StepEnd] /\ parked' \in BOOLEAN
           /\ session' \in [Execution -> Session]
           /\ Shared => /\ CommitSteps(e, {<<n, v>>}) /\ session' = [session EXCEPT ![e] = Clean]
                        /\ row'.checkpoint = Snapshot(st, out)
                        /\ row'.status = Landed(e).status
<1>1. /\ row \in Row /\ ledger \in [Node -> SUBSET StepEnd] /\ parked \in BOOLEAN
      /\ session \in [Execution -> Session]
  BY TypeFields
<1>. DEFINE c == Snapshot(st, out)
<1>2. c \in Checkpoint
  BY SnapshotFields DEF Told
<1>. HIDE DEF c, Checkpoint
<1>3. ASSUME Shared
      PROVE  /\ row' \in Row /\ row'.leased = row.leased /\ row'.checkpoint = c
             /\ row'.status = Landed(e).status
             /\ CommitSteps(e, {<<n, v>>}) /\ session' = [session EXCEPT ![e] = Clean]
  <2>1. /\ row' = [Landed(e) EXCEPT !.checkpoint = c] /\ CommitSteps(e, {<<n, v>>})
        /\ session' = [session EXCEPT ![e] = Clean]
    BY <1>3 DEF StageNode, c
  <2>2. Landed(e) \in Row /\ Landed(e).leased = row.leased
    BY RowKeeps
  <2>. QED BY <1>2, <2>1, <2>2 DEF Row
<1>4. ASSUME ~Shared
      PROVE  /\ row' \in Row /\ row'.leased = row.leased /\ row'.checkpoint \in {row.checkpoint, c}
             /\ ledger' = [ledger EXCEPT ![n] = @ \cup {v}] /\ UNCHANGED <<parked, session>>
  BY <1>1, <1>2, <1>4 DEF StageNode, c, Row
<1>5. {<<n, v>>} \in SUBSET (Node \X StepEnd)
  OBVIOUS
<1>6. ASSUME Shared
      PROVE  /\ ledger' \in [Node -> SUBSET StepEnd] /\ parked' \in BOOLEAN
             /\ session' \in [Execution -> Session]
  BY <1>3, <1>5, <1>6, LedgerGrows, SessionKeeps
<1>7. ASSUME ~Shared
      PROVE  /\ ledger' \in [Node -> SUBSET StepEnd] /\ parked' \in BOOLEAN
             /\ session' \in [Execution -> Session]
  <2>1. UNCHANGED <<parked, session>>
    BY <1>4, <1>7
  <2>2. ledger' \in [Node -> SUBSET StepEnd]
    BY <1>1, <1>4, <1>7
  <2>. QED BY <1>1, <2>1, <2>2
<1>. QED BY <1>3, <1>4, <1>6, <1>7 DEF c

LEMMA PutsKnown ==
    ASSUME TypeInv, NEW e \in Execution, NEW k \in Memory, Puts(e, k),
           \A n \in Node : k.state[n] = "succeeded" => k.out[n] # "error"
    PROVE  exec' \in [Execution -> Memory] /\ OutputKnown'
BY PutsFields DEF TypeInv, OutputKnown

LEMMA Words ==
    /\ {"none", "succeeded", "skipped", "failed", "waiting_approval"} \subseteq NodeState
    /\ {"none", "running", "resolving", "waiting", "raised", "compensate", "blind", "stale", "done"} \subseteq Task
    /\ \A m \in Memory, n \in Node : /\ m.state[n] \in NodeState /\ m.task[n] \in Task
                                     /\ m.out[n] \in {"none", "error"} \cup Answer
<1>1. \A m \in Memory, n \in Node : /\ m.state[n] \in NodeState /\ m.task[n] \in Task
                                   /\ m.out[n] \in {"none", "error"} \cup Answer
  BY MemoryFields DEF States, Outputs
<1>. QED BY <1>1 DEF NodeState, Task

LEMMA MovesKnown ==
    ASSUME TypeInv, NEW e \in Execution, NEW k \in Memory, NEW n \in Node,
           NEW st \in NodeState, NEW o \in {"none", "error"} \cup Answer, NEW t \in Task,
           Puts(e, k), Moves(exec[e], k, n, st, o, t),
           st = "succeeded" => o # "error"
    PROVE  /\ exec' \in [Execution -> Memory] /\ OutputKnown'
           /\ k.state \in States /\ k.out \in Outputs
           /\ \A i \in Node : k.state[i] = "succeeded" => k.out[i] # "error"
           /\ k.state[n] = st /\ k.out[n] = o /\ k.task[n] = t
           /\ \A i \in Node \ {n} : /\ k.state[i] = exec[e].state[i] /\ k.out[i] = exec[e].out[i]
                                    /\ k.task[i] = exec[e].task[i]
<1>1. exec[e] \in Memory
  BY TypeFields
<1>2. /\ exec[e].state \in States /\ exec[e].out \in Outputs /\ exec[e].task \in [Node -> Task]
      /\ k.state \in States /\ k.out \in Outputs
  BY <1>1, MemoryFields
<1>3. /\ k.state[n] = st /\ k.out[n] = o /\ k.task[n] = t
      /\ \A i \in Node \ {n} : /\ k.state[i] = exec[e].state[i] /\ k.out[i] = exec[e].out[i]
                               /\ k.task[i] = exec[e].task[i]
  BY <1>2 DEF Moves, States, Outputs
<1>4. \A i \in Node : exec[e].state[i] = "succeeded" => exec[e].out[i] # "error"
  BY DEF TypeInv, OutputKnown
<1>5. \A i \in Node : k.state[i] = "succeeded" => k.out[i] # "error"
  BY <1>3, <1>4
<1>. QED BY <1>2, <1>3, <1>5, PutsKnown

LEMMA TypeFrom ==
    ASSUME TypeInv, UNCHANGED <<setting, long>>,
           row' \in Row, ledger' \in [Node -> SUBSET StepEnd], parked' \in BOOLEAN,
           session' \in [Execution -> Session], exec' \in [Execution -> Memory],
           entered' \in [Node -> Nat], begun' \in Execution, crashes' \in 0..MaxCrashes, OutputKnown'
    PROVE  TypeInv'
BY DEF TypeInv, TypeOK

LEMMA HandsFields ==
    ASSUME TypeInv, NEW e \in Execution, NEW n \in Node, NEW xs \in SUBSET Edge, Hands(e, n, xs)
    PROVE  \E k \in Memory, dead \in SUBSET Node :
             /\ Puts(e, k) /\ exec' \in [Execution -> Memory] /\ exec'[e] = k
             /\ dead = Kills(exec[e], n, xs)
             /\ \A t \in dead : exec[e].state[t] = "none"
             /\ k.phase = exec[e].phase /\ k.from = exec[e].from /\ k.verdict = exec[e].verdict
             /\ k.out = exec[e].out /\ k.task = exec[e].task
             /\ k.settled = Settles(exec[e], xs) /\ k.active = Activates(exec[e], n, xs)
             /\ k.ready = exec[e].ready \cup (Reaches(exec[e], xs) \ dead)
             /\ k.todo = (exec[e].todo \ {n}) \cup dead
             /\ \A t \in Node : k.state[t] = IF t \in dead THEN "skipped" ELSE exec[e].state[t]
             /\ session' \in [Execution -> Session]
             /\ session'[e].steps = session[e].steps \cup {<<t, "skipped">> : t \in dead}
             /\ session'[e].held = session[e].held
             /\ \A f \in Execution \ {e} : session'[f] = session[f]
<1>. DEFINE m == exec[e]
            k == Resolve(m, n, xs)
            dead == Kills(m, n, xs)
<1>1. m \in Memory /\ session \in [Execution -> Session]
  BY TypeFields
<1>2. /\ k \in Memory
      /\ k.phase = m.phase /\ k.from = m.from /\ k.verdict = m.verdict
      /\ k.out = m.out /\ k.task = m.task
      /\ k.settled = Settles(m, xs) /\ k.active = Activates(m, n, xs)
      /\ k.ready = m.ready \cup (Reaches(m, xs) \ dead)
      /\ k.todo = (m.todo \ {n}) \cup dead
      /\ \A t \in Node : k.state[t] = IF t \in dead THEN "skipped" ELSE m.state[t]
  BY <1>1, ResolveFields
<1>3. dead \subseteq Node /\ \A t \in dead : m.state[t] = "none"
  BY DEF Kills, Reaches
<1>4. Puts(e, k) /\ session' = [session EXCEPT ![e].steps = @ \cup NewlySkipped(m, k)]
  BY DEF Hands
<1>5. exec' \in [Execution -> Memory] /\ exec'[e] = k
  BY <1>2, <1>4, PutsFields
<1>. HIDE DEF k, dead
<1>6. NewlySkipped(m, k) = {<<t, "skipped">> : t \in dead}
  BY <1>2, <1>3 DEF NewlySkipped
<1>7. {<<t, "skipped">> : t \in dead} \in SUBSET (Node \X StepEnd)
  BY <1>3 DEF StepEnd
<1>8. /\ session' \in [Execution -> Session]
      /\ session'[e].steps = session[e].steps \cup {<<t, "skipped">> : t \in dead}
      /\ session'[e].held = session[e].held
  BY <1>4, <1>6, <1>7, SessionKeeps
<1>9. \A f \in Execution \ {e} : session'[f] = session[f]
  BY <1>1, <1>4
<1>. QED BY <1>2, <1>3, <1>4, <1>5, <1>8, <1>9 DEF dead

LEMMA EndTaskEffect ==
    ASSUME TypeInv, NEW e \in Execution, EndTask(e)
    PROVE  \E n \in Node :
            /\ exec[e].task[n] = "resolving" /\ exec[e].todo = {}
            /\ \/ exec[e].phase = "over" /\ Puts(e, Over("over"))
               \/ \E k \in Memory :
                    /\ Puts(e, k) /\ Moves(exec[e], k, n, exec[e].state[n], exec[e].out[n], "done")
                    /\ k.ready = exec[e].ready /\ k.todo = exec[e].todo
<1>1. exec[e] \in Memory
  BY TypeFields
<1>2. PICK n \in Node :
        /\ exec[e].task[n] = "resolving"
        /\ exec' = [exec EXCEPT ![e] =
               IF @.phase = "over" /\ Busy(@) = {n} THEN Over("over")
               ELSE [@ EXCEPT !.task[n] = "done"]]
  BY DEF EndTask
<1>3. exec[e].todo = {}
  BY DEF EndTask
<1>4. ASSUME exec[e].phase = "over" /\ Busy(exec[e]) = {n} PROVE Puts(e, Over("over"))
  BY <1>2, <1>4 DEF Puts
<1>5. ASSUME ~(exec[e].phase = "over" /\ Busy(exec[e]) = {n})
      PROVE  exec' = [exec EXCEPT ![e].task[n] = "done"]
  BY <1>2, <1>5
<1>6. ASSUME exec' = [exec EXCEPT ![e].task[n] = "done"]
      PROVE  \E k \in Memory :
                /\ Puts(e, k) /\ Moves(exec[e], k, n, exec[e].state[n], exec[e].out[n], "done")
                /\ k.ready = exec[e].ready /\ k.todo = exec[e].todo
  BY <1>6, DoneEffect
<1>. QED BY <1>2, <1>3, <1>4, <1>5, <1>6

LEMMA LeavesEffect ==
    ASSUME TypeInv, NEW e \in Execution, Leaves(e)
    PROVE  \E k \in Memory :
            /\ Puts(e, k) /\ k.phase = "over" /\ k.from = exec[e].from /\ k.verdict = exec[e].verdict
            /\ k.settled = exec[e].settled /\ k.active = exec[e].active /\ k.ready = {}
            /\ k.todo = exec[e].todo /\ k.state = exec[e].state /\ k.out = exec[e].out
            /\ k.task = exec[e].task
<1>1. exec[e] \in Memory /\ "over" \in Phase
  BY TypeFields DEF Phase
<1>. DEFINE k == [exec[e] EXCEPT !.phase = "over", !.ready = {}]
<1>2. k \in Memory
  BY <1>1 DEF Memory
<1>. QED BY <1>1, <1>2 DEF Leaves, Memory

LEMMA StopEffect ==
    ASSUME TypeInv, NEW e \in Execution, StopForApproval(e)
    PROVE  \E n \in Node :
            /\ exec[e].phase = "running" /\ exec[e].task[n] = "waiting"
            /\ row' \in Row /\ row'.status = "waiting_approval" /\ row'.leased = FALSE
            /\ row'.checkpoint = ApprovalPoint(exec[e], n)
            /\ \A i \in Node : row'.checkpoint.node_states[i] =
                    IF exec[e].state[i] \in {"succeeded", "skipped"} THEN exec[e].state[i] ELSE "none"
            /\ Puts(e, Over("over"))
            /\ ledger' \in [Node -> SUBSET StepEnd]
            /\ \A i \in Node, v \in StepEnd :
                    v \in ledger'[i] <=> v \in ledger[i] \/ <<i, v>> \in session[e].steps
            /\ session' = [session EXCEPT ![e] = Clean]
<1>1. /\ exec[e] \in Memory /\ row \in Row /\ ledger \in [Node -> SUBSET StepEnd]
      /\ \A i \in Node : exec[e].state[i] = "succeeded" => exec[e].out[i] # "error"
  BY TypeFields DEF TypeInv, OutputKnown
<1>2. PICK n \in Node :
        /\ exec[e].task[n] = "waiting"
        /\ row' = [row EXCEPT !.status = "waiting_approval", !.leased = FALSE,
                              !.checkpoint = ApprovalPoint(exec[e], n)]
        /\ exec' = [exec EXCEPT ![e] = Over("over")]
  BY DEF StopForApproval
<1>. DEFINE c == ApprovalPoint(exec[e], n)
<1>3. /\ c \in Checkpoint
      /\ \A i \in Node : c.node_states[i] =
            IF exec[e].state[i] \in {"succeeded", "skipped"} THEN exec[e].state[i] ELSE "none"
  BY <1>1, ApprovalPointFields
<1>. HIDE DEF c, Checkpoint
<1>4. row' \in Row /\ row'.status = "waiting_approval" /\ row'.leased = FALSE /\ row'.checkpoint = c
  BY <1>1, <1>2, <1>3 DEF Row, c
<1>5. ledger' = [i \in Node |-> ledger[i] \cup {v \in StepEnd : <<i, v>> \in session[e].steps}]
  BY DEF StopForApproval
<1>6. /\ ledger' \in [Node -> SUBSET StepEnd]
      /\ \A i \in Node, v \in StepEnd :
            v \in ledger'[i] <=> v \in ledger[i] \/ <<i, v>> \in session[e].steps
  BY <1>1, <1>5
<1>7. exec[e].phase = "running" /\ session' = [session EXCEPT ![e] = Clean]
  BY DEF StopForApproval
<1>8. Puts(e, Over("over"))
  BY <1>2 DEF Puts
<1>. QED BY <1>2, <1>3, <1>4, <1>6, <1>7, <1>8 DEF c

LEMMA StagesEffect ==
    ASSUME TypeInv, NEW status, NEW verdict, NEW leased, Stages(status, verdict, leased)
    PROVE  \E e \in Execution, k \in Memory :
            /\ e = begun + 1 /\ begun' = e /\ ~Locked
            /\ status = row.status /\ status \in {"failed", "waiting_approval"}
            /\ Puts(e, k) /\ k = Blank("queued", row.checkpoint, verdict)
            /\ k.phase = "queued" /\ k.from = row.checkpoint /\ k.verdict = verdict
            /\ k.settled = {} /\ k.active = {} /\ k.ready = {} /\ k.todo = {}
            /\ \A n \in Node : k.state[n] = "none" /\ k.out[n] = "none" /\ k.task[n] = "none"
            /\ row' \in Row /\ row'.status = "queued" /\ row'.checkpoint = row.checkpoint
            /\ UNCHANGED <<setting, long, ledger, parked, session, entered, crashes>>
<1>1. /\ row \in Row /\ row.checkpoint \in Checkpoint /\ begun \in Execution
      /\ setting.executions \in Execution
  BY TypeFields
<1>2. /\ status = row.status /\ ~Locked /\ begun < setting.executions
      /\ row' = [row EXCEPT !.status = "queued", !.leased = leased]
      /\ begun' = begun + 1
      /\ exec' = [exec EXCEPT ![begun + 1] = Blank("queued", row.checkpoint, verdict)]
      /\ UNCHANGED <<setting, long, ledger, parked, session, entered, crashes>>
      /\ status \in {"failed", "waiting_approval"} /\ verdict \in Verdict /\ leased \in BOOLEAN
  BY DEF Stages, Prepare
<1>3. begun + 1 \in Execution
  BY <1>1, <1>2, WorkflowAssumption DEF Execution
<1>. DEFINE k == Blank("queued", row.checkpoint, verdict)
<1>4. "queued" \in Phase
  BY DEF Phase
<1>5. /\ k \in Memory
      /\ k.phase = "queued" /\ k.from = row.checkpoint /\ k.verdict = verdict
      /\ k.settled = {} /\ k.active = {} /\ k.ready = {} /\ k.todo = {}
      /\ \A n \in Node : k.state[n] = "none" /\ k.out[n] = "none" /\ k.task[n] = "none"
  BY <1>1, <1>2, <1>4, BlankFields
<1>6. row' \in Row /\ row'.status = "queued" /\ row'.checkpoint = row.checkpoint
  <2>. HIDE DEF Checkpoint
  <2>. QED BY <1>1, <1>2 DEF Row
<1>7. Puts(begun + 1, k)
  BY <1>2 DEF Puts
<1>. HIDE DEF Memory, k
<1>. QED BY <1>2, <1>3, <1>5, <1>6, <1>7 DEF k

LEMMA TypeInit ==
    ASSUME Init PROVE TypeInv
<1>1. 1 \in Execution /\ 0 \in 0..MaxCrashes /\ Settings \subseteq Setting
  BY WorkflowAssumption DEF Execution
<1>2. \A e \in Execution :
        /\ exec[e] \in Memory
        /\ \A n \in Node : exec[e].state[n] = "none"
  <2>. SUFFICES ASSUME NEW e \in Execution
               PROVE  exec[e] \in Memory /\ \A n \in Node : exec[e].state[n] = "none"
    OBVIOUS
  <2>1. exec[e] = Blank(IF e = 1 THEN "queued" ELSE "none", Empty, "none")
    BY DEF Init
  <2>2. "queued" \in Phase /\ "none" \in Phase /\ "none" \in Verdict
    BY DEF Phase, Verdict
  <2>. HIDE DEF Memory
  <2>. QED BY <2>1, <2>2, BlankFields, EmptyFields
<1>3. exec \in [Execution -> Memory]
  <2>. HIDE DEF Memory, Blank
  <2>. QED BY <1>2 DEF Init
<1>4. row \in Row
  BY <1>1, EmptyFields DEF Init, Row, Setting
<1>5. session \in [Execution -> Session]
  BY CleanFields DEF Init
<1>6. ledger \in [Node -> SUBSET StepEnd] /\ entered \in [Node -> Nat]
  BY DEF Init
<1>7. OutputKnown
  BY <1>2 DEF OutputKnown
<1>. QED BY <1>1, <1>3, <1>4, <1>5, <1>6, <1>7 DEF Init, TypeInv, TypeOK

LEMMA TypeMoved ==
    ASSUME TypeInv, NEW e \in Execution, Moved(e) PROVE TypeInv'
<1>1. /\ exec \in [Execution -> Memory] /\ session \in [Execution -> Session] /\ row \in Row
      /\ row.checkpoint \in Checkpoint
      /\ ledger \in [Node -> SUBSET StepEnd] /\ parked \in BOOLEAN
      /\ entered \in [Node -> Nat] /\ begun \in Execution /\ crashes \in 0..MaxCrashes
  BY TypeFields DEF TypeInv, TypeOK
<1>2. exec[e] \in Memory /\ \A i \in Node : exec[e].state[i] = "succeeded" => exec[e].out[i] # "error"
  BY <1>1 DEF TypeInv, OutputKnown
<1>3. "failed" \in RowStatus /\ "succeeded" \in RowStatus /\ TRUE \in BOOLEAN /\ FALSE \in BOOLEAN
  BY DEF RowStatus
<1>4. ASSUME Puts(e, Over("over")) \/ Puts(e, Over("lost"))
      PROVE  exec' \in [Execution -> Memory] /\ OutputKnown'
  <2>1. PICK p \in {"over", "lost"} : Puts(e, Over(p))
    BY <1>4
  <2>2. Over(p) \in Memory /\ \A n \in Node : Over(p).state[n] = "none"
    BY OverFields
  <2>. QED BY <2>1, <2>2, PutsKnown
<1>5. CASE Fails(e)
  <2>1. Puts(e, Over("over")) /\ EndRow(e, "failed", row.checkpoint, FALSE)
        /\ UNCHANGED <<setting, long, entered, begun, crashes>>
    BY <1>5 DEF Fails
  <2>2. /\ row' \in Row /\ ledger' \in [Node -> SUBSET StepEnd] /\ parked' \in BOOLEAN
        /\ session' \in [Execution -> Session]
    BY <1>1, <1>3, <2>1, EndKeeps
  <2>. QED BY <1>1, <1>4, <2>1, <2>2, TypeFrom
<1>6. CASE Loses(e)
  <2>1. session' \in [Execution -> Session]
    BY <1>6, SessionKeeps DEF Loses
  <2>. QED BY <1>1, <1>4, <1>6, <2>1, TypeFrom DEF Loses
<1>7. CASE Restores(e)
  <2>1. /\ Puts(e, Restored(exec[e])) /\ session' = [session EXCEPT ![e].held = TRUE]
        /\ UNCHANGED <<setting, long, row, ledger, parked, entered, begun, crashes>>
    BY <1>7 DEF Restores
  <2>2. /\ Restored(exec[e]) \in Memory
        /\ Restored(exec[e]).out = exec[e].from.node_outputs
    BY <1>2, RestoredFields
  <2>3. \A n \in Node : exec[e].from.node_outputs[n] # "error"
    BY <1>2, MemoryFields, CheckpointFields DEF Answer
  <2>4. exec' \in [Execution -> Memory] /\ OutputKnown'
    BY <2>1, <2>2, <2>3, PutsKnown
  <2>5. session' \in [Execution -> Session]
    BY <2>1, SessionKeeps
  <2>. QED BY <1>1, <2>1, <2>4, <2>5, TypeFrom
<1>8. CASE RestoreDone(e)
  <2>1. exec' \in [Execution -> Memory] /\ OutputKnown'
    BY <1>2, <1>8, RestoreDoneEffect, PutsKnown
  <2>2. UNCHANGED <<setting, long, row, ledger, parked, session, entered, begun, crashes>>
    BY <1>8 DEF RestoreDone
  <2>. QED BY <1>1, <2>1, <2>2, TypeFrom
<1>9. CASE Start(e)
  <2>1. PICK n \in exec[e].ready, k \in Memory, task \in {"blind", "stale", "running"} :
            /\ n \in Node /\ Puts(e, k)
            /\ Moves(exec[e], k, n, exec[e].state[n], exec[e].out[n], task)
            /\ entered' = IF task = "running" THEN [entered EXCEPT ![n] = @ + 1] ELSE entered
            /\ \E b \in BOOLEAN : session' = [session EXCEPT ![e].unparked = b]
            /\ UNCHANGED <<setting, long, row, ledger, parked, begun, crashes>>
    BY <1>9, StartEffect
  <2>2. exec' \in [Execution -> Memory] /\ OutputKnown'
    BY <1>2, <2>1, Words, MovesKnown
  <2>3. session' \in [Execution -> Session]
    BY <2>1, SessionKeeps
  <2>4. entered' \in [Node -> Nat]
    BY <1>1, <2>1
  <2>. QED BY <1>1, <2>1, <2>2, <2>3, <2>4, TypeFrom
<1>10. CASE CommitEarly(e)
  <2>1. /\ row' = Landed(e) /\ CommitSteps(e, {}) /\ session' = [session EXCEPT ![e] = Clean]
        /\ UNCHANGED <<setting, long, exec, entered, begun, crashes>>
    BY <1>10 DEF CommitEarly
  <2>2. {} \in SUBSET (Node \X StepEnd)
    OBVIOUS
  <2>3. /\ row' \in Row /\ ledger' \in [Node -> SUBSET StepEnd] /\ parked' \in BOOLEAN
        /\ session' \in [Execution -> Session]
    BY <2>1, <2>2, RowKeeps, LedgerGrows, SessionKeeps
  <2>4. OutputKnown'
    BY <2>1 DEF TypeInv, OutputKnown
  <2>. QED BY <1>1, <2>1, <2>3, <2>4, TypeFrom
<1>11. CASE Retry(e)
  <2>3. PICK n \in Node, k \in Memory :
            Puts(e, k) /\ Moves(exec[e], k, n, exec[e].state[n], exec[e].out[n], exec[e].task[n])
    BY <1>11, RetryEffect
  <2>4. /\ exec[e].state[n] = "succeeded" => exec[e].out[n] # "error"
        /\ exec[e].state[n] \in NodeState /\ exec[e].task[n] \in Task
        /\ exec[e].out[n] \in {"none", "error"} \cup Answer
    BY <1>2, Words
  <2>1. exec' \in [Execution -> Memory] /\ OutputKnown'
    BY <2>3, <2>4, MovesKnown
  <2>2. UNCHANGED <<setting, long, row, ledger, parked, session, entered, begun, crashes>>
    BY <1>11 DEF Retry
  <2>. QED BY <1>1, <2>1, <2>2, TypeFrom
<1>12. CASE Succeed(e)
  <2>1. PICK n \in Node : \E answer \in Answers(n), k \in Memory :
            /\ Puts(e, k) /\ answer \in Answer
            /\ Moves(exec[e], k, n, "succeeded", answer, "resolving")
            /\ StageNode(e, n, "succeeded", k.state, k.out)
    BY <1>12, SucceedEffect
  <2>2. PICK answer \in Answer, k \in Memory :
            /\ Puts(e, k)
            /\ Moves(exec[e], k, n, "succeeded", answer, "resolving")
            /\ StageNode(e, n, "succeeded", k.state, k.out)
    BY <2>1
  <2>3. "succeeded" \in StepEnd
    BY DEF StepEnd
  <2>7. /\ answer \in {"none", "error"} \cup Answer /\ answer # "error"
        /\ "succeeded" \in NodeState /\ "resolving" \in Task
    BY <2>2, Words DEF Answer
  <2>4. /\ exec' \in [Execution -> Memory] /\ OutputKnown'
        /\ k.state \in States /\ k.out \in Outputs
        /\ Told(k.state, k.out)
    BY <2>2, <2>7, MovesKnown DEF Told
  <2>8. StageNode(e, n, "succeeded", k.state, k.out)
    BY <2>2
  <2>5. /\ row' \in Row /\ ledger' \in [Node -> SUBSET StepEnd] /\ parked' \in BOOLEAN
        /\ session' \in [Execution -> Session]
    BY <2>3, <2>4, <2>8, StageKeeps
  <2>6. UNCHANGED <<setting, long, entered, begun, crashes>>
    BY <1>12 DEF Succeed
  <2>. QED BY <1>1, <2>4, <2>5, <2>6, TypeFrom
<1>13. CASE Fail(e)
  <2>1. PICK n \in Node : \E k \in Memory, o \in {"error", exec[e].out[n]},
                             task \in {"raised", "compensate", "resolving"} :
            /\ Puts(e, k) /\ Moves(exec[e], k, n, "failed", o, task)
            /\ StageNode(e, n, "failed", k.state, k.out)
    BY <1>13, FailEffect, ZenonT(40)
  <2>2. PICK k \in Memory, o \in {"error", exec[e].out[n]},
             task \in {"raised", "compensate", "resolving"} :
            /\ Puts(e, k) /\ Moves(exec[e], k, n, "failed", o, task)
            /\ StageNode(e, n, "failed", k.state, k.out)
    BY <2>1
  <2>3. "failed" \in StepEnd
    BY DEF StepEnd
  <2>7. /\ o \in {"none", "error"} \cup Answer /\ "failed" \in NodeState /\ task \in Task
    BY <1>2, Words
  <2>4. /\ exec' \in [Execution -> Memory] /\ OutputKnown'
        /\ k.state \in States /\ k.out \in Outputs
        /\ Told(k.state, k.out)
    BY <2>2, <2>7, MovesKnown DEF Told
  <2>5. /\ row' \in Row /\ ledger' \in [Node -> SUBSET StepEnd] /\ parked' \in BOOLEAN
        /\ session' \in [Execution -> Session]
    BY <2>2, <2>3, <2>4, StageKeeps
  <2>6. UNCHANGED <<setting, long, entered, begun, crashes>>
    BY <1>13 DEF Fail
  <2>. QED BY <1>1, <2>4, <2>5, <2>6, TypeFrom
<1>14. CASE Wait(e)
  <2>1. PICK n \in Gated, k \in Memory :
            /\ n \in Node /\ Puts(e, k)
            /\ Moves(exec[e], k, n, "waiting_approval", exec[e].out[n], "waiting")
    BY <1>14, WaitEffect
  <2>4. /\ exec[e].out[n] \in {"none", "error"} \cup Answer
        /\ "waiting_approval" \in NodeState /\ "waiting" \in Task
    BY <1>2, <2>1, Words
  <2>2. exec' \in [Execution -> Memory] /\ OutputKnown'
    BY <2>1, <2>4, MovesKnown
  <2>3. UNCHANGED <<setting, long, row, ledger, parked, session, entered, begun, crashes>>
    BY <1>14 DEF Wait
  <2>. QED BY <1>1, <2>2, <2>3, TypeFrom
<1>15. CASE EndTask(e)
  <2>1. PICK n \in Node :
            \/ Puts(e, Over("over"))
            \/ \E k \in Memory :
                /\ Puts(e, k) /\ Moves(exec[e], k, n, exec[e].state[n], exec[e].out[n], "done")
    BY <1>15, EndTaskEffect
  <2>2. exec' \in [Execution -> Memory] /\ OutputKnown'
    BY <1>2, <1>4, <2>1, Words, MovesKnown
  <2>3. UNCHANGED <<setting, long, row, entered, begun, crashes>>
    BY <1>15 DEF EndTask
  <2>4. \/ UNCHANGED <<ledger, parked, session>>
        \/ CommitSteps(e, {}) /\ session' = [session EXCEPT ![e].steps = {}, ![e].unparked = FALSE]
    BY <1>15 DEF EndTask
  <2>5. {} \in SUBSET (Node \X StepEnd)
    OBVIOUS
  <2>6. /\ ledger' \in [Node -> SUBSET StepEnd] /\ parked' \in BOOLEAN
        /\ session' \in [Execution -> Session]
    BY <1>1, <2>4, <2>5, LedgerGrows, SessionKeeps
  <2>. QED BY <1>1, <2>2, <2>3, <2>6, TypeFrom
<1>16. CASE Leaves(e)
  <2>1. exec' \in [Execution -> Memory] /\ OutputKnown'
    BY <1>2, <1>16, LeavesEffect, PutsKnown
  <2>2. EndRow(e, "failed", row.checkpoint, TRUE) /\ UNCHANGED <<setting, long, entered, begun, crashes>>
    BY <1>16 DEF Leaves
  <2>3. /\ row' \in Row /\ ledger' \in [Node -> SUBSET StepEnd] /\ parked' \in BOOLEAN
        /\ session' \in [Execution -> Session]
    BY <1>1, <1>3, <2>2, EndKeeps
  <2>. QED BY <1>1, <2>1, <2>2, <2>3, TypeFrom
<1>17. CASE Swallow(e)
  <2>1. PICK n \in Node : exec' = [exec EXCEPT ![e].task[n] = "done"]
    BY <1>17 DEF Swallow
  <2>4. PICK k \in Memory :
            Puts(e, k) /\ Moves(exec[e], k, n, exec[e].state[n], exec[e].out[n], "done")
    BY <2>1, DoneEffect
  <2>5. /\ exec[e].state[n] = "succeeded" => exec[e].out[n] # "error"
        /\ exec[e].state[n] \in NodeState /\ "done" \in Task
        /\ exec[e].out[n] \in {"none", "error"} \cup Answer
    BY <1>2, Words
  <2>2. exec' \in [Execution -> Memory] /\ OutputKnown'
    BY <2>4, <2>5, MovesKnown
  <2>3. UNCHANGED <<setting, long, row, ledger, parked, session, entered, begun, crashes>>
    BY <1>17 DEF Swallow
  <2>. QED BY <1>1, <2>2, <2>3, TypeFrom
<1>18. CASE StopForApproval(e)
  <2>1. /\ row' \in Row /\ Puts(e, Over("over")) /\ ledger' \in [Node -> SUBSET StepEnd]
        /\ session' = [session EXCEPT ![e] = Clean]
    BY <1>18, StopEffect
  <2>2. session' \in [Execution -> Session]
    BY <2>1, SessionKeeps
  <2>3. parked' \in BOOLEAN /\ UNCHANGED <<setting, long, entered, begun, crashes>>
    BY <1>18 DEF StopForApproval
  <2>. QED BY <1>1, <1>4, <2>1, <2>2, <2>3, TypeFrom
<1>19. CASE Succeeds(e)
  <2>1. Puts(e, Over("over")) /\ EndRow(e, "succeeded", Empty, FALSE)
        /\ UNCHANGED <<setting, long, entered, begun, crashes>>
    BY <1>19 DEF Succeeds
  <2>2. /\ row' \in Row /\ ledger' \in [Node -> SUBSET StepEnd] /\ parked' \in BOOLEAN
        /\ session' \in [Execution -> Session]
    BY <1>1, <1>3, <2>1, EndKeeps, EmptyFields
  <2>. QED BY <1>1, <1>4, <2>1, <2>2, TypeFrom
<1>. QED
  BY <1>5, <1>6, <1>7, <1>8, <1>9, <1>10, <1>11, <1>12, <1>13, <1>14, <1>15, <1>16, <1>17, <1>18, <1>19
     DEF Moved

LEMMA TypeStep ==
    ASSUME TypeInv, [Next]_vars PROVE TypeInv'
<1>1. /\ exec \in [Execution -> Memory] /\ session \in [Execution -> Session] /\ row \in Row
      /\ ledger \in [Node -> SUBSET StepEnd] /\ parked \in BOOLEAN
      /\ entered \in [Node -> Nat] /\ begun \in Execution /\ crashes \in 0..MaxCrashes
  BY TypeFields DEF TypeInv, TypeOK
<1>2. ASSUME NEW e \in Execution, NEW n \in Node, NEW xs \in SUBSET Edge, Hands(e, n, xs)
      PROVE  TypeInv'
  <2>1. PICK k \in Memory :
            /\ Puts(e, k) /\ k.out = exec[e].out /\ session' \in [Execution -> Session]
            /\ \A t \in Node : k.state[t] \in {"skipped", exec[e].state[t]}
    BY <1>2, HandsFields
  <2>2. exec' \in [Execution -> Memory] /\ OutputKnown'
    BY <2>1, PutsKnown DEF TypeInv, OutputKnown
  <2>3. UNCHANGED <<setting, long, row, ledger, parked, entered, begun, crashes>>
    BY <1>2 DEF Hands
  <2>. QED BY <1>1, <2>1, <2>2, <2>3, TypeFrom
<1>3. ASSUME Reap PROVE TypeInv'
  <2>1. /\ row' = [row EXCEPT !.status = "failed", !.leased = FALSE]
        /\ UNCHANGED <<setting, long, ledger, parked, session, exec, entered, begun, crashes>>
    BY <1>3 DEF Reap
  <2>2. row' \in Row
    <3>. HIDE DEF Checkpoint
    <3>. QED BY <1>1, <2>1 DEF Row
  <2>3. OutputKnown'
    BY <2>1 DEF TypeInv, OutputKnown
  <2>. QED BY <1>1, <2>1, <2>2, <2>3, TypeFrom
<1>4. ASSUME NEW status, NEW verdict, NEW leased, Stages(status, verdict, leased) PROVE TypeInv'
  <2>1. PICK e \in Execution, k \in Memory :
            /\ begun' = e /\ Puts(e, k) /\ row' \in Row /\ \A n \in Node : k.state[n] = "none"
            /\ UNCHANGED <<setting, long, ledger, parked, session, entered, crashes>>
    BY <1>4, StagesEffect
  <2>2. exec' \in [Execution -> Memory] /\ OutputKnown'
    BY <2>1, PutsKnown
  <2>. QED BY <1>1, <2>1, <2>2, TypeFrom
<1>5. ASSUME UNCHANGED vars PROVE TypeInv'
  BY <1>5 DEF vars, TypeInv, TypeOK, OutputKnown
<1>. QED BY <1>2, <1>3, <1>4, <1>5, TypeMoved, StepForms

LEMMA TypeInvariant == Spec => []TypeInv
<1>1. Init => TypeInv
  BY TypeInit
<1>2. TypeInv /\ [Next]_vars => TypeInv'
  BY TypeStep
<1>. QED BY <1>1, <1>2, PTL DEF Spec

(* In every state every variable has its type: above all the checkpoint on *)
(* the row and the memory of each execution are records of progress over   *)
(* the nodes of the graph.                                                 *)
THEOREM WorkflowTypeCorrect == Spec => []TypeOK
<1>1. TypeInv => TypeOK
  BY DEF TypeInv
<1>. QED BY <1>1, TypeInvariant, PTL

(***************************************************************************)
(* The checkpoint claims no more than the ledger has.                      *)
(***************************************************************************)

Decided == {"succeeded", "skipped"}

(* What an execution knows decided is committed, or staged on its session. *)
Tracked ==
    \A e \in Execution, n \in Node : exec[e].state[n] \in Decided =>
        exec[e].state[n] \in ledger[n] \/ <<n, exec[e].state[n]>> \in session[e].steps

(* An execution starts from nothing the ledger has not. *)
FromHonest ==
    \A e \in Execution, n \in Node : exec[e].from.node_states[n] # "none" =>
        exec[e].from.node_states[n] \in ledger[n]

HonestInv == TypeInv /\ (Shared => Tracked /\ FromHonest /\ CheckpointHonest)

(* The ledger loses nothing, and only the session of e changes. *)
Up == \A n \in Node, v \in StepEnd : v \in ledger[n] => v \in ledger'[n]
Apart(e) == \A f \in Execution \ {e} : session'[f] = session[f]

LEMMA Commits ==
    ASSUME TypeInv, NEW e \in Execution, NEW ends \in SUBSET (Node \X StepEnd),
           CommitSteps(e, ends), session' = [session EXCEPT ![e] = Clean]
    PROVE  /\ Up /\ Apart(e)
           /\ \A n \in Node, v \in StepEnd : <<n, v>> \in session[e].steps \cup ends => v \in ledger'[n]
BY LedgerGrows, TypeFields DEF Up, Apart

LEMMA HonestFrom ==
    ASSUME HonestInv, Shared, TypeInv', UNCHANGED setting, Up,
           NEW e \in Execution, Apart(e), NEW k \in Memory, Puts(e, k),
           \A n \in Node : k.state[n] \in Decided =>
                k.state[n] \in ledger'[n] \/ <<n, k.state[n]>> \in session'[e].steps,
           \A n \in Node : k.from.node_states[n] # "none" => k.from.node_states[n] \in ledger'[n],
           CheckpointHonest'
    PROVE  HonestInv'
<1>1. TypeInv /\ Tracked /\ FromHonest
  BY DEF HonestInv
<1>2. Decided \subseteq StepEnd
  BY DEF Decided, StepEnd
<1>3. exec'[e] = k /\ \A f \in Execution \ {e} : exec'[f] = exec[f] /\ session'[f] = session[f]
  BY <1>1, PutsFields DEF Apart
<1>4. Tracked'
  <2>. SUFFICES ASSUME NEW f \in Execution, NEW n \in Node, exec'[f].state[n] \in Decided
               PROVE  \/ exec'[f].state[n] \in ledger'[n]
                      \/ <<n, exec'[f].state[n]>> \in session'[f].steps
    BY DEF Tracked
  <2>1. CASE f = e
    BY <1>3, <2>1
  <2>2. CASE f # e
    <3>1. exec'[f] = exec[f] /\ session'[f] = session[f]
      BY <1>3, <2>2
    <3>2. exec[f].state[n] \in ledger[n] \/ <<n, exec[f].state[n]>> \in session[f].steps
      BY <1>1, <3>1 DEF Tracked
    <3>. QED BY <1>2, <3>1, <3>2 DEF Up
  <2>. QED BY <2>1, <2>2
<1>5. FromHonest'
  <2>. SUFFICES ASSUME NEW f \in Execution, NEW n \in Node, exec'[f].from.node_states[n] # "none"
               PROVE  exec'[f].from.node_states[n] \in ledger'[n]
    BY DEF FromHonest
  <2>1. CASE f = e
    BY <1>3, <2>1
  <2>2. CASE f # e
    <3>1. exec'[f] = exec[f]
      BY <1>3, <2>2
    <3>2. exec[f].from.node_states[n] \in ledger[n]
      BY <1>1, <3>1 DEF FromHonest
    <3>3. exec[f].from.node_states[n] \in {"none", "succeeded", "skipped"}
      BY <1>1, TypeFields, MemoryFields, CheckpointFields
    <3>4. exec[f].from.node_states[n] \in StepEnd
      BY <3>1, <3>3 DEF StepEnd
    <3>. QED BY <3>1, <3>2, <3>4 DEF Up
  <2>. QED BY <2>1, <2>2
<1>. QED BY <1>4, <1>5 DEF HonestInv

(* A checkpoint that stays on the row stays honest. *)
LEMMA HonestStays ==
    ASSUME HonestInv, Shared, Up, row'.checkpoint = row.checkpoint
    PROVE  CheckpointHonest'
<1>1. /\ CheckpointHonest
      /\ \A n \in Node : row.checkpoint.node_states[n] \in {"none", "succeeded", "skipped"}
  BY TypeFields, CheckpointFields DEF HonestInv
<1>. QED BY <1>1 DEF CheckpointHonest, Up, StepEnd

LEMMA HonestOver ==
    ASSUME HonestInv, Shared, TypeInv', UNCHANGED setting, Up,
           NEW e \in Execution, Apart(e), NEW p \in {"over", "lost"}, Puts(e, Over(p)),
           CheckpointHonest'
    PROVE  HonestInv'
<1>1. /\ Over(p) \in Memory
      /\ \A n \in Node : Over(p).state[n] = "none" /\ Over(p).from.node_states[n] = "none"
  BY OverFields, EmptyFields
<1>2. \A n \in Node : Over(p).state[n] \notin Decided
  BY <1>1 DEF Decided
<1>. QED BY <1>1, <1>2, HonestFrom

(* The memory changes, nothing is committed, and nothing else is decided. *)
LEMMA HonestMemory ==
    ASSUME HonestInv, Shared, TypeInv', UNCHANGED <<setting, row, ledger>>,
           NEW e \in Execution, Apart(e), session[e].steps \subseteq session'[e].steps,
           NEW k \in Memory, Puts(e, k), k.from = exec[e].from,
           \A n \in Node : k.state[n] \in Decided =>
                \/ k.state[n] = exec[e].state[n] \/ k.state[n] \in ledger[n]
                \/ <<n, k.state[n]>> \in session'[e].steps
    PROVE  HonestInv'
<1>1. Up
  BY DEF Up
<1>2. CheckpointHonest'
  BY <1>1, HonestStays
<1>3. \A n \in Node : k.state[n] \in Decided =>
            k.state[n] \in ledger'[n] \/ <<n, k.state[n]>> \in session'[e].steps
  BY DEF HonestInv, Tracked
<1>4. \A n \in Node : k.from.node_states[n] # "none" => k.from.node_states[n] \in ledger'[n]
  BY DEF HonestInv, FromHonest
<1>. QED BY <1>1, <1>2, <1>3, <1>4, HonestFrom

(* Node n ends as v, with its checkpoint and everything staged before. *)
LEMMA HonestStage ==
    ASSUME HonestInv, Shared, TypeInv', UNCHANGED setting, NEW e \in Execution, NEW n \in Node,
           NEW v \in {"succeeded", "failed"}, NEW k \in Memory, Puts(e, k),
           k.from = exec[e].from, k.state = [exec[e].state EXCEPT ![n] = v],
           Told(k.state, k.out), StageNode(e, n, v, k.state, k.out)
    PROVE  HonestInv'
<1>1. /\ TypeInv /\ v \in StepEnd /\ {<<n, v>>} \in SUBSET (Node \X StepEnd)
      /\ k.state \in States /\ k.out \in Outputs /\ exec[e].state \in States
  BY TypeFields, MemoryFields DEF HonestInv, StepEnd
<1>2. /\ CommitSteps(e, {<<n, v>>}) /\ session' = [session EXCEPT ![e] = Clean]
      /\ row'.checkpoint = Snapshot(k.state, k.out)
  BY <1>1, StageKeeps
<1>3. /\ Up /\ Apart(e)
      /\ \A i \in Node, w \in StepEnd :
            <<i, w>> \in session[e].steps \cup {<<n, v>>} => w \in ledger'[i]
  BY <1>1, <1>2, Commits
<1>4. \A i \in Node : k.state[i] \in Decided => k.state[i] \in ledger'[i]
  <2>. SUFFICES ASSUME NEW i \in Node, k.state[i] \in Decided PROVE k.state[i] \in ledger'[i]
    OBVIOUS
  <2>1. k.state[i] \in StepEnd
    BY DEF Decided, StepEnd
  <2>2. CASE i = n
    <3>1. k.state[i] = v
      BY <1>1, <2>2 DEF States
    <3>. QED BY <1>1, <1>3, <2>2, <3>1
  <2>3. CASE i # n
    <3>1. k.state[i] = exec[e].state[i]
      BY <1>1, <2>3 DEF States
    <3>2. exec[e].state[i] \in ledger[i] \/ <<i, exec[e].state[i]>> \in session[e].steps
      BY <3>1 DEF HonestInv, Tracked
    <3>. QED BY <1>3, <2>1, <3>1, <3>2 DEF Up
  <2>. QED BY <2>2, <2>3
<1>5. CheckpointHonest'
  <2>1. \A i \in Node : row'.checkpoint.node_states[i] =
            IF k.state[i] \in {"succeeded", "skipped"} THEN k.state[i] ELSE "none"
    <3>1. \A i \in Node : Snapshot(k.state, k.out).node_states[i] =
            IF k.state[i] \in {"succeeded", "skipped"} THEN k.state[i] ELSE "none"
      BY <1>1, SnapshotFields DEF Told
    <3>. QED BY <1>2, <3>1
  <2>. QED BY <1>4, <2>1 DEF CheckpointHonest, Decided
<1>6. \A i \in Node : k.from.node_states[i] # "none" => k.from.node_states[i] \in ledger'[i]
  <2>1. \A i \in Node : k.from.node_states[i] \in {"none", "succeeded", "skipped"}
    BY MemoryFields, CheckpointFields
  <2>. QED BY <1>3, <2>1 DEF HonestInv, FromHonest, Up, StepEnd
<1>. QED BY <1>3, <1>4, <1>5, <1>6, HonestFrom

LEMMA SettingStays ==
    ASSUME TypeInv, [Next]_vars PROVE UNCHANGED <<setting, long>>
<1>1. ASSUME NEW e \in Execution, Moved(e) PROVE UNCHANGED <<setting, long>>
  BY <1>1 DEF Moved, Fails, Loses, Restores, RestoreDone, Start, CommitEarly, Retry, Succeed, Fail, Wait,
     EndTask, Leaves, Swallow, StopForApproval, Succeeds
<1>2. ASSUME NEW e \in Execution, NEW n \in Node, NEW xs \in SUBSET Edge, Hands(e, n, xs)
      PROVE  UNCHANGED <<setting, long>>
  BY <1>2 DEF Hands
<1>3. ASSUME Reap PROVE UNCHANGED <<setting, long>>
  BY <1>3 DEF Reap
<1>4. ASSUME NEW status, NEW verdict, NEW leased, Stages(status, verdict, leased)
      PROVE  UNCHANGED <<setting, long>>
  BY <1>4 DEF Stages, Prepare
<1>5. ASSUME UNCHANGED vars PROVE UNCHANGED <<setting, long>>
  BY <1>5 DEF vars
<1>. QED BY <1>1, <1>2, <1>3, <1>4, <1>5, StepForms

LEMMA HonestMoved ==
    ASSUME HonestInv, Shared, NEW e \in Execution, Moved(e), TypeInv', UNCHANGED setting
    PROVE  HonestInv'
<1>1. /\ TypeInv /\ exec[e] \in Memory /\ session \in [Execution -> Session]
      /\ row.checkpoint \in Checkpoint /\ {} \in SUBSET (Node \X StepEnd)
      /\ exec \in [Execution -> Memory] /\ setting \in Setting
      /\ Tracked /\ FromHonest
  BY TypeFields DEF HonestInv
<1>2. "failed" \in RowStatus /\ "succeeded" \in RowStatus /\ FALSE \in BOOLEAN /\ TRUE \in BOOLEAN
  BY DEF RowStatus
<1>3. ASSUME NEW b \in BOOLEAN, \/ session' = [session EXCEPT ![e].held = b]
                                \/ session' = [session EXCEPT ![e].unparked = b]
      PROVE  Apart(e) /\ session'[e].steps = session[e].steps
  BY <1>1, <1>3 DEF Apart, Session
<1>4. ASSUME UNCHANGED session PROVE Apart(e) /\ session'[e].steps = session[e].steps
  BY <1>4 DEF Apart
<1>5. CASE Fails(e)
  <2>1. Puts(e, Over("over")) /\ EndRow(e, "failed", row.checkpoint, FALSE)
    BY <1>5 DEF Fails
  <2>2. /\ CommitSteps(e, {}) /\ session' = [session EXCEPT ![e] = Clean]
        /\ row'.checkpoint = row.checkpoint
    BY <1>1, <1>2, <2>1, CloseKeeps
  <2>3. Up /\ Apart(e)
    BY <1>1, <2>2, Commits
  <2>4. CheckpointHonest'
    BY <2>2, <2>3, HonestStays
  <2>. QED BY <2>1, <2>3, <2>4, HonestOver
<1>6. CASE Loses(e)
  <2>1. /\ Puts(e, Over("lost")) /\ session' = [session EXCEPT ![e] = Clean]
        /\ UNCHANGED <<row, ledger>>
    BY <1>6 DEF Loses
  <2>2. Up /\ Apart(e)
    BY <1>1, <2>1 DEF Up, Apart
  <2>3. CheckpointHonest'
    BY <2>1, <2>2, HonestStays
  <2>. QED BY <2>1, <2>2, <2>3, HonestOver
<1>7. CASE Restores(e)
  <2>1. /\ Puts(e, Restored(exec[e])) /\ session' = [session EXCEPT ![e].held = TRUE]
        /\ UNCHANGED <<row, ledger>>
    BY <1>7 DEF Restores
  <2>2. Apart(e) /\ session'[e].steps = session[e].steps
    BY <1>2, <1>3, <2>1
  <2>3. /\ Restored(exec[e]) \in Memory /\ Restored(exec[e]).from = exec[e].from
        /\ Restored(exec[e]).state = exec[e].from.node_states
    BY <1>1, RestoredFields
  <2>4. \A n \in Node : exec[e].from.node_states[n] \in Decided =>
            exec[e].from.node_states[n] \in ledger[n]
    BY <1>1 DEF FromHonest, Decided
  <2>. QED BY <2>1, <2>2, <2>3, <2>4, HonestMemory
<1>8. CASE RestoreDone(e)
  <2>1. PICK k \in Memory : Puts(e, k) /\ k.from = exec[e].from /\ k.state = exec[e].state
    BY <1>1, <1>8, RestoreDoneEffect
  <2>2. UNCHANGED <<row, ledger, session>>
    BY <1>8 DEF RestoreDone
  <2>. QED BY <1>4, <2>1, <2>2, HonestMemory
<1>9. CASE Start(e)
  <2>1. PICK n \in exec[e].ready, k \in Memory, task \in {"blind", "stale", "running"} :
            /\ n \in Node /\ Puts(e, k)
            /\ Moves(exec[e], k, n, exec[e].state[n], exec[e].out[n], task)
            /\ \E b \in BOOLEAN : session' = [session EXCEPT ![e].unparked = b]
            /\ UNCHANGED <<setting, long, row, ledger, parked, begun, crashes>>
    BY <1>1, <1>9, StartEffect
  <2>2. k.from = exec[e].from /\ k.state = exec[e].state
    BY <1>1, <2>1, MemoryFields DEF Moves, States
  <2>3. Apart(e) /\ session'[e].steps = session[e].steps
    BY <1>3, <2>1
  <2>. QED BY <2>1, <2>2, <2>3, HonestMemory
<1>10. CASE CommitEarly(e)
  <2>1. /\ row' = Landed(e) /\ CommitSteps(e, {}) /\ session' = [session EXCEPT ![e] = Clean]
        /\ UNCHANGED exec
    BY <1>10 DEF CommitEarly
  <2>2. /\ Up /\ Apart(e)
        /\ \A n \in Node, v \in StepEnd : <<n, v>> \in session[e].steps => v \in ledger'[n]
    BY <1>1, <2>1, Commits
  <2>3. CheckpointHonest'
    BY <1>1, <2>1, <2>2, HonestStays, RowKeeps
  <2>4. Puts(e, exec[e])
    BY <1>1, <2>1 DEF Puts
  <2>5. \A n \in Node : exec[e].state[n] \in Decided => exec[e].state[n] \in ledger'[n]
    BY <1>1, <2>2 DEF Tracked, Up, Decided, StepEnd
  <2>6. \A n \in Node : exec[e].from.node_states[n] # "none" =>
            exec[e].from.node_states[n] \in ledger'[n]
    <3>1. \A n \in Node : exec[e].from.node_states[n] \in {"none", "succeeded", "skipped"}
      BY <1>1, MemoryFields, CheckpointFields
    <3>. QED BY <1>1, <2>2, <3>1 DEF FromHonest, Up, StepEnd
  <2>. QED BY <1>1, <2>2, <2>3, <2>4, <2>5, <2>6, HonestFrom
<1>11. CASE Retry(e)
  <2>1. PICK n \in Node, k \in Memory :
            Puts(e, k) /\ Moves(exec[e], k, n, exec[e].state[n], exec[e].out[n], exec[e].task[n])
    BY <1>1, <1>11, RetryEffect
  <2>2. k.from = exec[e].from /\ k.state = exec[e].state
    BY <1>1, <2>1, MemoryFields DEF Moves, States
  <2>3. UNCHANGED <<row, ledger, session>>
    BY <1>11 DEF Retry
  <2>. QED BY <1>4, <2>1, <2>2, <2>3, HonestMemory
<1>12. CASE Succeed(e)
  <2>1. PICK n \in Node : \E answer \in Answers(n), k \in Memory :
            /\ Puts(e, k) /\ Moves(exec[e], k, n, "succeeded", answer, "resolving")
            /\ StageNode(e, n, "succeeded", k.state, k.out)
    BY <1>1, <1>12, SucceedEffect
  <2>2. PICK answer \in Answers(n), k \in Memory :
            /\ Puts(e, k) /\ Moves(exec[e], k, n, "succeeded", answer, "resolving")
            /\ StageNode(e, n, "succeeded", k.state, k.out)
    BY <2>1
  <2>3. k.from = exec[e].from /\ k.state = [exec[e].state EXCEPT ![n] = "succeeded"]
    BY <2>2 DEF Moves
  <2>4. Told(k.state, k.out)
    <3>1. exec'[e] = k
      BY <1>1, <2>2, PutsFields
    <3>. QED BY <3>1 DEF TypeInv, OutputKnown, Told
  <2>5. StageNode(e, n, "succeeded", k.state, k.out) /\ "succeeded" \in {"succeeded", "failed"}
    BY <2>2
  <2>. QED BY <2>2, <2>3, <2>4, <2>5, HonestStage
<1>13. CASE Fail(e)
  <2>1. PICK n \in Node : \E k \in Memory, o \in {"error", exec[e].out[n]},
                             task \in {"raised", "compensate", "resolving"} :
            /\ Puts(e, k) /\ Moves(exec[e], k, n, "failed", o, task)
            /\ StageNode(e, n, "failed", k.state, k.out)
    BY ZenonT(60), <1>1, <1>13, FailEffect
  <2>2. PICK k \in Memory, o \in {"error", exec[e].out[n]},
             task \in {"raised", "compensate", "resolving"} :
            /\ Puts(e, k) /\ Moves(exec[e], k, n, "failed", o, task)
            /\ StageNode(e, n, "failed", k.state, k.out)
    BY <2>1
  <2>3. k.from = exec[e].from /\ k.state = [exec[e].state EXCEPT ![n] = "failed"]
    BY <2>2 DEF Moves
  <2>4. Told(k.state, k.out)
    <3>1. exec'[e] = k
      BY <1>1, <2>2, PutsFields
    <3>. QED BY <3>1 DEF TypeInv, OutputKnown, Told
  <2>5. StageNode(e, n, "failed", k.state, k.out) /\ "failed" \in {"succeeded", "failed"}
    BY <2>2
  <2>. QED BY <2>2, <2>3, <2>4, <2>5, HonestStage
<1>14. CASE Wait(e)
  <2>1. PICK n \in Gated, k \in Memory :
            /\ n \in Node /\ Puts(e, k)
            /\ Moves(exec[e], k, n, "waiting_approval", exec[e].out[n], "waiting")
    BY <1>1, <1>14, WaitEffect
  <2>2. /\ k.from = exec[e].from
        /\ \A i \in Node : k.state[i] \in Decided => k.state[i] = exec[e].state[i]
    BY <1>1, <2>1, MemoryFields DEF Moves, States, Decided
  <2>3. UNCHANGED <<row, ledger, session>>
    BY <1>14 DEF Wait
  <2>. QED BY <1>4, <2>1, <2>2, <2>3, HonestMemory
<1>15. CASE EndTask(e)
  <2>1. PICK n \in Node :
            \/ Puts(e, Over("over"))
            \/ \E k \in Memory :
                /\ Puts(e, k) /\ Moves(exec[e], k, n, exec[e].state[n], exec[e].out[n], "done")
    BY <1>1, <1>15, EndTaskEffect
  <2>2. UNCHANGED <<row, ledger, session>>
    BY <1>15 DEF EndTask
  <2>3. Up
    BY <2>2 DEF Up
  <2>4. Apart(e) /\ session'[e].steps = session[e].steps
    BY <1>4, <2>2
  <2>5. CASE Puts(e, Over("over"))
    <3>1. CheckpointHonest'
      BY <2>2, <2>3, HonestStays
    <3>. QED BY <2>3, <2>4, <2>5, <3>1, HonestOver
  <2>6. ASSUME NEW k \in Memory, Puts(e, k),
               Moves(exec[e], k, n, exec[e].state[n], exec[e].out[n], "done")
        PROVE  HonestInv'
    <3>1. k.from = exec[e].from /\ k.state = exec[e].state
      BY <1>1, <2>6, MemoryFields DEF Moves, States
    <3>. QED BY <2>2, <2>4, <2>6, <3>1, HonestMemory
  <2>. QED BY <2>1, <2>5, <2>6
<1>16. CASE Leaves(e)
  <2>1. PICK k \in Memory : Puts(e, k) /\ k.from = exec[e].from /\ k.state = exec[e].state
    BY <1>1, <1>16, LeavesEffect
  <2>2. EndRow(e, "failed", row.checkpoint, TRUE)
    BY <1>16 DEF Leaves
  <2>3. /\ row'.checkpoint = row.checkpoint /\ session' = [session EXCEPT ![e].held = FALSE]
        /\ UNCHANGED <<ledger, parked>>
    BY <1>1, <1>2, <2>2, EndKeeps
  <2>4. Apart(e) /\ session'[e].steps = session[e].steps
    BY <1>2, <1>3, <2>3
  <2>5. Up
    BY <2>3 DEF Up
  <2>6. CheckpointHonest'
    BY <2>3, <2>5, HonestStays
  <2>7. \A n \in Node : k.state[n] \in Decided =>
            k.state[n] \in ledger'[n] \/ <<n, k.state[n]>> \in session'[e].steps
    BY <1>1, <2>1, <2>3, <2>4 DEF Tracked
  <2>8. \A n \in Node : k.from.node_states[n] # "none" => k.from.node_states[n] \in ledger'[n]
    BY <1>1, <2>1, <2>3 DEF FromHonest
  <2>. QED BY <2>1, <2>4, <2>5, <2>6, <2>7, <2>8, HonestFrom
<1>17. CASE Swallow(e)
  <2>1. PICK n \in Node : exec' = [exec EXCEPT ![e].task[n] = "done"]
    BY <1>17 DEF Swallow
  <2>2. PICK k \in Memory :
            Puts(e, k) /\ Moves(exec[e], k, n, exec[e].state[n], exec[e].out[n], "done")
    BY <1>1, <2>1, DoneEffect
  <2>3. k.from = exec[e].from /\ k.state = exec[e].state
    BY <1>1, <2>2, MemoryFields DEF Moves, States
  <2>4. UNCHANGED <<row, ledger, session>>
    BY <1>17 DEF Swallow
  <2>. QED BY <1>4, <2>2, <2>3, <2>4, HonestMemory
<1>18. CASE StopForApproval(e)
  <2>1. /\ Puts(e, Over("over")) /\ session' = [session EXCEPT ![e] = Clean]
        /\ \A i \in Node : row'.checkpoint.node_states[i] =
                IF exec[e].state[i] \in {"succeeded", "skipped"} THEN exec[e].state[i] ELSE "none"
        /\ \A i \in Node, v \in StepEnd :
                v \in ledger'[i] <=> v \in ledger[i] \/ <<i, v>> \in session[e].steps
    BY <1>1, <1>18, StopEffect
  <2>2. Up /\ Apart(e)
    BY <1>1, <2>1 DEF Up, Apart
  <2>3. CheckpointHonest'
    BY <1>1, <2>1 DEF CheckpointHonest, Tracked, Decided, StepEnd
  <2>. QED BY <2>1, <2>2, <2>3, HonestOver
<1>19. CASE Succeeds(e)
  <2>1. Puts(e, Over("over")) /\ EndRow(e, "succeeded", Empty, FALSE)
    BY <1>19 DEF Succeeds
  <2>2. /\ CommitSteps(e, {}) /\ session' = [session EXCEPT ![e] = Clean]
        /\ row'.checkpoint = Empty
    BY <1>1, <1>2, <2>1, CloseKeeps, EmptyFields
  <2>3. Up /\ Apart(e)
    BY <1>1, <2>2, Commits
  <2>4. CheckpointHonest'
    BY <2>2, EmptyFields DEF CheckpointHonest
  <2>. QED BY <2>1, <2>3, <2>4, HonestOver
<1>. QED
  BY <1>5, <1>6, <1>7, <1>8, <1>9, <1>10, <1>11, <1>12, <1>13, <1>14, <1>15, <1>16, <1>17, <1>18, <1>19
     DEF Moved

LEMMA HonestStep ==
    ASSUME HonestInv, [Next]_vars PROVE HonestInv'
<1>1. TypeInv /\ TypeInv' /\ UNCHANGED setting
  BY TypeStep, SettingStays DEF HonestInv
<1>2. ASSUME ~Shared PROVE HonestInv'
  BY <1>1, <1>2 DEF HonestInv, Shared
<1>3. ASSUME Shared, NEW e \in Execution, NEW n \in Node, NEW xs \in SUBSET Edge, Hands(e, n, xs)
      PROVE  HonestInv'
  <2>1. PICK k \in Memory, dead \in SUBSET Node :
            /\ Puts(e, k) /\ exec' \in [Execution -> Memory] /\ exec'[e] = k
            /\ dead = Kills(exec[e], n, xs)
            /\ \A t \in dead : exec[e].state[t] = "none"
            /\ k.phase = exec[e].phase /\ k.from = exec[e].from /\ k.verdict = exec[e].verdict
            /\ k.out = exec[e].out /\ k.task = exec[e].task
            /\ k.settled = Settles(exec[e], xs) /\ k.active = Activates(exec[e], n, xs)
            /\ k.ready = exec[e].ready \cup (Reaches(exec[e], xs) \ dead)
            /\ k.todo = (exec[e].todo \ {n}) \cup dead
            /\ \A t \in Node : k.state[t] = IF t \in dead THEN "skipped" ELSE exec[e].state[t]
            /\ session' \in [Execution -> Session]
            /\ session'[e].steps = session[e].steps \cup {<<t, "skipped">> : t \in dead}
            /\ session'[e].held = session[e].held
            /\ \A f \in Execution \ {e} : session'[f] = session[f]
    BY <1>1, <1>3, HandsFields, Zenon
  <2>2. UNCHANGED <<setting, row, ledger>>
    BY <1>3 DEF Hands
  <2>3. Apart(e) /\ session[e].steps \subseteq session'[e].steps
    BY <2>1 DEF Apart
  <2>4. \A t \in Node : k.state[t] \in Decided =>
            \/ k.state[t] = exec[e].state[t] \/ k.state[t] \in ledger[t]
            \/ <<t, k.state[t]>> \in session'[e].steps
    BY <2>1
  <2>. QED BY <1>1, <1>3, <2>1, <2>2, <2>3, <2>4, HonestMemory
<1>4. ASSUME Shared, Reap PROVE HonestInv'
  <2>1. /\ row' = [row EXCEPT !.status = "failed", !.leased = FALSE]
        /\ UNCHANGED <<setting, ledger, session, exec>>
    BY <1>4 DEF Reap
  <2>2. row'.checkpoint = row.checkpoint
    BY <1>1, <2>1, TypeFields DEF Row
  <2>. QED BY <1>1, <2>1, <2>2 DEF HonestInv, Shared, Tracked, FromHonest, CheckpointHonest
<1>5. ASSUME Shared, NEW status, NEW verdict, NEW leased, Stages(status, verdict, leased)
      PROVE  HonestInv'
  <2>1. PICK e \in Execution, k \in Memory :
            /\ Puts(e, k) /\ k.from = row.checkpoint
            /\ \A n \in Node : k.state[n] = "none"
            /\ row'.checkpoint = row.checkpoint
            /\ UNCHANGED <<setting, ledger, session>>
    BY <1>1, <1>5, StagesEffect
  <2>2. Up /\ Apart(e)
    BY <2>1 DEF Up, Apart
  <2>3. CheckpointHonest'
    BY <1>5, <2>1, <2>2, HonestStays
  <2>4. \A n \in Node : k.state[n] \notin Decided
    BY <2>1 DEF Decided
  <2>5. \A n \in Node : k.from.node_states[n] # "none" => k.from.node_states[n] \in ledger'[n]
    BY <1>5, <2>1 DEF HonestInv, CheckpointHonest
  <2>. QED BY <1>1, <1>5, <2>1, <2>2, <2>3, <2>4, <2>5, HonestFrom
<1>6. ASSUME UNCHANGED vars PROVE HonestInv'
  BY <1>1, <1>6 DEF vars, HonestInv, Shared, Tracked, FromHonest, CheckpointHonest
<1>7. ASSUME Shared, NEW e \in Execution, Moved(e) PROVE HonestInv'
  BY <1>1, <1>7, HonestMoved
<1>. QED BY <1>1, <1>2, <1>3, <1>4, <1>5, <1>6, <1>7, StepForms

LEMMA HonestInit ==
    ASSUME Init PROVE HonestInv
<1>1. TypeInv
  BY TypeInit
<1>2. \A e \in Execution, n \in Node :
        exec[e].state[n] = "none" /\ exec[e].from.node_states[n] = "none"
  <2>. SUFFICES ASSUME NEW e \in Execution
               PROVE  \A n \in Node : exec[e].state[n] = "none" /\ exec[e].from.node_states[n] = "none"
    OBVIOUS
  <2>1. exec[e] = Blank(IF e = 1 THEN "queued" ELSE "none", Empty, "none")
    BY DEF Init
  <2>2. "queued" \in Phase /\ "none" \in Phase /\ "none" \in Verdict
    BY DEF Phase, Verdict
  <2>. QED BY <2>1, <2>2, BlankFields, EmptyFields
<1>3. row.checkpoint = Empty
  BY DEF Init
<1>. QED BY <1>1, <1>2, <1>3, EmptyFields DEF HonestInv, Tracked, FromHonest, CheckpointHonest, Decided

(* With one slot, the default, a checkpoint on the row never claims a node *)
(* the committed ledger has no end for: not after a crash between any two  *)
(* commits, not for the nodes that were skipped on the way.                *)
THEOREM HonestHolds == Spec => [](Shared => CheckpointHonest)
<1>1. Init => HonestInv
  BY HonestInit
<1>2. HonestInv /\ [Next]_vars => HonestInv'
  BY HonestStep
<1>3. HonestInv => (Shared => CheckpointHonest)
  BY DEF HonestInv
<1>. QED BY <1>1, <1>2, <1>3, PTL DEF Spec

(***************************************************************************)
(* A node that must not be repeated is entered once.                       *)
(***************************************************************************)

(* One slot, a reaper that fails only what is gone, and no going on after  *)
(* a failed node.                                                          *)
Careful == Shared /\ Steady /\ setting.onError # "continue"

Alive(m) == m.phase \in {"queued", "restoring", "running"}

(* The execution begun last is the only one alive, and none is once the    *)
(* run has come to rest.                                                   *)
Lone ==
    \A e \in Execution : Alive(exec[e]) =>
        e = begun /\ row.status \notin {"failed", "succeeded", "waiting_approval"}

(* An execution that has not started, or is over, has nothing to do. *)
Still ==
    \A e \in Execution : exec[e].phase \notin {"restoring", "running"} =>
        /\ exec[e].ready = {} /\ exec[e].todo = {} /\ exec[e].settled = {}
        /\ \A n \in Node : exec[e].task[n] = "none"

(* Edges are settled once, by a node that is decided; what they lead to is *)
(* started once, and undecided then.                                       *)
Ordered(m) ==
    /\ \A x \in m.settled : x[1] \notin m.todo /\ m.state[x[1]] \in Decided
    /\ \A n \in m.todo : m.state[n] \in Decided
    /\ \A n \in m.ready : m.state[n] = "none" /\ m.task[n] = "none" /\ In(n) \subseteq m.settled
    /\ \A n \in Node : m.task[n] # "none" => In(n) \subseteq m.settled
    /\ \A n \in Node : m.task[n] = "running" => m.state[n] = "none"
    /\ \A n \in Node : m.task[n] = "resolving" => m.state[n] = "succeeded"

(* One node at a time is under way. *)
Alone(m) ==
    \A n, k \in Node : m.task[n] \notin {"none", "done"} /\ m.task[k] \notin {"none", "done"} => n = k

(* Execution m knows of unsafe node n if an execution has entered it. *)
Knows(m, n) ==
    IF m.phase = "queued" THEN m.from.node_states[n] # "none"
    ELSE m.state[n] \in Decided \/ m.task[n] \in {"running", "raised", "compensate"}

EnteredOnce ==
    \A n \in Unsafe :
        /\ entered[n] <= 1
        /\ entered[n] # 0 =>
            /\ \A e \in Execution : Alive(exec[e]) => Knows(exec[e], n)
            /\ row.status = "waiting_approval" => row.checkpoint.node_states[n] # "none"

CarefulParts ==
    /\ Lone /\ Still /\ EnteredOnce
    /\ \A e \in Execution : Ordered(exec[e]) /\ Alone(exec[e])

OnceInv == TypeInv /\ (Careful => CarefulParts)

(* Nothing of m but what it says of node n is another in k. *)
Shifts(m, k, n) ==
    /\ k.phase = m.phase /\ k.from = m.from /\ k.verdict = m.verdict
    /\ k.settled = m.settled /\ k.active = m.active
    /\ \A i \in Node \ {n} : k.state[i] = m.state[i] /\ k.out[i] = m.out[i] /\ k.task[i] = m.task[i]

LEMMA MovesPoint ==
    ASSUME NEW m \in Memory, NEW k \in Memory, NEW n \in Node, NEW st \in NodeState,
           NEW o \in {"none", "error"} \cup Answer, NEW t \in Task, Moves(m, k, n, st, o, t)
    PROVE  Shifts(m, k, n) /\ k.state[n] = st /\ k.out[n] = o /\ k.task[n] = t
BY MemoryFields DEF Moves, Shifts, States, Outputs

LEMMA StartPoint ==
    ASSUME TypeInv, NEW e \in Execution, Start(e)
    PROVE  \E n \in Node, k \in Memory :
            /\ n \in exec[e].ready /\ CanStart(exec[e]) /\ Puts(e, k) /\ Shifts(exec[e], k, n)
            /\ k.state[n] = exec[e].state[n] /\ k.out[n] = exec[e].out[n]
            /\ k.task[n] \in {"blind", "stale", "running"}
            /\ k.ready = exec[e].ready \ {n} /\ k.todo = exec[e].todo
            /\ entered' = IF k.task[n] = "running" THEN [entered EXCEPT ![n] = @ + 1] ELSE entered
            /\ UNCHANGED <<row, ledger, begun>>
<1>1. PICK n \in exec[e].ready, k \in Memory, task \in {"blind", "stale", "running"} :
            /\ n \in Node /\ CanStart(exec[e]) /\ Puts(e, k)
            /\ Moves(exec[e], k, n, exec[e].state[n], exec[e].out[n], task)
            /\ k.ready = exec[e].ready \ {n} /\ k.todo = exec[e].todo
            /\ entered' = IF task = "running" THEN [entered EXCEPT ![n] = @ + 1] ELSE entered
            /\ UNCHANGED <<setting, long, row, ledger, parked, begun, crashes>>
  BY StartEffect
<1>2. /\ exec[e] \in Memory /\ task \in Task /\ exec[e].state[n] \in NodeState
      /\ exec[e].out[n] \in {"none", "error"} \cup Answer
  BY <1>1, TypeFields, Words
<1>3. /\ Shifts(exec[e], k, n) /\ k.state[n] = exec[e].state[n] /\ k.out[n] = exec[e].out[n]
      /\ k.task[n] = task
  <2>. DEFINE m == exec[e]  st == m.state[n]  o == m.out[n]  t == task
  <2>1. /\ m \in Memory /\ t \in Task /\ st \in NodeState /\ o \in {"none", "error"} \cup Answer
        /\ n \in Node /\ Moves(m, k, n, st, o, t)
    BY <1>1, <1>2
  <2>. HIDE DEF m, st, o, t
  <2>2. Shifts(m, k, n) /\ k.state[n] = st /\ k.out[n] = o /\ k.task[n] = t
    BY <2>1, MovesPoint
  <2>. QED BY <2>2 DEF m, st, o, t
<1>4. UNCHANGED <<row, ledger, begun>>
  BY <1>1
<1>. QED BY <1>1, <1>3, <1>4

LEMMA RetryPoint ==
    ASSUME TypeInv, NEW e \in Execution, Retry(e)
    PROVE  \E n \in Node, k \in Memory :
            /\ exec[e].task[n] = "running" /\ Puts(e, k) /\ Shifts(exec[e], k, n)
            /\ k.state[n] = exec[e].state[n] /\ k.out[n] = exec[e].out[n] /\ k.task[n] = "running"
            /\ k.ready = exec[e].ready /\ k.todo = exec[e].todo
<1>1. PICK n \in Node, k \in Memory :
            /\ Puts(e, k) /\ Moves(exec[e], k, n, exec[e].state[n], exec[e].out[n], exec[e].task[n])
            /\ k.ready = exec[e].ready /\ k.todo = exec[e].todo /\ exec[e].task[n] = "running"
  BY RetryEffect
<1>2. /\ exec[e] \in Memory /\ exec[e].task[n] \in Task /\ exec[e].state[n] \in NodeState
      /\ exec[e].out[n] \in {"none", "error"} \cup Answer
  BY TypeFields, Words
<1>3. /\ Shifts(exec[e], k, n) /\ k.state[n] = exec[e].state[n] /\ k.out[n] = exec[e].out[n]
      /\ k.task[n] = exec[e].task[n]
  <2>. DEFINE m == exec[e]  st == m.state[n]  o == m.out[n]  t == m.task[n]
  <2>1. /\ m \in Memory /\ t \in Task /\ st \in NodeState /\ o \in {"none", "error"} \cup Answer
        /\ n \in Node /\ Moves(m, k, n, st, o, t)
    BY <1>1, <1>2
  <2>. HIDE DEF m, st, o, t
  <2>2. Shifts(m, k, n) /\ k.state[n] = st /\ k.out[n] = o /\ k.task[n] = t
    BY <2>1, MovesPoint
  <2>. QED BY <2>2 DEF m, st, o, t
<1>. QED BY <1>1, <1>3

LEMMA SucceedPoint ==
    ASSUME TypeInv, NEW e \in Execution, Succeed(e)
    PROVE  \E n \in Node, k \in Memory :
            /\ exec[e].task[n] = "running" /\ Puts(e, k) /\ Shifts(exec[e], k, n)
            /\ k.state[n] = "succeeded" /\ k.out[n] \in Answer /\ k.task[n] = "resolving"
            /\ k.ready = exec[e].ready /\ k.todo = exec[e].todo \cup {n}
            /\ StageNode(e, n, "succeeded", k.state, k.out)
<1>1. PICK n \in Node : \E answer \in Answers(n), k \in Memory :
            /\ Puts(e, k) /\ exec[e].task[n] = "running" /\ answer \in Answer
            /\ Moves(exec[e], k, n, "succeeded", answer, "resolving")
            /\ k.ready = exec[e].ready /\ k.todo = exec[e].todo \cup {n}
            /\ StageNode(e, n, "succeeded", k.state, k.out)
  BY SucceedEffect
<1>2. PICK answer \in Answer, k \in Memory :
            /\ Puts(e, k) /\ exec[e].task[n] = "running"
            /\ Moves(exec[e], k, n, "succeeded", answer, "resolving")
            /\ k.ready = exec[e].ready /\ k.todo = exec[e].todo \cup {n}
            /\ StageNode(e, n, "succeeded", k.state, k.out)
  BY <1>1
<1>3. /\ exec[e] \in Memory /\ "resolving" \in Task /\ "succeeded" \in NodeState
      /\ answer \in {"none", "error"} \cup Answer
  BY TypeFields, Words
<1>4. /\ Shifts(exec[e], k, n) /\ k.state[n] = "succeeded" /\ k.out[n] = answer
      /\ k.task[n] = "resolving"
  BY <1>2, <1>3, MovesPoint
<1>. QED BY <1>2, <1>4

LEMMA FailPoint ==
    ASSUME TypeInv, NEW e \in Execution, Fail(e), setting.onError # "continue"
    PROVE  \E n \in Node, k \in Memory :
            /\ exec[e].task[n] = "running" /\ Puts(e, k) /\ Shifts(exec[e], k, n)
            /\ k.state[n] = "failed" /\ k.out[n] = exec[e].out[n]
            /\ k.task[n] \in {"raised", "compensate"}
            /\ k.ready = exec[e].ready /\ k.todo = exec[e].todo
            /\ StageNode(e, n, "failed", k.state, k.out)
<1>1. PICK n \in Node : \E k \in Memory, o \in {"error", exec[e].out[n]},
              task \in {"raised", "compensate", "resolving"} :
            /\ Puts(e, k) /\ exec[e].task[n] = "running"
            /\ Moves(exec[e], k, n, "failed", o, task)
            /\ (task = "resolving" <=> setting.onError = "continue")
            /\ o = IF setting.onError = "continue" THEN "error" ELSE exec[e].out[n]
            /\ k.ready = exec[e].ready
            /\ k.todo = IF setting.onError = "continue" THEN exec[e].todo \cup {n} ELSE exec[e].todo
            /\ StageNode(e, n, "failed", k.state, k.out)
  BY FailEffect
<1>2. PICK k \in Memory, o \in {"error", exec[e].out[n]}, task \in {"raised", "compensate"} :
            /\ Puts(e, k) /\ exec[e].task[n] = "running"
            /\ Moves(exec[e], k, n, "failed", o, task) /\ o = exec[e].out[n]
            /\ k.ready = exec[e].ready /\ k.todo = exec[e].todo
            /\ StageNode(e, n, "failed", k.state, k.out)
  BY <1>1
<1>3. /\ exec[e] \in Memory /\ task \in Task /\ "failed" \in NodeState
      /\ o \in {"none", "error"} \cup Answer
  BY TypeFields, Words
<1>4. Shifts(exec[e], k, n) /\ k.state[n] = "failed" /\ k.out[n] = o /\ k.task[n] = task
  <2>. DEFINE m == exec[e]  st == "failed"  t == task  p == o
  <2>1. /\ m \in Memory /\ t \in Task /\ st \in NodeState /\ p \in {"none", "error"} \cup Answer
        /\ n \in Node /\ Moves(m, k, n, st, p, t)
    BY <1>2, <1>3
  <2>. HIDE DEF m, st, p, t
  <2>2. Shifts(m, k, n) /\ k.state[n] = st /\ k.out[n] = p /\ k.task[n] = t
    BY <2>1, MovesPoint
  <2>. QED BY <2>2 DEF m, st, p, t
<1>. QED BY <1>2, <1>4

LEMMA WaitPoint ==
    ASSUME TypeInv, NEW e \in Execution, Wait(e)
    PROVE  \E n \in Node, k \in Memory :
            /\ n \in Gated /\ exec[e].task[n] = "running" /\ Puts(e, k) /\ Shifts(exec[e], k, n)
            /\ k.state[n] = "waiting_approval" /\ k.out[n] = exec[e].out[n] /\ k.task[n] = "waiting"
            /\ k.ready = exec[e].ready /\ k.todo = exec[e].todo
<1>1. PICK n \in Gated, k \in Memory :
            /\ n \in Node /\ Puts(e, k) /\ exec[e].task[n] = "running"
            /\ Moves(exec[e], k, n, "waiting_approval", exec[e].out[n], "waiting")
            /\ k.ready = exec[e].ready /\ k.todo = exec[e].todo
  BY WaitEffect
<1>2. /\ exec[e] \in Memory /\ "waiting" \in Task /\ "waiting_approval" \in NodeState
      /\ exec[e].out[n] \in {"none", "error"} \cup Answer
  BY <1>1, TypeFields, Words
<1>3. /\ Shifts(exec[e], k, n) /\ k.state[n] = "waiting_approval" /\ k.out[n] = exec[e].out[n]
      /\ k.task[n] = "waiting"
  <2>. DEFINE m == exec[e]  st == "waiting_approval"  o == m.out[n]  t == "waiting"
  <2>1. /\ m \in Memory /\ t \in Task /\ st \in NodeState /\ o \in {"none", "error"} \cup Answer
        /\ n \in Node /\ Moves(m, k, n, st, o, t)
    BY <1>1, <1>2
  <2>. HIDE DEF m, st, o, t
  <2>2. Shifts(m, k, n) /\ k.state[n] = st /\ k.out[n] = o /\ k.task[n] = t
    BY <2>1, MovesPoint
  <2>. QED BY <2>2 DEF m, st, o, t
<1>. QED BY <1>1, <1>3

LEMMA DonePoint ==
    ASSUME TypeInv, NEW e \in Execution, NEW n \in Node, NEW k \in Memory,
           Moves(exec[e], k, n, exec[e].state[n], exec[e].out[n], "done")
    PROVE  /\ Shifts(exec[e], k, n) /\ k.state[n] = exec[e].state[n] /\ k.out[n] = exec[e].out[n]
           /\ k.task[n] = "done"
<1>. DEFINE m == exec[e]  st == m.state[n]  o == m.out[n]  t == "done"
<1>1. /\ m \in Memory /\ t \in Task /\ st \in NodeState /\ o \in {"none", "error"} \cup Answer
      /\ Moves(m, k, n, st, o, t)
  BY TypeFields, Words
<1>. HIDE DEF m, st, o, t
<1>2. Shifts(m, k, n) /\ k.state[n] = st /\ k.out[n] = o /\ k.task[n] = t
  BY <1>1, MovesPoint
<1>. QED BY <1>2 DEF m, st, o, t

(* A step of the execution that is alive, by what it leaves. *)
LEMMA OnceFrom ==
    ASSUME OnceInv, Careful, TypeInv', UNCHANGED <<setting, begun, entered>>,
           NEW e \in Execution, NEW k \in Memory, Puts(e, k), Alive(exec[e]),
           Ordered(k), Alone(k),
           k.phase \notin {"restoring", "running"} =>
                /\ k.ready = {} /\ k.todo = {} /\ k.settled = {}
                /\ \A n \in Node : k.task[n] = "none",
           Alive(k) => row'.status \notin {"failed", "succeeded", "waiting_approval"},
           Alive(k) => \A n \in Unsafe : entered[n] # 0 => Knows(k, n),
           row'.status = "waiting_approval" =>
                \A n \in Unsafe : entered[n] # 0 => row'.checkpoint.node_states[n] # "none"
    PROVE  OnceInv'
<1>1. TypeInv /\ Lone /\ Still /\ EnteredOnce /\ \A f \in Execution : Ordered(exec[f]) /\ Alone(exec[f])
  BY DEF OnceInv, CarefulParts
<1>2. exec'[e] = k /\ \A f \in Execution \ {e} : exec'[f] = exec[f] /\ ~Alive(exec[f])
  BY <1>1, PutsFields DEF Lone
<1>3. Lone'
  BY <1>1, <1>2 DEF Lone
<1>4. Still'
  BY <1>1, <1>2 DEF Still
<1>5. \A f \in Execution : Ordered(exec'[f]) /\ Alone(exec'[f])
  BY <1>1, <1>2
<1>6. EnteredOnce'
  <2>1. \A n \in Unsafe, f \in Execution : entered[n] # 0 /\ Alive(exec'[f]) => Knows(exec'[f], n)
    BY <1>2
  <2>. QED BY <1>1, <2>1 DEF EnteredOnce
<1>7. \A f \in Execution : (Ordered(exec[f]) /\ Alone(exec[f]))'
  BY <1>5 DEF Ordered, Alone
<1>. QED BY <1>3, <1>4, <1>6, <1>7 DEF OnceInv, CarefulParts

(* An execution that is over, or lost, has an ordered memory. *)
LEMMA OverOrdered ==
    ASSUME NEW p \in {"over", "lost"}
    PROVE  /\ Over(p) \in Memory /\ Ordered(Over(p)) /\ Alone(Over(p)) /\ ~Alive(Over(p))
           /\ Over(p).ready = {} /\ Over(p).todo = {} /\ Over(p).settled = {}
           /\ \A n \in Node : Over(p).task[n] = "none"
BY OverFields DEF Ordered, Alone, Alive

LEMMA OnceOver ==
    ASSUME OnceInv, Careful, TypeInv', UNCHANGED <<setting, begun, entered>>,
           NEW e \in Execution, NEW p \in {"over", "lost"}, Puts(e, Over(p)), Alive(exec[e]),
           row'.status = "waiting_approval" =>
                \A n \in Unsafe : entered[n] # 0 => row'.checkpoint.node_states[n] # "none"
    PROVE  OnceInv'
BY OverOrdered, OnceFrom

(* Node n, which was under way, moves on. *)
LEMMA OrderedShift ==
    ASSUME NEW m \in Memory, NEW k \in Memory, NEW n \in Node, Ordered(m), Alone(m),
           Shifts(m, k, n), m.task[n] \notin {"none", "done"}, k.task[n] # "none",
           k.state[n] = m.state[n] \/ m.state[n] \notin Decided,
           k.task[n] = "running" => k.state[n] = "none",
           k.task[n] = "resolving" => k.state[n] = "succeeded",
           k.ready = m.ready,
           \/ k.todo = m.todo
           \/ k.todo = m.todo \cup {n} /\ k.state[n] \in Decided /\ m.state[n] \notin Decided
    PROVE  Ordered(k) /\ Alone(k)
<1>1. /\ m.settled \subseteq Edge /\ m.todo \subseteq Node /\ m.ready \subseteq Node
      /\ \A x \in Edge : x[1] \in Node
  BY MemoryFields, WorkflowAssumption
<1>2. \A i \in Node \ {n} : k.state[i] = m.state[i] /\ k.task[i] = m.task[i]
  BY DEF Shifts
<1>3. k.settled = m.settled
  BY DEF Shifts
<1>4. \A x \in m.settled : m.state[n] \notin Decided => x[1] # n
  BY DEF Ordered
<1>5. \A x \in k.settled : x[1] \notin k.todo /\ k.state[x[1]] \in Decided
  <2>. SUFFICES ASSUME NEW x \in m.settled PROVE x[1] \notin k.todo /\ k.state[x[1]] \in Decided
    BY <1>3
  <2>1. x[1] \in Node /\ x[1] \notin m.todo /\ m.state[x[1]] \in Decided
    BY <1>1 DEF Ordered
  <2>. QED BY <1>2, <2>1
<1>6. \A i \in k.todo : k.state[i] \in Decided
  <2>. SUFFICES ASSUME NEW i \in k.todo PROVE k.state[i] \in Decided
    OBVIOUS
  <2>1. CASE i = n /\ i \notin m.todo
    BY <2>1
  <2>2. CASE i \in m.todo
    <3>1. i \in Node /\ m.state[i] \in Decided
      BY <1>1, <2>2 DEF Ordered
    <3>. QED BY <1>2, <3>1
  <2>. QED BY <2>1, <2>2
<1>7. \A i \in k.ready : k.state[i] = "none" /\ k.task[i] = "none" /\ In(i) \subseteq k.settled
  <2>. SUFFICES ASSUME NEW i \in m.ready
               PROVE  k.state[i] = "none" /\ k.task[i] = "none" /\ In(i) \subseteq k.settled
    OBVIOUS
  <2>1. i \in Node /\ m.state[i] = "none" /\ m.task[i] = "none" /\ In(i) \subseteq m.settled
    BY <1>1 DEF Ordered
  <2>. QED BY <1>2, <1>3, <2>1
<1>8. \A i \in Node : /\ k.task[i] # "none" => In(i) \subseteq k.settled
                      /\ k.task[i] = "running" => k.state[i] = "none"
                      /\ k.task[i] = "resolving" => k.state[i] = "succeeded"
  BY <1>2, <1>3 DEF Ordered
<1>9. Alone(k)
  BY <1>2 DEF Alone
<1>. QED BY <1>5, <1>6, <1>7, <1>8, <1>9 DEF Ordered

(* A node that is ready starts, while no other is under way. *)
LEMMA OrderedStart ==
    ASSUME NEW m \in Memory, NEW k \in Memory, NEW n \in Node, Ordered(m),
           \A i \in Node : m.task[i] \in {"none", "done"},
           Shifts(m, k, n), n \in m.ready, k.state[n] = m.state[n],
           k.task[n] \in {"blind", "stale", "running"}, k.ready = m.ready \ {n}, k.todo = m.todo
    PROVE  Ordered(k) /\ Alone(k)
<1>1. /\ m.settled \subseteq Edge /\ m.todo \subseteq Node /\ m.ready \subseteq Node
      /\ \A x \in Edge : x[1] \in Node
  BY MemoryFields, WorkflowAssumption
<1>2. /\ \A i \in Node \ {n} : k.state[i] = m.state[i] /\ k.task[i] = m.task[i]
      /\ k.settled = m.settled
  BY DEF Shifts
<1>3. \A i \in Node : k.state[i] = m.state[i]
  BY <1>2
<1>4. m.state[n] = "none" /\ In(n) \subseteq m.settled
  BY DEF Ordered
<1>5. Alone(k)
  BY <1>2 DEF Alone
<1>6. /\ \A x \in k.settled : x[1] \notin k.todo /\ k.state[x[1]] \in Decided
      /\ \A i \in k.todo : k.state[i] \in Decided
  BY <1>1, <1>2, <1>3 DEF Ordered
<1>7. \A i \in k.ready : k.state[i] = "none" /\ k.task[i] = "none" /\ In(i) \subseteq k.settled
  BY <1>1, <1>2 DEF Ordered
<1>8. \A i \in Node : /\ k.task[i] # "none" => In(i) \subseteq k.settled
                      /\ k.task[i] = "running" => k.state[i] = "none"
                      /\ k.task[i] = "resolving" => k.state[i] = "succeeded"
  BY <1>2, <1>3, <1>4 DEF Ordered
<1>. QED BY <1>5, <1>6, <1>7, <1>8 DEF Ordered

(* A decided node hands its edges on. *)
LEMMA OrderedHands ==
    ASSUME NEW m \in Memory, NEW k \in Memory, NEW n \in m.todo, NEW xs \in SUBSET Edge,
           xs \subseteq Out(n), NEW dead \in SUBSET Node, dead = Kills(m, n, xs), Ordered(m), Alone(m),
           k.task = m.task, k.settled = Settles(m, xs),
           k.ready = m.ready \cup (Reaches(m, xs) \ dead), k.todo = (m.todo \ {n}) \cup dead,
           \A t \in Node : k.state[t] = IF t \in dead THEN "skipped" ELSE m.state[t]
    PROVE  /\ Ordered(k) /\ Alone(k)
           /\ \A t \in Node : m.state[t] \in Decided => k.state[t] \in Decided
<1>1. /\ m.settled \subseteq Edge /\ m.todo \subseteq Node /\ m.ready \subseteq Node /\ n \in Node
      /\ \A x \in Edge : x[1] \in Node
  BY MemoryFields, WorkflowAssumption
<1>2. m.state[n] \in Decided /\ \A x \in m.settled : x[1] # n
  BY DEF Ordered
<1>3. \A x \in xs : x[1] = n /\ x \notin m.settled
  BY <1>2 DEF Out
<1>4. \A t \in Reaches(m, xs) :
        /\ t \in Node /\ m.state[t] = "none" /\ In(t) \subseteq k.settled
        /\ ~(In(t) \subseteq m.settled)
  <2>. SUFFICES ASSUME NEW t \in Reaches(m, xs)
               PROVE  /\ t \in Node /\ m.state[t] = "none" /\ In(t) \subseteq k.settled
                      /\ ~(In(t) \subseteq m.settled)
    OBVIOUS
  <2>1. PICK x \in xs : x[2] = t
    BY DEF Reaches
  <2>2. x \in In(t) /\ x \notin m.settled
    BY <1>3, <2>1 DEF In
  <2>. QED BY <2>2 DEF Reaches
<1>5. \A t \in Reaches(m, xs) : t \notin m.ready /\ m.task[t] = "none"
  BY <1>4 DEF Ordered
<1>6. dead \subseteq Reaches(m, xs)
  BY DEF Kills
<1>7. \A t \in Node : m.state[t] \in Decided => k.state[t] \in Decided
  BY DEF Decided
<1>8. \A x \in k.settled : x[1] \notin k.todo /\ k.state[x[1]] \in Decided
  <2>. SUFFICES ASSUME NEW x \in k.settled PROVE x[1] \notin k.todo /\ k.state[x[1]] \in Decided
    OBVIOUS
  <2>1. x[1] \in Node /\ m.state[x[1]] \in Decided /\ (x[1] \notin m.todo \/ x[1] = n)
    BY <1>1, <1>2, <1>3 DEF Settles, Ordered
  <2>2. x[1] \notin dead
    BY <1>4, <1>6, <2>1 DEF Decided
  <2>. QED BY <1>7, <2>1, <2>2
<1>9. \A t \in k.todo : k.state[t] \in Decided
  <2>. SUFFICES ASSUME NEW t \in k.todo PROVE k.state[t] \in Decided
    OBVIOUS
  <2>1. CASE t \in dead
    BY <2>1 DEF Decided
  <2>2. CASE t \in m.todo
    BY <1>1, <1>7, <2>2 DEF Ordered
  <2>. QED BY <2>1, <2>2
<1>10. \A t \in k.ready : k.state[t] = "none" /\ k.task[t] = "none" /\ In(t) \subseteq k.settled
  <2>. SUFFICES ASSUME NEW t \in k.ready
               PROVE  k.state[t] = "none" /\ k.task[t] = "none" /\ In(t) \subseteq k.settled
    OBVIOUS
  <2>1. CASE t \in Reaches(m, xs) \ dead
    BY <1>4, <1>5, <2>1
  <2>2. CASE t \in m.ready
    <3>1. /\ t \in Node /\ m.state[t] = "none" /\ m.task[t] = "none" /\ In(t) \subseteq m.settled
          /\ t \notin dead
      BY <1>1, <1>5, <1>6, <2>2 DEF Ordered
    <3>. QED BY <3>1 DEF Settles
  <2>. QED BY <2>1, <2>2
<1>11. \A t \in Node : /\ k.task[t] # "none" => In(t) \subseteq k.settled /\ t \notin dead
                       /\ k.task[t] = "running" => k.state[t] = "none"
                       /\ k.task[t] = "resolving" => k.state[t] = "succeeded"
  BY <1>5, <1>6 DEF Ordered, Settles
<1>12. Alone(k)
  BY DEF Alone
<1>. QED BY <1>7, <1>8, <1>9, <1>10, <1>11, <1>12 DEF Ordered

LEMMA StageStatus ==
    ASSUME TypeInv, Shared, NEW e \in Execution, NEW n \in Node, NEW v \in StepEnd, NEW st, NEW out,
           StageNode(e, n, v, st, out)
    PROVE  row'.status \in {row.status, "running"}
<1>1. Landed(e) \in Row /\ Landed(e).status \in {row.status, "running"}
  BY RowKeeps
<1>2. row' = [Landed(e) EXCEPT !.checkpoint = Snapshot(st, out)]
  BY DEF StageNode
<1>. HIDE DEF Checkpoint
<1>. QED BY <1>1, <1>2 DEF Row

(* Who has something to do is alive, and the run is not at rest. *)
LEMMA AliveFrom ==
    ASSUME OnceInv, Careful, NEW e \in Execution,
           \/ exec[e].todo # {}
           \/ exec[e].phase \in {"restoring", "running"}
           \/ \E n \in Node : exec[e].task[n] # "none"
    PROVE  /\ exec[e].phase \in {"restoring", "running"} /\ Alive(exec[e]) /\ e = begun
           /\ row.status \notin {"failed", "succeeded", "waiting_approval"}
<1>1. exec[e].phase \in {"restoring", "running"}
  BY DEF OnceInv, CarefulParts, Still
<1>. QED BY <1>1 DEF OnceInv, CarefulParts, Lone, Alive

LEMMA PartsOf ==
    ASSUME OnceInv, Careful, NEW e \in Execution
    PROVE  /\ Ordered(exec[e]) /\ Alone(exec[e])
           /\ Alive(exec[e]) => \A n \in Unsafe : entered[n] # 0 => Knows(exec[e], n)
           /\ exec[e] \in Memory
<1>1. TypeInv /\ CarefulParts
  BY DEF OnceInv
<1>. QED BY <1>1, TypeFields DEF CarefulParts, EnteredOnce

(* A node that was under way moves on: what the execution knows it keeps. *)
LEMMA OnceShift ==
    ASSUME OnceInv, Careful, TypeInv', UNCHANGED <<setting, begun, entered>>,
           NEW e \in Execution, NEW k \in Memory, Puts(e, k), NEW n \in Node, Shifts(exec[e], k, n),
           exec[e].task[n] \notin {"none", "done"}, k.task[n] # "none",
           k.state[n] = exec[e].state[n] \/ exec[e].state[n] \notin Decided,
           k.task[n] = "running" => k.state[n] = "none",
           k.task[n] = "resolving" => k.state[n] = "succeeded",
           k.ready = exec[e].ready,
           \/ k.todo = exec[e].todo
           \/ k.todo = exec[e].todo \cup {n} /\ k.state[n] \in Decided /\ exec[e].state[n] \notin Decided,
           exec[e].task[n] \in {"running", "raised", "compensate"} =>
                \/ k.state[n] \in Decided \/ k.task[n] \in {"running", "raised", "compensate"}
                \/ n \notin Unsafe,
           row'.status \in {row.status, "running"}
    PROVE  OnceInv'
<1>1. /\ exec[e].phase \in {"restoring", "running"} /\ Alive(exec[e])
      /\ row.status \notin {"failed", "succeeded", "waiting_approval"}
  BY AliveFrom
<1>2. /\ Ordered(exec[e]) /\ Alone(exec[e]) /\ exec[e] \in Memory
      /\ \A i \in Unsafe : entered[i] # 0 => Knows(exec[e], i)
  BY <1>1, PartsOf
<1>3. Ordered(k) /\ Alone(k)
  BY <1>2, OrderedShift
<1>4. /\ k.phase = exec[e].phase
      /\ \A i \in Node \ {n} : k.state[i] = exec[e].state[i] /\ k.task[i] = exec[e].task[i]
  BY DEF Shifts
<1>5. \A i \in Unsafe : entered[i] # 0 => Knows(k, i)
  <2>. SUFFICES ASSUME NEW i \in Unsafe, entered[i] # 0 PROVE Knows(k, i)
    OBVIOUS
  <2>1. i \in Node /\ (exec[e].state[i] \in Decided \/ exec[e].task[i] \in {"running", "raised", "compensate"})
    BY <1>1, <1>2, WorkflowAssumption DEF Knows
  <2>2. k.state[i] \in Decided \/ k.task[i] \in {"running", "raised", "compensate"}
    BY <1>4, <2>1
  <2>. QED BY <1>1, <1>4, <2>2 DEF Knows
<1>6. row'.status \notin {"failed", "succeeded", "waiting_approval"}
  BY <1>1
<1>. QED BY <1>1, <1>3, <1>4, <1>5, <1>6, OnceFrom

LEMMA OnceWork ==
    ASSUME OnceInv, Careful, TypeInv', UNCHANGED setting, NEW e \in Execution,
           Retry(e) \/ Succeed(e) \/ Fail(e) \/ Wait(e) \/ EndTask(e) \/ Swallow(e)
    PROVE  OnceInv'
<1>1. /\ TypeInv /\ Shared /\ setting.onError # "continue"
      /\ Ordered(exec[e]) /\ exec[e] \in Memory
  BY PartsOf DEF OnceInv, Careful
<1>2. UNCHANGED <<setting, begun, entered>>
  BY DEF Retry, Succeed, Fail, Wait, EndTask, Swallow
<1>3. CASE Retry(e)
  <2>1. PICK n \in Node, k \in Memory :
            /\ exec[e].task[n] = "running" /\ Puts(e, k) /\ Shifts(exec[e], k, n)
            /\ k.state[n] = exec[e].state[n] /\ k.out[n] = exec[e].out[n] /\ k.task[n] = "running"
            /\ k.ready = exec[e].ready /\ k.todo = exec[e].todo
    BY <1>1, <1>3, RetryPoint
  <2>2. exec[e].state[n] = "none"
    BY <1>1, <2>1 DEF Ordered
  <2>3. row'.status \in {row.status, "running"}
    BY <1>3 DEF Retry
  <2>. QED BY <1>2, <2>1, <2>2, <2>3, OnceShift
<1>4. CASE Succeed(e)
  <2>1. PICK n \in Node, k \in Memory :
            /\ exec[e].task[n] = "running" /\ Puts(e, k) /\ Shifts(exec[e], k, n)
            /\ k.state[n] = "succeeded" /\ k.out[n] \in Answer /\ k.task[n] = "resolving"
            /\ k.ready = exec[e].ready /\ k.todo = exec[e].todo \cup {n}
            /\ StageNode(e, n, "succeeded", k.state, k.out)
    BY <1>1, <1>4, SucceedPoint
  <2>2. exec[e].state[n] = "none"
    BY <1>1, <2>1 DEF Ordered
  <2>3. row'.status \in {row.status, "running"}
    BY <1>1, <2>1, StageStatus DEF StepEnd
  <2>4. exec[e].state[n] \notin Decided /\ k.state[n] \in Decided
    BY <2>1, <2>2 DEF Decided
  <2>. QED BY <1>2, <2>1, <2>3, <2>4, OnceShift
<1>5. CASE Fail(e)
  <2>1. PICK n \in Node, k \in Memory :
            /\ exec[e].task[n] = "running" /\ Puts(e, k) /\ Shifts(exec[e], k, n)
            /\ k.state[n] = "failed" /\ k.out[n] = exec[e].out[n]
            /\ k.task[n] \in {"raised", "compensate"}
            /\ k.ready = exec[e].ready /\ k.todo = exec[e].todo
            /\ StageNode(e, n, "failed", k.state, k.out)
    BY <1>1, <1>5, FailPoint
  <2>2. exec[e].state[n] = "none"
    BY <1>1, <2>1 DEF Ordered
  <2>3. row'.status \in {row.status, "running"}
    BY <1>1, <2>1, StageStatus DEF StepEnd
  <2>4. exec[e].state[n] \notin Decided
    BY <2>2 DEF Decided
  <2>. QED BY <1>2, <2>1, <2>3, <2>4, OnceShift
<1>6. CASE Wait(e)
  <2>1. PICK n \in Node, k \in Memory :
            /\ n \in Gated /\ exec[e].task[n] = "running" /\ Puts(e, k) /\ Shifts(exec[e], k, n)
            /\ k.state[n] = "waiting_approval" /\ k.out[n] = exec[e].out[n] /\ k.task[n] = "waiting"
            /\ k.ready = exec[e].ready /\ k.todo = exec[e].todo
    BY <1>1, <1>6, WaitPoint
  <2>2. exec[e].state[n] = "none"
    BY <1>1, <2>1 DEF Ordered
  <2>3. row'.status \in {row.status, "running"}
    BY <1>6 DEF Wait
  <2>4. exec[e].state[n] \notin Decided /\ n \notin Unsafe
    BY <2>1, <2>2, WorkflowAssumption DEF Decided
  <2>. QED BY <1>2, <2>1, <2>3, <2>4, OnceShift
<1>7. CASE EndTask(e)
  <2>1. PICK n \in Node :
            /\ exec[e].task[n] = "resolving"
            /\ \/ exec[e].phase = "over" /\ Puts(e, Over("over"))
               \/ \E k \in Memory :
                    /\ Puts(e, k) /\ Moves(exec[e], k, n, exec[e].state[n], exec[e].out[n], "done")
                    /\ k.ready = exec[e].ready /\ k.todo = exec[e].todo
    BY <1>1, <1>7, EndTaskEffect
  <2>2. exec[e].phase # "over"
    BY <2>1, AliveFrom
  <2>3. PICK k \in Memory :
            /\ Puts(e, k) /\ Moves(exec[e], k, n, exec[e].state[n], exec[e].out[n], "done")
            /\ k.ready = exec[e].ready /\ k.todo = exec[e].todo
    BY <2>1, <2>2
  <2>4. /\ Shifts(exec[e], k, n) /\ k.state[n] = exec[e].state[n] /\ k.task[n] = "done"
    BY <1>1, <2>3, DonePoint
  <2>5. row'.status \in {row.status, "running"}
    BY <1>7 DEF EndTask
  <2>. QED BY <1>2, <2>1, <2>3, <2>4, <2>5, OnceShift
<1>8. CASE Swallow(e)
  <2>1. PICK n \in Node : /\ exec[e].task[n] \in {"blind", "stale"}
                          /\ exec' = [exec EXCEPT ![e].task[n] = "done"]
    BY <1>8 DEF Swallow
  <2>2. PICK k \in Memory :
            /\ Puts(e, k) /\ Moves(exec[e], k, n, exec[e].state[n], exec[e].out[n], "done")
            /\ k.ready = exec[e].ready /\ k.todo = exec[e].todo
    BY <1>1, <2>1, DoneEffect
  <2>3. /\ Shifts(exec[e], k, n) /\ k.state[n] = exec[e].state[n] /\ k.task[n] = "done"
    BY <1>1, <2>2, DonePoint
  <2>4. row'.status \in {row.status, "running"}
    BY <1>8 DEF Swallow
  <2>. QED BY <1>2, <2>1, <2>2, <2>3, <2>4, OnceShift
<1>. QED BY <1>3, <1>4, <1>5, <1>6, <1>7, <1>8

(* With one slot a node starts only when every other has come to its end. *)
LEMMA Quiet ==
    ASSUME TypeInv, Shared, NEW e \in Execution, CanStart(exec[e])
    PROVE  \A i \in Node : exec[e].task[i] \in {"none", "done"}
<1>. DEFINE m == exec[e]
<1>1. m \in Memory /\ setting.slots = 1 /\ Cardinality(Busy(m)) < setting.slots /\ ~Halted(m)
  BY TypeFields DEF CanStart, Shared
<1>2. Busy(m) \subseteq Node
  BY DEF Busy
<1>3. IsFiniteSet(Busy(m)) /\ Cardinality(Busy(m)) \in Nat
  BY <1>2, WorkflowAssumption, FS_Subset, FS_CardinalityType
<1>4. Busy(m) = {}
  BY <1>1, <1>3, FS_EmptySet
<1>5. \A i \in Node : m.task[i] \in Task
  BY <1>1, MemoryFields
<1>. QED BY <1>1, <1>4, <1>5 DEF Busy, Halted, Task

LEMMA OnceStart ==
    ASSUME OnceInv, Careful, TypeInv', UNCHANGED setting, NEW e \in Execution, Start(e)
    PROVE  OnceInv'
<1>1. /\ TypeInv /\ Shared /\ CarefulParts /\ entered \in [Node -> Nat]
  BY TypeFields DEF OnceInv, Careful
<1>2. PICK n \in Node, k \in Memory :
            /\ n \in exec[e].ready /\ CanStart(exec[e]) /\ Puts(e, k) /\ Shifts(exec[e], k, n)
            /\ k.state[n] = exec[e].state[n] /\ k.out[n] = exec[e].out[n]
            /\ k.task[n] \in {"blind", "stale", "running"}
            /\ k.ready = exec[e].ready \ {n} /\ k.todo = exec[e].todo
            /\ entered' = IF k.task[n] = "running" THEN [entered EXCEPT ![n] = @ + 1] ELSE entered
            /\ UNCHANGED <<row, ledger, begun>>
  BY <1>1, StartPoint
<1>3. exec[e].phase = "running"
  BY <1>2 DEF CanStart
<1>4. /\ Alive(exec[e]) /\ e = begun /\ row.status \notin {"failed", "succeeded", "waiting_approval"}
  BY <1>3, AliveFrom
<1>5. /\ Ordered(exec[e]) /\ exec[e] \in Memory
      /\ \A i \in Unsafe : entered[i] # 0 => Knows(exec[e], i)
  BY <1>4, PartsOf
<1>6. \A i \in Node : exec[e].task[i] \in {"none", "done"}
  BY <1>1, <1>2, Quiet
<1>7. Ordered(k) /\ Alone(k)
  BY <1>2, <1>5, <1>6, OrderedStart
<1>8. exec[e].state[n] = "none" /\ exec[e].task[n] = "none"
  BY <1>2, <1>5 DEF Ordered
<1>9. /\ exec'[e] = k /\ \A f \in Execution \ {e} : exec'[f] = exec[f] /\ ~Alive(exec[f])
  BY <1>1, <1>2, <1>4, PutsFields DEF CarefulParts, Lone
<1>10. k.phase = "running"
  BY <1>2, <1>3 DEF Shifts
<1>11. n \in Unsafe => entered[n] = 0
  BY <1>3, <1>5, <1>8 DEF Knows, Decided
<1>12. \A i \in Unsafe : entered'[i] <= 1 /\ (entered'[i] # 0 => Knows(k, i))
  <2>. SUFFICES ASSUME NEW i \in Unsafe PROVE entered'[i] <= 1 /\ (entered'[i] # 0 => Knows(k, i))
    OBVIOUS
  <2>1. i \in Node /\ entered[i] <= 1
    BY <1>1, WorkflowAssumption DEF CarefulParts, EnteredOnce
  <2>2. CASE i = n /\ k.task[n] = "running"
    <3>1. entered'[i] = 1
      BY <1>1, <1>2, <1>11, <2>2
    <3>. QED BY <1>10, <2>2, <3>1 DEF Knows
  <2>3. CASE i = n /\ k.task[n] # "running"
    BY <1>2, <1>11, <2>3
  <2>4. CASE i # n
    <3>1. entered'[i] = entered[i]
      BY <1>1, <1>2, <2>1, <2>4
    <3>2. k.state[i] = exec[e].state[i] /\ k.task[i] = exec[e].task[i]
      BY <1>2, <2>1, <2>4 DEF Shifts
    <3>. QED BY <1>3, <1>5, <1>10, <2>1, <3>1, <3>2 DEF Knows
  <2>. QED BY <2>2, <2>3, <2>4
<1>13. Lone' /\ Still'
  BY <1>1, <1>2, <1>4, <1>9, <1>10 DEF CarefulParts, Lone, Still
<1>14. EnteredOnce'
  <2>1. \A i \in Unsafe, f \in Execution : entered'[i] # 0 /\ Alive(exec'[f]) => Knows(exec'[f], i)
    BY <1>9, <1>12
  <2>2. row'.status # "waiting_approval"
    BY <1>2, <1>4
  <2>. QED BY <1>12, <2>1, <2>2 DEF EnteredOnce
<1>15. \A f \in Execution : Ordered(exec'[f]) /\ Alone(exec'[f])
  BY <1>1, <1>7, <1>9 DEF CarefulParts
<1>16. \A f \in Execution : (Ordered(exec[f]) /\ Alone(exec[f]))'
  BY <1>15 DEF Ordered, Alone
<1>. QED BY <1>13, <1>14, <1>16 DEF OnceInv, CarefulParts

LEMMA OnceMoved ==
    ASSUME OnceInv, Careful, TypeInv', UNCHANGED setting, NEW e \in Execution, Moved(e)
    PROVE  OnceInv'
<1>1. /\ TypeInv /\ Shared /\ Steady /\ CarefulParts /\ exec[e] \in Memory
      /\ row.checkpoint \in Checkpoint /\ exec \in [Execution -> Memory]
      /\ Ordered(exec[e]) /\ Alone(exec[e])
  BY TypeFields DEF OnceInv, Careful, CarefulParts
<1>2. "failed" \in RowStatus /\ "succeeded" \in RowStatus
  BY DEF RowStatus
<1>5. CASE Fails(e)
  <2>1. /\ Puts(e, Over("over")) /\ EndRow(e, "failed", row.checkpoint, FALSE) /\ Alive(exec[e])
        /\ UNCHANGED <<setting, begun, entered>>
    BY <1>5 DEF Fails, Alive
  <2>2. row'.status = "failed"
    BY <1>1, <1>2, <2>1, CloseKeeps
  <2>. QED BY <2>1, <2>2, OnceOver
<1>6. CASE Loses(e)
  <2>1. Puts(e, Over("lost")) /\ UNCHANGED <<setting, row, entered, begun>>
    BY <1>6 DEF Loses
  <2>2. /\ Over("lost") \in Memory /\ Ordered(Over("lost")) /\ Alone(Over("lost")) /\ ~Alive(Over("lost"))
        /\ Over("lost").ready = {} /\ Over("lost").todo = {} /\ Over("lost").settled = {}
        /\ \A n \in Node : Over("lost").task[n] = "none"
    BY OverOrdered
  <2>3. exec'[e] = Over("lost") /\ \A f \in Execution \ {e} : exec'[f] = exec[f]
    BY <1>1, <2>1, <2>2, PutsFields
  <2>4. Lone' /\ Still' /\ EnteredOnce'
    BY <1>1, <2>1, <2>2, <2>3 DEF CarefulParts, Lone, Still, EnteredOnce
  <2>5. \A f \in Execution : Ordered(exec'[f]) /\ Alone(exec'[f])
    BY <1>1, <2>2, <2>3 DEF CarefulParts
  <2>6. \A f \in Execution : (Ordered(exec[f]) /\ Alone(exec[f]))'
    BY <2>5 DEF Ordered, Alone
  <2>. QED BY <2>4, <2>6 DEF OnceInv, CarefulParts
<1>7. CASE Restores(e)
  <2>. DEFINE m == exec[e]
              k == Restored(m)
  <2>1. /\ m.phase = "queued" /\ Puts(e, k) /\ UNCHANGED <<setting, row, entered, begun>>
    BY <1>7 DEF Restores
  <2>2. /\ k \in Memory /\ k.phase = "restoring" /\ k.state = m.from.node_states
        /\ k.settled = m.settled /\ k.task = m.task
        /\ k.ready = First \ {n \in Node : m.from.node_states[n] # "none"}
        /\ k.todo = {n \in Node : m.from.node_states[n] # "none"}
    BY <1>1, RestoredFields
  <2>3. m.settled = {} /\ \A n \in Node : m.task[n] = "none"
    BY <1>1, <2>1 DEF CarefulParts, Still
  <2>4. \A n \in Node : m.from.node_states[n] \in {"none", "succeeded", "skipped"}
    BY <1>1, MemoryFields, CheckpointFields
  <2>5. Alive(m)
    BY <2>1 DEF Alive
  <2>. HIDE DEF k, m
  <2>6. Ordered(k) /\ Alone(k)
    BY <2>2, <2>3, <2>4 DEF Ordered, Alone, First, Decided
  <2>7. row'.status \notin {"failed", "succeeded", "waiting_approval"}
    BY <1>1, <2>1, <2>5 DEF CarefulParts, Lone, m
  <2>8. \A n \in Unsafe : entered[n] # 0 => Knows(k, n)
    <3>. SUFFICES ASSUME NEW n \in Unsafe, entered[n] # 0 PROVE Knows(k, n)
      OBVIOUS
    <3>1. n \in Node /\ Knows(m, n)
      BY <2>5, PartsOf, WorkflowAssumption DEF m
    <3>2. m.from.node_states[n] # "none"
      BY <2>1, <3>1 DEF Knows
    <3>. QED BY <2>2, <2>4, <3>1, <3>2 DEF Knows, Decided
  <2>9. Alive(exec[e])
    BY <2>5 DEF m
  <2>. QED BY <2>1, <2>2, <2>6, <2>7, <2>8, <2>9, OnceFrom
<1>8. CASE RestoreDone(e)
  <2>1. PICK k \in Memory :
            /\ Puts(e, k) /\ exec[e].phase = "restoring" /\ exec[e].todo = {}
            /\ k.phase = "running" /\ k.from = exec[e].from /\ k.verdict = exec[e].verdict
            /\ k.settled = exec[e].settled /\ k.active = exec[e].active /\ k.ready = exec[e].ready
            /\ k.todo = exec[e].todo /\ k.state = exec[e].state /\ k.out = exec[e].out
            /\ k.task = exec[e].task
    BY <1>1, <1>8, RestoreDoneEffect
  <2>2. Ordered(k) /\ Alone(k)
    BY <1>1, <2>1 DEF Ordered, Alone
  <2>3. Alive(exec[e]) /\ row.status \notin {"failed", "succeeded", "waiting_approval"}
    BY <2>1, AliveFrom
  <2>4. UNCHANGED <<setting, row, entered, begun>>
    BY <1>8 DEF RestoreDone
  <2>5. \A n \in Unsafe : entered[n] # 0 => Knows(k, n)
    BY <2>1, <2>3, PartsOf DEF Knows
  <2>. QED BY <2>1, <2>2, <2>3, <2>4, <2>5, OnceFrom
<1>10. CASE CommitEarly(e)
  <2>1. /\ row' = Landed(e) /\ UNCHANGED <<setting, exec, entered, begun>>
        /\ \E n \in Node : exec[e].task[n] # "none"
    BY <1>10 DEF CommitEarly
  <2>2. /\ Alive(exec[e]) /\ row.status \notin {"failed", "succeeded", "waiting_approval"}
        /\ exec[e].phase \in {"restoring", "running"}
    BY <2>1, AliveFrom
  <2>3. row'.status \notin {"failed", "succeeded", "waiting_approval"}
    BY <1>1, <2>1, <2>2, RowKeeps
  <2>4. Puts(e, exec[e])
    BY <1>1, <2>1 DEF Puts
  <2>5. \A n \in Unsafe : entered[n] # 0 => Knows(exec[e], n)
    BY <2>2, PartsOf
  <2>. QED BY <1>1, <2>1, <2>2, <2>3, <2>4, <2>5, OnceFrom
<1>16. CASE Leaves(e)
  <2>1. PICK n \in Node : exec[e].task[n] \in {"raised", "blind", "stale"}
    BY <1>16 DEF Leaves
  <2>2. PICK i \in Node : exec[e].task[i] \in {"running", "resolving"}
    BY <1>16 DEF Leaves, Busy
  <2>. QED BY <1>1, <2>1, <2>2 DEF Alone
<1>18. CASE StopForApproval(e)
  <2>1. PICK n \in Node :
            /\ exec[e].phase = "running" /\ exec[e].task[n] = "waiting"
            /\ \A i \in Node : row'.checkpoint.node_states[i] =
                    IF exec[e].state[i] \in {"succeeded", "skipped"} THEN exec[e].state[i] ELSE "none"
            /\ Puts(e, Over("over"))
    BY <1>1, <1>18, StopEffect
  <2>2. Alive(exec[e])
    BY <2>1, AliveFrom
  <2>3. \A i \in Unsafe : entered[i] # 0 => row'.checkpoint.node_states[i] # "none"
    <3>. SUFFICES ASSUME NEW i \in Unsafe, entered[i] # 0
                 PROVE  row'.checkpoint.node_states[i] # "none"
      OBVIOUS
    <3>1. i \in Node /\ Knows(exec[e], i)
      BY <2>2, PartsOf, WorkflowAssumption
    <3>2. exec[e].task[i] \notin {"running", "raised", "compensate"}
      BY <1>1, <2>1, <3>1 DEF Alone
    <3>3. exec[e].state[i] \in Decided
      BY <2>1, <3>1, <3>2 DEF Knows
    <3>. QED BY <2>1, <3>1, <3>3 DEF Decided
  <2>4. UNCHANGED <<setting, begun, entered>>
    BY <1>18 DEF StopForApproval
  <2>. QED BY <2>1, <2>2, <2>3, <2>4, OnceOver
<1>19. CASE Succeeds(e)
  <2>1. /\ Puts(e, Over("over")) /\ EndRow(e, "succeeded", Empty, FALSE) /\ Alive(exec[e])
        /\ UNCHANGED <<setting, begun, entered>>
    BY <1>19 DEF Succeeds, Alive
  <2>2. row'.status = "succeeded"
    BY <1>1, <1>2, <2>1, CloseKeeps, EmptyFields
  <2>. QED BY <2>1, <2>2, OnceOver
<1>. QED
  BY <1>5, <1>6, <1>7, <1>8, <1>10, <1>16, <1>18, <1>19, OnceStart, OnceWork DEF Moved

LEMMA OnceStep ==
    ASSUME OnceInv, [Next]_vars PROVE OnceInv'
<1>1. TypeInv /\ TypeInv' /\ UNCHANGED setting
  BY TypeStep, SettingStays DEF OnceInv
<1>2. ASSUME ~Careful PROVE OnceInv'
  BY <1>1, <1>2 DEF OnceInv, Careful, Shared, Steady
<1>3. ASSUME Careful, NEW e \in Execution, NEW n \in Node, NEW xs \in SUBSET Edge, Hands(e, n, xs)
      PROVE  OnceInv'
  <2>1. PICK k \in Memory, dead \in SUBSET Node :
             /\ Puts(e, k) /\ exec' \in [Execution -> Memory] /\ exec'[e] = k
             /\ dead = Kills(exec[e], n, xs)
             /\ \A t \in dead : exec[e].state[t] = "none"
             /\ k.phase = exec[e].phase /\ k.from = exec[e].from /\ k.verdict = exec[e].verdict
             /\ k.out = exec[e].out /\ k.task = exec[e].task
             /\ k.settled = Settles(exec[e], xs) /\ k.active = Activates(exec[e], n, xs)
             /\ k.ready = exec[e].ready \cup (Reaches(exec[e], xs) \ dead)
             /\ k.todo = (exec[e].todo \ {n}) \cup dead
             /\ \A t \in Node : k.state[t] = IF t \in dead THEN "skipped" ELSE exec[e].state[t]
             /\ session' \in [Execution -> Session]
             /\ session'[e].steps = session[e].steps \cup {<<t, "skipped">> : t \in dead}
             /\ session'[e].held = session[e].held
             /\ \A f \in Execution \ {e} : session'[f] = session[f]
    BY <1>1, <1>3, HandsFields, Zenon
  <2>2. n \in exec[e].todo /\ xs \subseteq Out(n) /\ UNCHANGED <<setting, row, entered, begun>>
    BY <1>3 DEF Hands
  <2>3. /\ Alive(exec[e]) /\ row.status \notin {"failed", "succeeded", "waiting_approval"}
        /\ exec[e].phase \in {"restoring", "running"}
    BY <1>3, <2>2, AliveFrom
  <2>4. Ordered(exec[e]) /\ Alone(exec[e]) /\ exec[e] \in Memory
        /\ \A i \in Unsafe : entered[i] # 0 => Knows(exec[e], i)
    BY <1>3, <2>3, PartsOf
  <2>5. /\ Ordered(k) /\ Alone(k)
        /\ \A t \in Node : exec[e].state[t] \in Decided => k.state[t] \in Decided
    <3>. DEFINE m == exec[e]
    <3>1. /\ m \in Memory /\ n \in m.todo /\ xs \subseteq Out(n) /\ dead = Kills(m, n, xs)
          /\ Ordered(m) /\ Alone(m) /\ k.task = m.task /\ k.settled = Settles(m, xs)
          /\ k.ready = m.ready \cup (Reaches(m, xs) \ dead) /\ k.todo = (m.todo \ {n}) \cup dead
          /\ \A t \in Node : k.state[t] = IF t \in dead THEN "skipped" ELSE m.state[t]
      BY <2>1, <2>2, <2>4
    <3>. HIDE DEF m
    <3>2. /\ Ordered(k) /\ Alone(k)
          /\ \A t \in Node : m.state[t] \in Decided => k.state[t] \in Decided
      BY <3>1, OrderedHands
    <3>. QED BY <3>2 DEF m
  <2>6. \A i \in Unsafe : entered[i] # 0 => Knows(k, i)
    <3>. SUFFICES ASSUME NEW i \in Unsafe, entered[i] # 0 PROVE Knows(k, i)
      OBVIOUS
    <3>1. i \in Node /\ Knows(exec[e], i)
      BY <2>4, WorkflowAssumption
    <3>. QED BY <2>1, <2>3, <2>5, <3>1 DEF Knows
  <2>. QED BY <1>1, <1>3, <2>1, <2>2, <2>3, <2>5, <2>6, OnceFrom
<1>4. ASSUME Careful, Reap PROVE OnceInv'
  <2>1. /\ row' = [row EXCEPT !.status = "failed", !.leased = FALSE]
        /\ UNCHANGED <<setting, exec, entered, begun>>
        /\ \A e \in Execution : ~Alive(exec[e])
    BY <1>3, <1>4 DEF Reap, Careful, Steady, Alive
  <2>2. row'.status = "failed"
    BY <1>1, <2>1, TypeFields DEF Row
  <2>3. CarefulParts
    BY <1>4 DEF OnceInv
  <2>4. Lone' /\ Still' /\ EnteredOnce' /\ (\A e \in Execution : Ordered(exec[e]) /\ Alone(exec[e]))'
    BY <2>1, <2>2, <2>3 DEF CarefulParts, Lone, Still, EnteredOnce
  <2>. QED BY <1>1, <2>4 DEF OnceInv, CarefulParts
<1>5. ASSUME Careful, NEW status, NEW verdict, NEW leased, Stages(status, verdict, leased)
      PROVE  OnceInv'
  <2>1. PICK e \in Execution, k \in Memory :
            /\ e = begun + 1 /\ begun' = e /\ ~Locked
            /\ status = row.status /\ status \in {"failed", "waiting_approval"}
            /\ Puts(e, k)
            /\ k.phase = "queued" /\ k.from = row.checkpoint /\ k.verdict = verdict
            /\ k.settled = {} /\ k.active = {} /\ k.ready = {} /\ k.todo = {}
            /\ \A n \in Node : k.state[n] = "none" /\ k.out[n] = "none" /\ k.task[n] = "none"
            /\ row' \in Row /\ row'.status = "queued" /\ row'.checkpoint = row.checkpoint
            /\ UNCHANGED <<setting, long, ledger, parked, session, entered, crashes>>
    BY <1>1, <1>5, StagesEffect
  <2>2. CarefulParts
    BY <1>5 DEF OnceInv
  <2>3. \A f \in Execution : ~Alive(exec[f])
    BY <2>1, <2>2 DEF CarefulParts, Lone
  <2>4. exec'[e] = k /\ \A f \in Execution \ {e} : exec'[f] = exec[f]
    BY <1>1, <2>1, PutsFields
  <2>5. Lone' /\ Still'
    BY <2>1, <2>2, <2>3, <2>4 DEF CarefulParts, Lone, Still
  <2>6. Ordered(k) /\ Alone(k)
    BY <2>1 DEF Ordered, Alone
  <2>7. \A f \in Execution : Ordered(exec'[f]) /\ Alone(exec'[f])
    BY <2>2, <2>4, <2>6 DEF CarefulParts
  <2>8. \A f \in Execution : (Ordered(exec[f]) /\ Alone(exec[f]))'
    BY <2>7 DEF Ordered, Alone
  <2>9. \A n \in Unsafe : entered[n] # 0 => Knows(k, n)
    <3>. SUFFICES ASSUME NEW n \in Unsafe, entered[n] # 0 PROVE Knows(k, n)
      OBVIOUS
    <3>1. n \in Node
      BY WorkflowAssumption
    <3>2. ASSUME status = "failed" PROVE row.checkpoint.node_states[n] # "none"
      BY <1>5, <3>1, <3>2 DEF Stages, Resumable, Remaining
    <3>3. ASSUME status = "waiting_approval" PROVE row.checkpoint.node_states[n] # "none"
      BY <2>1, <2>2, <3>3 DEF CarefulParts, EnteredOnce
    <3>. QED BY <2>1, <3>2, <3>3 DEF Knows
  <2>10. EnteredOnce'
    BY <2>1, <2>2, <2>3, <2>4, <2>9 DEF CarefulParts, EnteredOnce
  <2>. QED BY <1>1, <2>5, <2>8, <2>10 DEF OnceInv, CarefulParts
<1>6. ASSUME UNCHANGED vars PROVE OnceInv'
  <2>1. UNCHANGED <<setting, row, exec, entered, begun>>
    BY <1>6 DEF vars
  <2>2. Careful' <=> Careful
    BY <2>1 DEF Careful, Shared, Steady
  <2>3. CarefulParts' <=> CarefulParts
    BY <2>1 DEF CarefulParts, Lone, Still, EnteredOnce
  <2>. QED BY <1>1, <2>2, <2>3 DEF OnceInv
<1>7. ASSUME Careful, NEW e \in Execution, Moved(e) PROVE OnceInv'
  BY <1>1, <1>7, OnceMoved
<1>. QED BY <1>1, <1>2, <1>3, <1>4, <1>5, <1>6, <1>7, StepForms

LEMMA OnceInit ==
    ASSUME Init PROVE OnceInv
<1>1. TypeInv
  BY TypeInit
<1>2. \A e \in Execution :
        /\ exec[e].phase = (IF e = 1 THEN "queued" ELSE "none")
        /\ exec[e].settled = {} /\ exec[e].ready = {} /\ exec[e].todo = {}
        /\ \A n \in Node : exec[e].state[n] = "none" /\ exec[e].task[n] = "none"
  <2>. SUFFICES ASSUME NEW e \in Execution
               PROVE  /\ exec[e].phase = (IF e = 1 THEN "queued" ELSE "none")
                      /\ exec[e].settled = {} /\ exec[e].ready = {} /\ exec[e].todo = {}
                      /\ \A n \in Node : exec[e].state[n] = "none" /\ exec[e].task[n] = "none"
    OBVIOUS
  <2>1. exec[e] = Blank(IF e = 1 THEN "queued" ELSE "none", Empty, "none")
    BY DEF Init
  <2>2. "queued" \in Phase /\ "none" \in Phase /\ "none" \in Verdict
    BY DEF Phase, Verdict
  <2>. QED BY <2>1, <2>2, BlankFields, EmptyFields
<1>3. begun = 1 /\ entered = [n \in Node |-> 0] /\ row.status \in {"running", "absent"}
  BY DEF Init
<1>4. Lone /\ Still
  BY <1>2, <1>3 DEF Lone, Still, Alive
<1>5. EnteredOnce
  BY <1>3, WorkflowAssumption DEF EnteredOnce
<1>6. \A e \in Execution : Ordered(exec[e]) /\ Alone(exec[e])
  BY <1>2 DEF Ordered, Alone
<1>. QED BY <1>1, <1>4, <1>5, <1>6 DEF OnceInv, CarefulParts

LEMMA OnceInvariant == Spec => []OnceInv
<1>1. Init => OnceInv
  BY OnceInit
<1>2. OnceInv /\ [Next]_vars => OnceInv'
  BY OnceStep
<1>. QED BY <1>1, <1>2, PTL DEF Spec

(* An effectful node whose calls do not go through the ledger is entered   *)
(* by one execution of the run at most, over all its crashes, redrives and *)
(* resumes.                                                                *)
THEOREM UnsafeOnceHolds == Spec => []UnsafeOnce
<1>1. OnceInv => UnsafeOnce
  BY DEF OnceInv, Careful, CarefulParts, EnteredOnce, UnsafeOnce
<1>. QED BY <1>1, OnceInvariant, PTL

(***************************************************************************)
(* A run that succeeds has decided all of its graph.                       *)
(***************************************************************************)

Strict == Careful /\ setting.onError = "fail_fast"

(* A decided node has handed on all its edges, or is about to. *)
HandsOn(m) ==
    \A n \in Node : m.phase \in {"restoring", "running"} /\ m.state[n] \in Decided /\ n \notin m.todo =>
        Out(n) \subseteq m.settled

(* A node all of whose edges are settled is ready, or under way, or done;  *)
(* no other failed or waits.                                               *)
GoesOn(m) ==
    /\ \A n \in Node : m.phase \in {"restoring", "running"} /\ In(n) \subseteq m.settled =>
           n \in m.ready \/ m.state[n] \in Decided \/ m.task[n] # "none"
    /\ \A n \in Node : m.state[n] \in {"failed", "waiting_approval"} => m.task[n] # "none"

(* What has run in an execution can be read by the edges that leave it. *)
Readable(m) ==
    /\ m.phase = "running" => \A n \in m.todo : m.state[n] = "succeeded" => m.out[n] \in Answer
    /\ \A n \in Node : m.task[n] = "done" => m.state[n] = "succeeded"

StrictParts ==
    /\ SuccessIsComplete
    /\ \A e \in Execution : HandsOn(exec[e]) /\ GoesOn(exec[e]) /\ Readable(exec[e])

CompleteInv == HonestInv /\ OnceInv /\ (Strict => StrictParts)

(* A step of one execution that leaves the run short of success. *)
LEMMA StrictFrom ==
    ASSUME TypeInv, Strict, StrictParts, UNCHANGED setting,
           NEW e \in Execution, NEW k \in Memory, Puts(e, k), HandsOn(k), GoesOn(k), Readable(k),
           row'.status = "succeeded" =>
                \A n \in Node : ledger'[n] \cap {"succeeded", "skipped"} # {}
    PROVE  StrictParts'
<1>1. exec'[e] = k /\ \A f \in Execution \ {e} : exec'[f] = exec[f]
  BY PutsFields
<1>2. \A f \in Execution : HandsOn(exec'[f]) /\ GoesOn(exec'[f]) /\ Readable(exec'[f])
  BY <1>1 DEF StrictParts
<1>3. \A f \in Execution : (HandsOn(exec[f]) /\ GoesOn(exec[f]) /\ Readable(exec[f]))'
  BY <1>2 DEF HandsOn, GoesOn, Readable
<1>4. SuccessIsComplete'
  BY DEF SuccessIsComplete
<1>. QED BY <1>3, <1>4 DEF StrictParts

LEMMA StrictOver ==
    ASSUME TypeInv, Strict, StrictParts, UNCHANGED setting,
           NEW e \in Execution, NEW p \in {"over", "lost"}, Puts(e, Over(p)),
           row'.status = "succeeded" =>
                \A n \in Node : ledger'[n] \cap {"succeeded", "skipped"} # {}
    PROVE  StrictParts'
<1>1. /\ Over(p) \in Memory /\ Over(p).phase = p
      /\ \A n \in Node : Over(p).state[n] = "none" /\ Over(p).task[n] = "none"
  BY OverFields
<1>2. HandsOn(Over(p)) /\ GoesOn(Over(p)) /\ Readable(Over(p))
  BY <1>1 DEF HandsOn, GoesOn, Readable
<1>. QED BY <1>1, <1>2, StrictFrom

LEMMA StrictShift ==
    ASSUME TypeInv, Strict, StrictParts, UNCHANGED setting,
           NEW e \in Execution, NEW k \in Memory, Puts(e, k), NEW n \in Node, Shifts(exec[e], k, n),
           k.task[n] # "none", exec[e].ready \ {n} \subseteq k.ready,
           \/ /\ k.state[n] = exec[e].state[n] /\ k.out[n] = exec[e].out[n] /\ k.todo = exec[e].todo
           \/ k.state[n] \notin Decided /\ k.todo = exec[e].todo
           \/ k.out[n] \in Answer /\ k.todo = exec[e].todo \cup {n},
           k.task[n] = "done" => k.state[n] = "succeeded",
           row'.status # "succeeded"
    PROVE  StrictParts'
<1>. DEFINE m == exec[e]
<1>1. m \in Memory /\ HandsOn(m) /\ GoesOn(m) /\ Readable(m)
  BY TypeFields DEF StrictParts
<1>2. /\ k.phase = m.phase /\ k.settled = m.settled
      /\ \A i \in Node \ {n} : k.state[i] = m.state[i] /\ k.out[i] = m.out[i] /\ k.task[i] = m.task[i]
  BY DEF Shifts
<1>3. m.todo \subseteq Node
  BY <1>1, MemoryFields
<1>4. HandsOn(k)
  <2>. SUFFICES ASSUME NEW i \in Node, k.phase \in {"restoring", "running"}, k.state[i] \in Decided,
                      i \notin k.todo
               PROVE  Out(i) \subseteq k.settled
    BY DEF HandsOn
  <2>1. m.state[i] \in Decided /\ i \notin m.todo
    BY <1>2
  <2>. QED BY <1>1, <1>2, <2>1 DEF HandsOn
<1>5. GoesOn(k)
  BY <1>1, <1>2 DEF GoesOn
<1>6. Readable(k)
  <2>1. ASSUME k.phase = "running", NEW i \in k.todo, k.state[i] = "succeeded"
        PROVE  k.out[i] \in Answer
    <3>1. i \in Node /\ (i = n \/ (i \in m.todo /\ k.state[i] = m.state[i] /\ k.out[i] = m.out[i]))
      BY <1>2, <1>3
    <3>. QED BY <1>1, <1>2, <2>1, <3>1 DEF Readable, Decided
  <2>2. \A i \in Node : k.task[i] = "done" => k.state[i] = "succeeded"
    BY <1>1, <1>2 DEF Readable
  <2>. QED BY <2>1, <2>2 DEF Readable
<1>. QED BY <1>4, <1>5, <1>6, StrictFrom

(* An execution with nothing left to do has decided the whole graph: an    *)
(* undecided node that no other one leads to would be ready, or under way. *)
LEMMA NothingLeft ==
    ASSUME NEW m \in Memory, HandsOn(m), GoesOn(m), Readable(m),
           m.phase = "running", ~Halted(m), m.ready = {}, Busy(m) = {}, m.todo = {}
    PROVE  \A n \in Node : m.state[n] \in Decided
<1>. DEFINE open == {n \in Node : m.state[n] \notin Decided}
<1>1. ASSUME open # {} PROVE FALSE
  <2>1. PICK n \in open : \A x \in Edge : x[2] = n => x[1] \notin open
    BY <1>1, WorkflowAssumption
  <2>2. \A x \in In(n) : x \in Edge /\ x[1] \in Node /\ x[1] \notin open
    BY <2>1, WorkflowAssumption DEF In
  <2>3. \A x \in In(n) : Out(x[1]) \subseteq m.settled /\ x \in Out(x[1])
    BY <2>2 DEF HandsOn, Out
  <2>4. In(n) \subseteq m.settled
    BY <2>3
  <2>5. n \in Node /\ m.state[n] \notin Decided
    OBVIOUS
  <2>6. m.task[n] # "none" /\ m.task[n] \in Task
    BY <2>4, <2>5, MemoryFields DEF GoesOn
  <2>7. m.task[n] = "done"
    BY <2>5, <2>6 DEF Halted, Busy, Task
  <2>. QED BY <2>5, <2>7 DEF Readable, Decided
<1>. QED BY <1>1

LEMMA CompleteWork ==
    ASSUME CompleteInv, Strict, UNCHANGED setting, NEW e \in Execution,
           Retry(e) \/ Succeed(e) \/ Fail(e) \/ Wait(e) \/ EndTask(e) \/ Start(e)
    PROVE  StrictParts'
<1>1. /\ TypeInv /\ Shared /\ setting.onError # "continue" /\ OnceInv /\ Careful /\ StrictParts
      /\ Ordered(exec[e]) /\ exec[e] \in Memory
  BY PartsOf DEF CompleteInv, HonestInv, Strict, Careful
<1>2. CASE Retry(e)
  <2>1. PICK n \in Node, k \in Memory :
            /\ exec[e].task[n] = "running" /\ Puts(e, k) /\ Shifts(exec[e], k, n)
            /\ k.state[n] = exec[e].state[n] /\ k.out[n] = exec[e].out[n] /\ k.task[n] = "running"
            /\ k.ready = exec[e].ready /\ k.todo = exec[e].todo
    BY <1>1, <1>2, RetryPoint
  <2>2. row'.status # "succeeded"
    BY <1>1, <1>2, <2>1, AliveFrom DEF Retry
  <2>. QED BY <1>1, <2>1, <2>2, StrictShift
<1>3. CASE Succeed(e)
  <2>1. PICK n \in Node, k \in Memory :
            /\ exec[e].task[n] = "running" /\ Puts(e, k) /\ Shifts(exec[e], k, n)
            /\ k.state[n] = "succeeded" /\ k.out[n] \in Answer /\ k.task[n] = "resolving"
            /\ k.ready = exec[e].ready /\ k.todo = exec[e].todo \cup {n}
            /\ StageNode(e, n, "succeeded", k.state, k.out)
    BY <1>1, <1>3, SucceedPoint
  <2>2. row.status # "succeeded" /\ row'.status \in {row.status, "running"}
    BY <1>1, <2>1, AliveFrom, StageStatus DEF StepEnd
  <2>. QED BY <1>1, <2>1, <2>2, StrictShift
<1>4. CASE Fail(e)
  <2>1. PICK n \in Node, k \in Memory :
            /\ exec[e].task[n] = "running" /\ Puts(e, k) /\ Shifts(exec[e], k, n)
            /\ k.state[n] = "failed" /\ k.out[n] = exec[e].out[n]
            /\ k.task[n] \in {"raised", "compensate"}
            /\ k.ready = exec[e].ready /\ k.todo = exec[e].todo
            /\ StageNode(e, n, "failed", k.state, k.out)
    BY <1>1, <1>4, FailPoint
  <2>2. row.status # "succeeded" /\ row'.status \in {row.status, "running"}
    BY <1>1, <2>1, AliveFrom, StageStatus DEF StepEnd
  <2>3. k.state[n] \notin Decided
    BY <2>1 DEF Decided
  <2>. QED BY <1>1, <2>1, <2>2, <2>3, StrictShift
<1>5. CASE Wait(e)
  <2>1. PICK n \in Node, k \in Memory :
            /\ n \in Gated /\ exec[e].task[n] = "running" /\ Puts(e, k) /\ Shifts(exec[e], k, n)
            /\ k.state[n] = "waiting_approval" /\ k.out[n] = exec[e].out[n] /\ k.task[n] = "waiting"
            /\ k.ready = exec[e].ready /\ k.todo = exec[e].todo
    BY <1>1, <1>5, WaitPoint
  <2>2. row'.status # "succeeded"
    BY <1>1, <1>5, <2>1, AliveFrom DEF Wait
  <2>3. k.state[n] \notin Decided
    BY <2>1 DEF Decided
  <2>. QED BY <1>1, <2>1, <2>2, <2>3, StrictShift
<1>6. CASE EndTask(e)
  <2>1. PICK n \in Node :
            /\ exec[e].task[n] = "resolving"
            /\ \/ exec[e].phase = "over" /\ Puts(e, Over("over"))
               \/ \E k \in Memory :
                    /\ Puts(e, k) /\ Moves(exec[e], k, n, exec[e].state[n], exec[e].out[n], "done")
                    /\ k.ready = exec[e].ready /\ k.todo = exec[e].todo
    BY <1>1, <1>6, EndTaskEffect
  <2>2. exec[e].phase # "over" /\ row.status # "succeeded"
    BY <1>1, <2>1, AliveFrom
  <2>3. PICK k \in Memory :
            /\ Puts(e, k) /\ Moves(exec[e], k, n, exec[e].state[n], exec[e].out[n], "done")
            /\ k.ready = exec[e].ready /\ k.todo = exec[e].todo
    BY <2>1, <2>2
  <2>4. /\ Shifts(exec[e], k, n) /\ k.state[n] = exec[e].state[n] /\ k.out[n] = exec[e].out[n]
        /\ k.task[n] = "done"
    BY <1>1, <2>3, DonePoint
  <2>5. k.state[n] = "succeeded"
    BY <1>1, <2>1, <2>4 DEF Ordered
  <2>6. row'.status # "succeeded"
    BY <1>6, <2>2 DEF EndTask
  <2>. QED BY <1>1, <2>3, <2>4, <2>5, <2>6, StrictShift
<1>7. CASE Start(e)
  <2>1. PICK n \in Node, k \in Memory :
            /\ n \in exec[e].ready /\ CanStart(exec[e]) /\ Puts(e, k) /\ Shifts(exec[e], k, n)
            /\ k.state[n] = exec[e].state[n] /\ k.out[n] = exec[e].out[n]
            /\ k.task[n] \in {"blind", "stale", "running"}
            /\ k.ready = exec[e].ready \ {n} /\ k.todo = exec[e].todo
            /\ UNCHANGED <<row, ledger, begun>>
    BY <1>1, <1>7, StartPoint
  <2>2. row'.status # "succeeded"
    BY <1>1, <2>1, AliveFrom DEF CanStart
  <2>. QED BY <1>1, <2>1, <2>2, StrictShift
<1>. QED BY <1>2, <1>3, <1>4, <1>5, <1>6, <1>7

LEMMA CompleteMoved ==
    ASSUME CompleteInv, Strict, UNCHANGED setting, NEW e \in Execution, Moved(e)
    PROVE  StrictParts'
<1>1. /\ TypeInv /\ Shared /\ Steady /\ setting.onError = "fail_fast" /\ OnceInv /\ Careful
      /\ StrictParts /\ Tracked
      /\ Ordered(exec[e]) /\ Alone(exec[e]) /\ exec[e] \in Memory /\ row.checkpoint \in Checkpoint
      /\ HandsOn(exec[e]) /\ GoesOn(exec[e]) /\ Readable(exec[e])
  BY PartsOf, TypeFields DEF CompleteInv, HonestInv, Strict, Careful, StrictParts
<1>2. "failed" \in RowStatus /\ "succeeded" \in RowStatus
  BY DEF RowStatus
<1>3. CASE Fails(e)
  <2>1. Puts(e, Over("over")) /\ EndRow(e, "failed", row.checkpoint, FALSE)
    BY <1>3 DEF Fails
  <2>2. row'.status = "failed"
    BY <1>1, <1>2, <2>1, CloseKeeps
  <2>. QED BY <1>1, <2>1, <2>2, StrictOver
<1>4. CASE Loses(e)
  <2>1. Puts(e, Over("lost")) /\ UNCHANGED <<row, ledger>>
    BY <1>4 DEF Loses
  <2>. QED BY <1>1, <2>1, StrictOver DEF StrictParts, SuccessIsComplete
<1>5. CASE Restores(e)
  <2>. DEFINE m == exec[e]
              k == Restored(m)
  <2>1. /\ m.phase = "queued" /\ Puts(e, k) /\ UNCHANGED row
    BY <1>5 DEF Restores
  <2>2. /\ k \in Memory /\ k.phase = "restoring" /\ k.state = m.from.node_states
        /\ k.settled = m.settled /\ k.task = m.task
        /\ k.ready = First \ {n \in Node : m.from.node_states[n] # "none"}
        /\ k.todo = {n \in Node : m.from.node_states[n] # "none"}
    BY <1>1, RestoredFields
  <2>3. m.settled = {} /\ \A n \in Node : m.task[n] = "none"
    BY <1>1, <2>1 DEF OnceInv, CarefulParts, Still
  <2>4. \A n \in Node : m.from.node_states[n] \in {"none", "succeeded", "skipped"}
    BY <1>1, MemoryFields, CheckpointFields
  <2>5. row'.status # "succeeded"
    BY <1>1, <2>1 DEF OnceInv, CarefulParts, Lone, Alive
  <2>. HIDE DEF k, m
  <2>6. HandsOn(k) /\ GoesOn(k) /\ Readable(k)
    BY <2>2, <2>3, <2>4 DEF HandsOn, GoesOn, Readable, First, Decided
  <2>. QED BY <1>1, <2>1, <2>2, <2>5, <2>6, StrictFrom
<1>6. CASE RestoreDone(e)
  <2>1. PICK k \in Memory :
            /\ Puts(e, k) /\ exec[e].phase = "restoring" /\ exec[e].todo = {}
            /\ k.phase = "running" /\ k.from = exec[e].from /\ k.verdict = exec[e].verdict
            /\ k.settled = exec[e].settled /\ k.active = exec[e].active /\ k.ready = exec[e].ready
            /\ k.todo = exec[e].todo /\ k.state = exec[e].state /\ k.out = exec[e].out
            /\ k.task = exec[e].task
    BY <1>1, <1>6, RestoreDoneEffect
  <2>2. HandsOn(k) /\ GoesOn(k) /\ Readable(k)
    BY <1>1, <2>1 DEF HandsOn, GoesOn, Readable
  <2>3. row'.status # "succeeded"
    BY <1>1, <1>6, <2>1, AliveFrom DEF RestoreDone
  <2>. QED BY <1>1, <2>1, <2>2, <2>3, StrictFrom
<1>7. CASE CommitEarly(e)
  <2>1. row' = Landed(e) /\ UNCHANGED exec /\ \E n \in Node : exec[e].task[n] # "none"
    BY <1>7 DEF CommitEarly
  <2>2. row.status # "succeeded"
    BY <1>1, <2>1, AliveFrom
  <2>3. row'.status # "succeeded"
    BY <1>1, <2>1, <2>2, RowKeeps
  <2>4. Puts(e, exec[e])
    BY <1>1, <2>1, TypeFields DEF Puts
  <2>. QED BY <1>1, <2>3, <2>4, StrictFrom
<1>8. CASE Leaves(e)
  <2>1. PICK n \in Node : exec[e].task[n] \in {"raised", "blind", "stale"}
    BY <1>8 DEF Leaves
  <2>2. PICK i \in Node : exec[e].task[i] \in {"running", "resolving"}
    BY <1>8 DEF Leaves, Busy
  <2>. QED BY <1>1, <2>1, <2>2 DEF Alone
<1>9. CASE Swallow(e)
  BY <1>1, <1>9 DEF Swallow
<1>10. CASE StopForApproval(e)
  <2>1. row'.status = "waiting_approval" /\ Puts(e, Over("over"))
    BY <1>1, <1>10, StopEffect
  <2>. QED BY <1>1, <2>1, StrictOver
<1>11. CASE Succeeds(e)
  <2>1. /\ exec[e].phase = "running" /\ ~Halted(exec[e])
        /\ exec[e].ready = {} /\ Busy(exec[e]) = {} /\ exec[e].todo = {}
        /\ Puts(e, Over("over")) /\ EndRow(e, "succeeded", Empty, FALSE)
    BY <1>11 DEF Succeeds
  <2>2. \A n \in Node : exec[e].state[n] \in Decided
    BY <1>1, <2>1, NothingLeft
  <2>3. CommitSteps(e, {}) /\ session' = [session EXCEPT ![e] = Clean]
    BY <1>1, <1>2, <2>1, CloseKeeps, EmptyFields
  <2>4. {} \in SUBSET (Node \X StepEnd)
    OBVIOUS
  <2>5. /\ Up
        /\ \A n \in Node, v \in StepEnd : <<n, v>> \in session[e].steps => v \in ledger'[n]
    BY <1>1, <2>3, <2>4, Commits
  <2>6. \A n \in Node : exec[e].state[n] \in ledger'[n]
    BY <1>1, <2>2, <2>5 DEF Tracked, Up, Decided, StepEnd
  <2>7. \A n \in Node : ledger'[n] \cap {"succeeded", "skipped"} # {}
    BY <2>2, <2>6 DEF Decided
  <2>. QED BY <1>1, <2>1, <2>7, StrictOver
<1>. QED
  BY <1>3, <1>4, <1>5, <1>6, <1>7, <1>8, <1>9, <1>10, <1>11, CompleteWork DEF Moved

(* A decided node hands on every edge, whatever it was that decided it. *)
LEMMA StrictHands ==
    ASSUME NEW m \in Memory, NEW k \in Memory, NEW n \in m.todo, NEW dead \in SUBSET Node,
           Ordered(m), HandsOn(m), GoesOn(m), Readable(m), dead = Kills(m, n, Out(n)),
           k.phase = m.phase, k.out = m.out, k.task = m.task, k.settled = Settles(m, Out(n)),
           k.ready = m.ready \cup (Reaches(m, Out(n)) \ dead), k.todo = (m.todo \ {n}) \cup dead,
           \A t \in Node : k.state[t] = IF t \in dead THEN "skipped" ELSE m.state[t]
    PROVE  HandsOn(k) /\ GoesOn(k) /\ Readable(k)
<1>1. dead \subseteq Reaches(m, Out(n)) /\ \A t \in dead : m.state[t] = "none"
  BY DEF Kills, Reaches
<1>2. m.todo \subseteq Node /\ n \in Node /\ \A t \in Node : m.state[t] \in NodeState
  BY MemoryFields, Words
<1>3. HandsOn(k)
  <2>. SUFFICES ASSUME NEW t \in Node, k.phase \in {"restoring", "running"}, k.state[t] \in Decided,
                      t \notin k.todo
               PROVE  Out(t) \subseteq k.settled
    BY DEF HandsOn
  <2>1. t \notin dead /\ m.state[t] \in Decided /\ (t = n \/ t \notin m.todo)
    OBVIOUS
  <2>. QED BY <2>1 DEF HandsOn, Settles
<1>4. ASSUME NEW t \in Node, k.phase \in {"restoring", "running"}, In(t) \subseteq k.settled
      PROVE  t \in k.ready \/ k.state[t] \in Decided \/ k.task[t] # "none"
  <2>1. CASE In(t) \subseteq m.settled
    <3>1. t \in m.ready \/ m.state[t] \in Decided \/ m.task[t] # "none"
      BY <1>4, <2>1 DEF GoesOn
    <3>. QED BY <3>1 DEF Decided
  <2>2. CASE ~(In(t) \subseteq m.settled)
    <3>1. PICK x \in In(t) : x \notin m.settled
      BY <2>2
    <3>2. x \in Out(n) /\ x[2] = t
      BY <1>4, <3>1 DEF Settles, In
    <3>3. CASE m.state[t] = "none"
      <4>1. t \in Reaches(m, Out(n))
        BY <1>4, <3>2, <3>3 DEF Reaches
      <4>. QED BY <4>1 DEF Decided
    <3>4. CASE m.state[t] # "none"
      <4>1. m.state[t] \in Decided \/ m.state[t] \in {"failed", "waiting_approval"}
        BY <1>2, <3>4 DEF NodeState, Decided
      <4>. QED BY <1>1, <3>4, <4>1 DEF GoesOn
    <3>. QED BY <3>3, <3>4
  <2>. QED BY <2>1, <2>2
<1>5. GoesOn(k)
  BY <1>1, <1>4 DEF GoesOn
<1>6. Readable(k)
  BY <1>1, <1>2 DEF Readable
<1>. QED BY <1>3, <1>5, <1>6

LEMMA CompleteStep ==
    ASSUME CompleteInv, [Next]_vars PROVE CompleteInv'
<1>1. /\ TypeInv /\ HonestInv' /\ OnceInv' /\ UNCHANGED setting /\ HonestInv /\ OnceInv
  BY HonestStep, OnceStep, SettingStays DEF CompleteInv, HonestInv
<1>2. ASSUME ~Strict PROVE CompleteInv'
  BY <1>1, <1>2 DEF CompleteInv, Strict, Careful, Shared, Steady
<1>3. ASSUME Strict, NEW e \in Execution, NEW n \in Node, NEW xs \in SUBSET Edge, Hands(e, n, xs)
      PROVE  StrictParts'
  <2>1. PICK k \in Memory, dead \in SUBSET Node :
             /\ Puts(e, k) /\ exec' \in [Execution -> Memory] /\ exec'[e] = k
             /\ dead = Kills(exec[e], n, xs)
             /\ \A t \in dead : exec[e].state[t] = "none"
             /\ k.phase = exec[e].phase /\ k.from = exec[e].from /\ k.verdict = exec[e].verdict
             /\ k.out = exec[e].out /\ k.task = exec[e].task
             /\ k.settled = Settles(exec[e], xs) /\ k.active = Activates(exec[e], n, xs)
             /\ k.ready = exec[e].ready \cup (Reaches(exec[e], xs) \ dead)
             /\ k.todo = (exec[e].todo \ {n}) \cup dead
             /\ \A t \in Node : k.state[t] = IF t \in dead THEN "skipped" ELSE exec[e].state[t]
             /\ session' \in [Execution -> Session]
             /\ session'[e].steps = session[e].steps \cup {<<t, "skipped">> : t \in dead}
             /\ session'[e].held = session[e].held
             /\ \A f \in Execution \ {e} : session'[f] = session[f]
    BY <1>1, <1>3, HandsFields, Zenon
  <2>2. /\ n \in exec[e].todo /\ UNCHANGED row /\ Careful
        /\ (exec[e].state[n] = "skipped" \/ \A x \in Out(n) : Defined(exec[e], x)) => xs = Out(n)
        /\ exec[e].phase = "restoring" => xs = Out(n)
    BY <1>3 DEF Hands, Strict
  <2>3. exec[e].phase \in {"restoring", "running"} /\ row.status # "succeeded"
    BY <1>1, <2>2, AliveFrom
  <2>4. /\ Ordered(exec[e]) /\ exec[e] \in Memory
        /\ HandsOn(exec[e]) /\ GoesOn(exec[e]) /\ Readable(exec[e]) /\ StrictParts
    BY <1>1, <1>3, <2>2, PartsOf DEF CompleteInv, StrictParts
  <2>5. xs = Out(n)
    <3>1. CASE exec[e].phase = "running" /\ exec[e].state[n] = "succeeded"
      <4>1. exec[e].out[n] \in Answer
        BY <2>2, <2>4, <3>1 DEF Readable
      <4>2. \A x \in Out(n) : Defined(exec[e], x)
        BY <4>1 DEF Defined, Out
      <4>. QED BY <2>2, <4>2
    <3>2. exec[e].state[n] \in Decided
      BY <2>2, <2>4 DEF Ordered
    <3>. QED BY <2>2, <2>3, <3>1, <3>2 DEF Decided
  <2>6. HandsOn(k) /\ GoesOn(k) /\ Readable(k)
    <3>. DEFINE m == exec[e]
    <3>1. /\ m \in Memory /\ n \in m.todo /\ dead = Kills(m, n, Out(n))
          /\ Ordered(m) /\ HandsOn(m) /\ GoesOn(m) /\ Readable(m)
          /\ k.phase = m.phase /\ k.out = m.out /\ k.task = m.task /\ k.settled = Settles(m, Out(n))
          /\ k.ready = m.ready \cup (Reaches(m, Out(n)) \ dead) /\ k.todo = (m.todo \ {n}) \cup dead
          /\ \A t \in Node : k.state[t] = IF t \in dead THEN "skipped" ELSE m.state[t]
      BY <2>1, <2>2, <2>4, <2>5
    <3>. HIDE DEF m
    <3>. QED BY <3>1, StrictHands
  <2>. QED BY <1>1, <1>3, <2>1, <2>2, <2>3, <2>4, <2>6, StrictFrom
<1>4. ASSUME Strict, Reap PROVE StrictParts'
  <2>1. /\ row' = [row EXCEPT !.status = "failed", !.leased = FALSE] /\ UNCHANGED <<setting, exec>>
    BY <1>4 DEF Reap
  <2>2. row'.status = "failed"
    BY <1>1, <2>1, TypeFields DEF Row
  <2>3. StrictParts
    BY <1>4 DEF CompleteInv
  <2>. QED BY <2>1, <2>2, <2>3 DEF StrictParts, SuccessIsComplete
<1>5. ASSUME Strict, NEW status, NEW verdict, NEW leased, Stages(status, verdict, leased)
      PROVE  StrictParts'
  <2>1. PICK e \in Execution, k \in Memory :
            /\ Puts(e, k) /\ k.phase = "queued" /\ row'.status = "queued"
            /\ \A n \in Node : k.state[n] = "none" /\ k.task[n] = "none"
    BY <1>1, <1>5, StagesEffect
  <2>2. HandsOn(k) /\ GoesOn(k) /\ Readable(k)
    BY <2>1 DEF HandsOn, GoesOn, Readable
  <2>3. StrictParts
    BY <1>5 DEF CompleteInv
  <2>. QED BY <1>1, <1>5, <2>1, <2>2, <2>3, StrictFrom
<1>6. ASSUME Strict, UNCHANGED vars PROVE StrictParts'
  <2>1. UNCHANGED <<setting, row, exec, ledger>> /\ StrictParts
    BY <1>6 DEF vars, CompleteInv
  <2>. QED BY <2>1 DEF StrictParts, SuccessIsComplete, Steady
<1>7. ASSUME Strict, NEW e \in Execution, Moved(e) PROVE StrictParts'
  BY <1>1, <1>7, CompleteMoved
<1>8. ASSUME Strict PROVE StrictParts'
  BY <1>1, <1>3, <1>4, <1>5, <1>6, <1>7, <1>8, StepForms
<1>. QED BY <1>1, <1>2, <1>8 DEF CompleteInv

LEMMA CompleteInit ==
    ASSUME Init PROVE CompleteInv
<1>1. HonestInv /\ OnceInv
  BY HonestInit, OnceInit
<1>2. \A e \in Execution :
        /\ exec[e].phase \notin {"restoring", "running"}
        /\ \A n \in Node : exec[e].state[n] = "none" /\ exec[e].task[n] = "none"
  <2>. SUFFICES ASSUME NEW e \in Execution
               PROVE  /\ exec[e].phase \notin {"restoring", "running"}
                      /\ \A n \in Node : exec[e].state[n] = "none" /\ exec[e].task[n] = "none"
    OBVIOUS
  <2>1. exec[e] = Blank(IF e = 1 THEN "queued" ELSE "none", Empty, "none")
    BY DEF Init
  <2>2. "queued" \in Phase /\ "none" \in Phase /\ "none" \in Verdict
    BY DEF Phase, Verdict
  <2>. QED BY <2>1, <2>2, BlankFields, EmptyFields
<1>3. row.status \in {"running", "absent"}
  BY DEF Init
<1>4. StrictParts
  BY <1>2, <1>3 DEF StrictParts, SuccessIsComplete, HandsOn, GoesOn, Readable
<1>. QED BY <1>1, <1>4 DEF CompleteInv

(* A run that fails at its first failed node, on one slot, reports success *)
(* only when every node of its graph has succeeded or been skipped in the  *)
(* committed ledger, over all the executions it took.                      *)
THEOREM SuccessIsCompleteHolds ==
    Spec => [](Shared /\ setting.onError = "fail_fast" => SuccessIsComplete)
<1>1. Init => CompleteInv
  BY CompleteInit
<1>2. CompleteInv /\ [Next]_vars => CompleteInv'
  BY CompleteStep
<1>3. CompleteInv => (Shared /\ setting.onError = "fail_fast" => SuccessIsComplete)
  BY DEF CompleteInv, Strict, Careful, StrictParts, SuccessIsComplete
<1>. QED BY <1>1, <1>2, <1>3, PTL DEF Spec

(***************************************************************************)
(* The committed ledger grows in the order of the graph.                   *)
(***************************************************************************)

Ledgers == [Node -> SUBSET StepEnd]

(* Where nodes are in state s with outputs o, edge x is not taken. *)
Inert(s, o, x) == s[x[1]] = "succeeded" => When[x] # "always" /\ o[x[1]] # When[x]

(* It is taken, unless an output that was not kept would say otherwise. *)
MayHold(s, o, x) ==
    s[x[1]] = "succeeded" /\ (When[x] = "always" \/ o[x[1]] \in {When[x], "none"})

(* States s and outputs o know what ledger L has of the successes, and     *)
(* would neither run a node that was passed over nor pass over one that    *)
(* failed.                                                                 *)
Fits(L, s, o) ==
    \A n \in Node :
        /\ "succeeded" \in L[n] => s[n] = "succeeded"
        /\ "skipped" \in L[n] \/ s[n] = "skipped" =>
                In(n) # {} /\ \A x \in In(n) : Inert(s, o, x)
        /\ "failed" \in L[n] => In(n) = {} \/ \E x \in In(n) : MayHold(s, o, x)

(* A checkpoint says nothing of a success that memory m does not. *)
Agrees(c, m) ==
    \A n \in Node : c.node_states[n] = "succeeded" =>
        m.state[n] = "succeeded" /\ c.node_outputs[n] \in {m.out[n], "none"}

(* The active edges are those that are settled and taken, and lead to what *)
(* is ready or was started.                                                *)
Wired(m) ==
    /\ m.active \subseteq m.settled
    /\ \A x \in m.settled :
        /\ x \in m.active <=> ~Inert(m.state, m.out, x)
        /\ m.state[x[1]] = "succeeded" => Defined(m, x)
    /\ \A n \in Node : n \in m.ready \/ m.task[n] # "none" => In(n) = {} \/ In(n) \cap m.active # {}

(* What a session has staged was passed over by its execution m, and by no *)
(* other before.                                                           *)
Staged(S, m, L) ==
    \A n \in Node, v \in StepEnd : <<n, v>> \in S =>
        /\ v = "skipped" /\ m.state[n] = "skipped" /\ L[n] \subseteq {"skipped"}
        /\ m.phase \in {"restoring", "running"} /\ In(n) \subseteq m.settled

(* A node that was passed over is nothing else, and all before it is decided. *)
Closed(L) ==
    \A n \in Node : "skipped" \in L[n] =>
        L[n] = {"skipped"} /\ \A x \in In(n) : L[x[1]] \cap Decided # {}

(* The memory m of an execution, with S staged on its session, goes with   *)
(* ledger L and the checkpoint c on the row.                               *)
Goes(L, S, c, m) ==
    /\ Wired(m) /\ Staged(S, m, L)
    /\ m.phase = "queued" => m.from = c
    /\ m.phase \in {"restoring", "running"} => Fits(L, m.state, m.out) /\ Agrees(c, m)

RowFits == row.status # "succeeded" =>
    Fits(ledger, row.checkpoint.node_states, row.checkpoint.node_outputs)

GrowthParts ==
    /\ Closed(ledger) /\ RowFits
    /\ \A e \in Execution : Goes(ledger, session[e].steps, row.checkpoint, exec[e])

GrowthInv == HonestInv /\ OnceInv /\ (Careful => GrowthParts)

(* From ledger L to K nodes are decided in the order of the graph. *)
Grows(L, K) ==
    \A n \in Node : K[n] # L[n] =>
        \/ /\ L[n] = {} /\ K[n] = {"skipped"} /\ In(n) # {}
           /\ \A x \in In(n) : K[x[1]] # {} /\ (When[x] = "always" => K[x[1]] = {"skipped"})
        \/ /\ L[n] \subseteq {"failed"} /\ K[n] \subseteq {"failed", "succeeded"} /\ K[n] # {}
           /\ \A x \in In(n) : K[x[1]] # {}
           /\ In(n) = {} \/ \E x \in In(n) : "succeeded" \in K[x[1]]

LEMMA Graph ==
    /\ \A x \in Edge : x[1] \in Node /\ x[2] \in Node /\ When[x] \in {"always"} \cup Answer
    /\ \A n \in Node : \A x \in In(n) : x \in Edge /\ x[2] = n /\ x[1] \in Node
    /\ "none" \notin Answer /\ "always" \notin Answer /\ "error" \notin Answer
BY WorkflowAssumption DEF In, Answer

LEMMA GrowsTwice ==
    ASSUME NEW L \in Ledgers, NEW K \in Ledgers, NEW M \in Ledgers, Grows(L, K), Grows(K, M)
    PROVE  Grows(L, M)
<1>1. ASSUME NEW i \in Node, K[i] # {} PROVE M[i] # {}
  BY <1>1 DEF Grows
<1>2. ASSUME NEW i \in Node, K[i] = {"skipped"} PROVE M[i] = {"skipped"}
  BY <1>2 DEF Grows
<1>3. ASSUME NEW i \in Node, "succeeded" \in K[i] PROVE "succeeded" \in M[i]
  BY <1>3 DEF Grows
<1>. SUFFICES ASSUME NEW n \in Node, M[n] # L[n]
             PROVE  \/ /\ L[n] = {} /\ M[n] = {"skipped"} /\ In(n) # {}
                       /\ \A x \in In(n) : M[x[1]] # {} /\ (When[x] = "always" => M[x[1]] = {"skipped"})
                    \/ /\ L[n] \subseteq {"failed"} /\ M[n] \subseteq {"failed", "succeeded"} /\ M[n] # {}
                       /\ \A x \in In(n) : M[x[1]] # {}
                       /\ In(n) = {} \/ \E x \in In(n) : "succeeded" \in M[x[1]]
  BY DEF Grows
<1>4. CASE K[n] # L[n] /\ M[n] = K[n]
  <2>. \A x \in In(n) : x[1] \in Node
    BY Graph
  <2>1. CASE /\ L[n] = {} /\ K[n] = {"skipped"} /\ In(n) # {}
             /\ \A x \in In(n) : K[x[1]] # {} /\ (When[x] = "always" => K[x[1]] = {"skipped"})
    BY <1>1, <1>2, <1>4, <2>1
  <2>2. CASE /\ L[n] \subseteq {"failed"} /\ K[n] \subseteq {"failed", "succeeded"} /\ K[n] # {}
             /\ \A x \in In(n) : K[x[1]] # {}
             /\ In(n) = {} \/ \E x \in In(n) : "succeeded" \in K[x[1]]
    BY <1>1, <1>3, <1>4, <2>2
  <2>. QED BY <1>4, <2>1, <2>2 DEF Grows
<1>5. CASE K[n] = L[n]
  BY <1>5 DEF Grows
<1>6. CASE K[n] # L[n] /\ M[n] # K[n]
  BY <1>6 DEF Grows
<1>. QED BY <1>4, <1>5, <1>6

(* What is known of no other success, and of fewer nodes passed over, fits *)
(* as well, whatever outputs were lost.                                    *)
LEMMA FitsLess ==
    ASSUME NEW L, NEW s, NEW o, NEW t, NEW p, Fits(L, s, o),
           \A n \in Node : /\ t[n] = "succeeded" <=> s[n] = "succeeded"
                           /\ t[n] = "skipped" => s[n] = "skipped"
                           /\ t[n] = "succeeded" => p[n] \in {o[n], "none"}
    PROVE  Fits(L, t, p)
<1>1. ASSUME NEW n \in Node, NEW x \in In(n), Inert(s, o, x) PROVE Inert(t, p, x)
  BY <1>1, Graph DEF Inert
<1>2. ASSUME NEW n \in Node, NEW x \in In(n), MayHold(s, o, x) PROVE MayHold(t, p, x)
  BY <1>2, Graph DEF MayHold
<1>. QED BY <1>1, <1>2 DEF Fits

(* What an execution knows decided is in ledger L, or in S. *)
Known(L, S, m) ==
    \A n \in Node : m.state[n] \in Decided => m.state[n] \in L[n] \/ <<n, m.state[n]>> \in S

(* A commit of what is staged on the session of memory m. *)
LEMMA CommitGoes ==
    ASSUME NEW L \in Ledgers, NEW K \in Ledgers, NEW S, NEW m \in Memory, NEW c \in Checkpoint,
           \A n \in Node, v \in StepEnd : v \in K[n] <=> v \in L[n] \/ <<n, v>> \in S,
           Ordered(m), Known(L, S, m), Closed(L), Goes(L, S, c, m),
           Fits(L, c.node_states, c.node_outputs)
    PROVE  /\ Closed(K) /\ Grows(L, K) /\ Fits(K, c.node_states, c.node_outputs)
           /\ Known(K, {}, m)
           /\ m.phase \in {"restoring", "running"} => Fits(K, m.state, m.out)
<1>. DEFINE s == m.state
            o == m.out
<1>1. /\ \A n \in Node : L[n] \subseteq StepEnd /\ K[n] \subseteq StepEnd /\ L[n] \subseteq K[n]
      /\ Decided \subseteq StepEnd /\ "skipped" \in StepEnd /\ "skipped" \in Decided
  BY DEF Ledgers, Decided, StepEnd
<1>2. \A n \in Node : m.state[n] \in Decided => m.state[n] \in K[n]
  BY <1>1 DEF Known
<1>3. ASSUME NEW n \in Node, K[n] # L[n]
      PROVE  /\ L[n] \subseteq {"skipped"} /\ K[n] = {"skipped"} /\ s[n] = "skipped"
             /\ m.phase \in {"restoring", "running"} /\ In(n) \subseteq m.settled
             /\ "skipped" \notin L[n]
  <2>1. PICK v \in StepEnd : v \in K[n] /\ v \notin L[n]
    BY <1>1, <1>3
  <2>2. <<n, v>> \in S
    BY <2>1
  <2>3. /\ v = "skipped" /\ s[n] = "skipped" /\ L[n] \subseteq {"skipped"}
        /\ m.phase \in {"restoring", "running"} /\ In(n) \subseteq m.settled
    BY <2>2 DEF Goes, Staged
  <2>4. \A w \in StepEnd : w \in K[n] => w = "skipped"
    BY <2>3 DEF Goes, Staged
  <2>. QED BY <1>1, <2>1, <2>3, <2>4
<1>4. ASSUME NEW n \in Node, K[n] # L[n]
      PROVE  /\ In(n) # {}
             /\ \A x \in In(n) : Inert(s, o, x) /\ s[x[1]] \in Decided /\ s[x[1]] \in K[x[1]]
  <2>1. Fits(L, s, o) /\ s[n] = "skipped" /\ In(n) \subseteq m.settled
    BY <1>3, <1>4 DEF Goes
  <2>2. \A x \in In(n) : s[x[1]] \in Decided /\ x[1] \in Node
    BY <2>1, Graph DEF Ordered
  <2>. QED BY <1>2, <2>1, <2>2 DEF Fits
<1>5. Closed(K)
  <2>. SUFFICES ASSUME NEW n \in Node, "skipped" \in K[n]
               PROVE  K[n] = {"skipped"} /\ \A x \in In(n) : K[x[1]] \cap Decided # {}
    BY DEF Closed
  <2>1. CASE K[n] = L[n]
    <3>1. L[n] = {"skipped"} /\ \A x \in In(n) : L[x[1]] \cap Decided # {}
      BY <2>1 DEF Closed
    <3>. QED BY <1>1, <2>1, <3>1, Graph
  <2>2. CASE K[n] # L[n]
    BY <1>3, <1>4, <2>2
  <2>. QED BY <2>1, <2>2
<1>6. Grows(L, K)
  <2>. SUFFICES ASSUME NEW n \in Node, K[n] # L[n]
               PROVE  /\ L[n] = {} /\ K[n] = {"skipped"} /\ In(n) # {}
                      /\ \A x \in In(n) : K[x[1]] # {} /\ (When[x] = "always" => K[x[1]] = {"skipped"})
    BY DEF Grows
  <2>1. L[n] = {} /\ K[n] = {"skipped"} /\ In(n) # {}
    BY <1>3, <1>4
  <2>2. ASSUME NEW x \in In(n) PROVE K[x[1]] # {} /\ (When[x] = "always" => K[x[1]] = {"skipped"})
    <3>1. x[1] \in Node /\ Inert(s, o, x) /\ s[x[1]] \in Decided /\ s[x[1]] \in K[x[1]]
      BY <1>4, Graph
    <3>2. ASSUME When[x] = "always" PROVE s[x[1]] = "skipped"
      BY <3>1, <3>2 DEF Inert, Decided
    <3>. QED BY <1>5, <3>1, <3>2 DEF Closed
  <2>. QED BY <2>1, <2>2
<1>7. ASSUME NEW t, NEW p, Fits(L, t, p),
             \A n \in Node : K[n] # L[n] => \A x \in In(n) : Inert(t, p, x)
      PROVE  Fits(K, t, p)
  <2>. SUFFICES ASSUME NEW n \in Node
               PROVE  /\ "succeeded" \in K[n] => t[n] = "succeeded"
                      /\ "skipped" \in K[n] \/ t[n] = "skipped" =>
                              In(n) # {} /\ \A x \in In(n) : Inert(t, p, x)
                      /\ "failed" \in K[n] => In(n) = {} \/ \E x \in In(n) : MayHold(t, p, x)
    BY DEF Fits
  <2>1. CASE K[n] = L[n]
    BY <1>7, <2>1 DEF Fits
  <2>2. CASE K[n] # L[n]
    BY <1>3, <1>4, <1>7, <2>2
  <2>. QED BY <2>1, <2>2
<1>8. Fits(K, c.node_states, c.node_outputs)
  <2>1. ASSUME NEW n \in Node, K[n] # L[n], NEW x \in In(n)
        PROVE  Inert(c.node_states, c.node_outputs, x)
    <3>1. Inert(s, o, x) /\ x[1] \in Node /\ When[x] \in {"always"} \cup Answer
      BY <1>4, <2>1, Graph
    <3>2. Agrees(c, m)
      BY <1>3, <2>1 DEF Goes
    <3>. QED BY <3>1, <3>2, Graph DEF Inert, Agrees
  <2>. QED BY <1>7, <2>1
<1>9. m.phase \in {"restoring", "running"} => Fits(K, m.state, m.out)
  BY <1>4, <1>7 DEF Goes
<1>10. Known(K, {}, m)
  BY <1>2 DEF Known
<1>. QED BY <1>5, <1>6, <1>8, <1>9, <1>10

(* In memory m, which goes with ledger L, node n ends as v: the memory is  *)
(* then k and the ledger K.                                                *)
NodeEnds(L, K, m, k, n, v) ==
    /\ \A i \in Node : K[i] = IF i = n THEN L[i] \cup {v} ELSE L[i]
    /\ Ordered(m) /\ Wired(m) /\ Known(L, {}, m) /\ Closed(L) /\ Fits(L, m.state, m.out)
    /\ m.task[n] = "running" /\ Shifts(m, k, n) /\ k.state[n] = v
    /\ v = "failed" => k.out[n] = m.out[n]
    /\ k.ready = m.ready

LEMMA EndGoes ==
    ASSUME NEW L \in Ledgers, NEW K \in Ledgers, NEW m \in Memory, NEW k \in Memory, NEW n \in Node,
           NEW v \in {"failed", "succeeded"}, NodeEnds(L, K, m, k, n, v)
    PROVE  Closed(K) /\ Grows(L, K) /\ Fits(K, k.state, k.out) /\ Wired(k)
<1>. /\ \A i \in Node : K[i] = IF i = n THEN L[i] \cup {v} ELSE L[i]
     /\ Ordered(m) /\ Wired(m) /\ Known(L, {}, m) /\ Closed(L) /\ Fits(L, m.state, m.out)
     /\ m.task[n] = "running" /\ Shifts(m, k, n) /\ k.state[n] = v
     /\ v = "failed" => k.out[n] = m.out[n]
     /\ k.ready = m.ready
  BY DEF NodeEnds
<1>1. /\ \A i \in Node : L[i] \subseteq StepEnd /\ K[i] \subseteq StepEnd /\ L[i] \subseteq K[i]
      /\ \A i \in Node \ {n} : /\ K[i] = L[i] /\ k.state[i] = m.state[i] /\ k.out[i] = m.out[i]
                               /\ k.task[i] = m.task[i]
      /\ k.settled = m.settled /\ k.active = m.active /\ m.settled \subseteq Edge
      /\ K[n] = L[n] \cup {v}
  BY MemoryFields DEF Ledgers, Shifts
<1>2. /\ m.state[n] = "none" /\ In(n) \subseteq m.settled
      /\ In(n) = {} \/ In(n) \cap m.active # {}
  BY DEF Ordered, Wired
<1>3. \A x \in m.settled : /\ x[1] \in Node /\ m.state[x[1]] \in Decided /\ x[1] # n
                           /\ m.state[x[1]] \in L[x[1]]
  BY <1>1, <1>2, Graph DEF Ordered, Decided, Known
<1>4. \A x \in m.active : /\ x \in m.settled /\ ~Inert(m.state, m.out, x)
                          /\ MayHold(m.state, m.out, x) /\ m.state[x[1]] = "succeeded"
  BY DEF Wired, Inert, MayHold
<1>5. "succeeded" \notin L[n] /\ "skipped" \notin L[n]
  BY <1>2, <1>4 DEF Fits
<1>6. \A x \in Edge : x[1] # n => /\ Inert(k.state, k.out, x) <=> Inert(m.state, m.out, x)
                                  /\ MayHold(k.state, k.out, x) <=> MayHold(m.state, m.out, x)
  BY <1>1, Graph DEF Inert, MayHold
<1>7. Closed(K)
  <2>. SUFFICES ASSUME NEW i \in Node, "skipped" \in K[i]
               PROVE  K[i] = {"skipped"} /\ \A x \in In(i) : K[x[1]] \cap Decided # {}
    BY DEF Closed
  <2>1. i # n /\ K[i] = L[i]
    BY <1>1, <1>5
  <2>2. L[i] = {"skipped"} /\ \A x \in In(i) : L[x[1]] \cap Decided # {}
    BY <2>1 DEF Closed
  <2>. QED BY <1>1, <2>1, <2>2, Graph
<1>8. Grows(L, K)
  <2>. SUFFICES ASSUME NEW i \in Node, K[i] # L[i]
               PROVE  /\ L[i] \subseteq {"failed"} /\ K[i] \subseteq {"failed", "succeeded"} /\ K[i] # {}
                      /\ \A x \in In(i) : K[x[1]] # {}
                      /\ In(i) = {} \/ \E x \in In(i) : "succeeded" \in K[x[1]]
    BY DEF Grows
  <2>1. i = n
    BY <1>1
  <2>2. L[n] \subseteq {"failed"}
    BY <1>1, <1>5 DEF StepEnd
  <2>3. \A x \in In(n) : K[x[1]] # {}
    BY <1>1, <1>2, <1>3
  <2>4. In(n) = {} \/ \E x \in In(n) : "succeeded" \in K[x[1]]
    BY <1>1, <1>2, <1>3, <1>4
  <2>. QED BY <1>1, <2>1, <2>2, <2>3, <2>4
<1>9. Fits(K, k.state, k.out)
  <2>. SUFFICES ASSUME NEW i \in Node
               PROVE  /\ "succeeded" \in K[i] => k.state[i] = "succeeded"
                      /\ "skipped" \in K[i] \/ k.state[i] = "skipped" =>
                              In(i) # {} /\ \A x \in In(i) : Inert(k.state, k.out, x)
                      /\ "failed" \in K[i] => In(i) = {} \/ \E x \in In(i) : MayHold(k.state, k.out, x)
    BY DEF Fits
  <2>1. ASSUME "succeeded" \in K[i] PROVE k.state[i] = "succeeded"
    BY <1>1, <1>5, <2>1 DEF Fits
  <2>2. ASSUME "skipped" \in K[i] \/ k.state[i] = "skipped"
        PROVE  In(i) # {} /\ \A x \in In(i) : Inert(k.state, k.out, x)
    <3>1. i # n /\ "skipped" \in L[i]
      BY <1>1, <1>5, <2>2 DEF Known, Decided
    <3>2. /\ In(i) # {} /\ \A x \in In(i) : Inert(m.state, m.out, x)
          /\ \A x \in In(i) : L[x[1]] \cap Decided # {}
      BY <3>1 DEF Fits, Closed
    <3>3. \A x \in In(i) : x \in Edge /\ x[1] # n
      BY <1>5, <3>2, Graph DEF Decided
    <3>. QED BY <1>6, <3>2, <3>3
  <2>3. ASSUME "failed" \in K[i]
        PROVE  In(i) = {} \/ \E x \in In(i) : MayHold(k.state, k.out, x)
    <3>1. In(i) = {} \/ \E x \in In(i) : MayHold(m.state, m.out, x)
      BY <1>1, <1>2, <1>4, <2>3 DEF Fits
    <3>2. \A x \in In(i) : MayHold(m.state, m.out, x) => x \in Edge /\ x[1] # n
      BY <1>2, Graph DEF MayHold
    <3>. QED BY <1>6, <3>1, <3>2
  <2>. QED BY <2>1, <2>2, <2>3
<1>10. Wired(k)
  <2>1. k.active \subseteq k.settled
    BY <1>1 DEF Wired
  <2>2. \A x \in k.settled : /\ x \in k.active <=> ~Inert(k.state, k.out, x)
                             /\ k.state[x[1]] = "succeeded" => Defined(k, x)
    BY <1>1, <1>3, <1>6 DEF Wired, Defined
  <2>3. \A i \in Node : i \in k.ready \/ k.task[i] # "none" => In(i) = {} \/ In(i) \cap k.active # {}
    BY <1>1, <1>2 DEF Wired
  <2>. QED BY <2>1, <2>2, <2>3 DEF Wired
<1>. QED BY <1>7, <1>8, <1>9, <1>10

(* A memory that decides nothing and settles nothing goes with what it did. *)
LEMMA GoesKeeps ==
    ASSUME NEW L, NEW S, NEW c \in Checkpoint, NEW m \in Memory, NEW k \in Memory, Goes(L, S, c, m),
           m.phase \in {"restoring", "running"}, k.phase \in {"restoring", "running"},
           k.settled = m.settled, k.active = m.active,
           \A i \in Node : /\ k.out[i] = m.out[i]
                           /\ \/ k.state[i] = m.state[i]
                              \/ m.state[i] = "none" /\ k.state[i] = "waiting_approval"
                           /\ i \in k.ready \/ k.task[i] # "none" => i \in m.ready \/ m.task[i] # "none"
    PROVE  Goes(L, S, c, k)
<1>1. \A i \in Node : /\ k.state[i] = "succeeded" <=> m.state[i] = "succeeded"
                      /\ k.state[i] = "skipped" <=> m.state[i] = "skipped"
                      /\ k.out[i] = m.out[i]
  OBVIOUS
<1>2. m.settled \subseteq Edge
  BY MemoryFields
<1>3. \A x \in m.settled : /\ Inert(k.state, k.out, x) <=> Inert(m.state, m.out, x)
                           /\ Defined(k, x) <=> Defined(m, x)
  BY <1>1, <1>2, Graph DEF Inert, Defined
<1>4. Wired(k)
  <2>1. /\ k.active \subseteq k.settled
        /\ \A i \in Node : i \in k.ready \/ k.task[i] # "none" => In(i) = {} \/ In(i) \cap k.active # {}
    BY DEF Goes, Wired
  <2>2. \A x \in k.settled : /\ x \in k.active <=> ~Inert(k.state, k.out, x)
                             /\ k.state[x[1]] = "succeeded" => Defined(k, x)
    BY <1>1, <1>2, <1>3, Graph DEF Goes, Wired
  <2>. QED BY <2>1, <2>2 DEF Wired
<1>5. Staged(S, k, L)
  BY <1>1 DEF Goes, Staged
<1>6. Fits(L, k.state, k.out)
  <2>. DEFINE s == m.state  o == m.out  t == k.state  p == k.out
  <2>1. /\ Fits(L, s, o)
        /\ \A n \in Node : /\ t[n] = "succeeded" <=> s[n] = "succeeded"
                           /\ t[n] = "skipped" => s[n] = "skipped"
                           /\ t[n] = "succeeded" => p[n] \in {o[n], "none"}
    BY <1>1 DEF Goes
  <2>. HIDE DEF s, o, t, p
  <2>2. Fits(L, t, p)
    BY <2>1, FitsLess
  <2>. QED BY <2>2 DEF t, p
<1>7. Agrees(c, k)
  BY <1>1 DEF Goes, Agrees
<1>. QED BY <1>4, <1>5, <1>6, <1>7 DEF Goes

(* A decided node hands on its edges: a node is passed over when none of   *)
(* the edges to it is taken.                                               *)
LEMMA GoesHands ==
    ASSUME NEW L \in Ledgers, NEW S, NEW T, NEW c \in Checkpoint, NEW m \in Memory, NEW k \in Memory,
           NEW n \in m.todo, NEW xs \in SUBSET Edge, xs \subseteq Out(n),
           NEW dead \in SUBSET Node, dead = Kills(m, n, xs),
           m.state[n] # "skipped" => \A x \in xs : Defined(m, x),
           Ordered(m), Goes(L, S, c, m), m.phase \in {"restoring", "running"},
           k.phase = m.phase, k.out = m.out, k.task = m.task,
           k.settled = Settles(m, xs), k.active = Activates(m, n, xs),
           k.ready = m.ready \cup (Reaches(m, xs) \ dead),
           \A t \in Node : k.state[t] = IF t \in dead THEN "skipped" ELSE m.state[t],
           T = S \cup {<<t, "skipped">> : t \in dead}
    PROVE  Goes(L, T, c, k)
<1>1. /\ m.settled \subseteq Edge /\ n \in Node /\ k.settled = m.settled \cup xs
      /\ k.active = m.active \cup {x \in xs : m.state[n] # "skipped" /\ Holds(m, x)}
  BY MemoryFields DEF Settles, Activates
<1>2. /\ m.state[n] \in Decided
      /\ \A x \in xs : x[1] = n /\ x \notin m.settled /\ x \in Edge
  BY DEF Ordered, Out
<1>3. \A t \in dead : /\ t \in Node /\ m.state[t] = "none" /\ k.state[t] = "skipped"
                      /\ In(t) \subseteq k.settled /\ In(t) \cap k.active = {} /\ In(t) # {}
  BY <1>2 DEF Kills, Reaches, In
<1>4. \A t \in Node : /\ k.state[t] = "succeeded" <=> m.state[t] = "succeeded"
                      /\ m.state[t] = "skipped" => k.state[t] = "skipped"
  BY <1>3
<1>5. \A x \in Edge : /\ Inert(k.state, k.out, x) <=> Inert(m.state, m.out, x)
                      /\ MayHold(k.state, k.out, x) <=> MayHold(m.state, m.out, x)
                      /\ Defined(k, x) <=> Defined(m, x)
  BY <1>4, Graph DEF Inert, MayHold, Defined
<1>6. Wired(m) /\ Staged(S, m, L) /\ Fits(L, m.state, m.out) /\ Agrees(c, m)
  BY DEF Goes
<1>7. \A x \in k.settled : /\ x \in k.active <=> ~Inert(k.state, k.out, x)
                           /\ k.state[x[1]] = "succeeded" => Defined(k, x)
  <2>. SUFFICES ASSUME NEW x \in k.settled
               PROVE  /\ x \in k.active <=> ~Inert(m.state, m.out, x)
                      /\ m.state[x[1]] = "succeeded" => Defined(m, x)
    BY <1>1, <1>4, <1>5, Graph
  <2>1. CASE x \in m.settled
    BY <1>1, <1>2, <1>6, <2>1 DEF Wired
  <2>2. CASE x \in xs
    <3>1. x \notin m.active /\ x[1] = n
      BY <1>2, <1>6, <2>2 DEF Wired
    <3>. QED BY <1>1, <1>2, <2>2, <3>1 DEF Inert, Holds, Decided
  <2>. QED BY <1>1, <2>1, <2>2
<1>8. Wired(k)
  <2>1. k.active \subseteq k.settled
    BY <1>1, <1>6 DEF Wired
  <2>2. \A t \in Node : t \in k.ready \/ k.task[t] # "none" => In(t) = {} \/ In(t) \cap k.active # {}
    <3>. SUFFICES ASSUME NEW t \in Node, t \in k.ready \/ k.task[t] # "none"
                 PROVE  In(t) = {} \/ In(t) \cap k.active # {}
      OBVIOUS
    <3>1. CASE t \in m.ready \/ m.task[t] # "none"
      BY <1>1, <1>6, <3>1 DEF Wired
    <3>2. CASE t \in Reaches(m, xs) \ dead
      BY <3>2 DEF Kills
    <3>. QED BY <3>1, <3>2
  <2>. QED BY <1>7, <2>1, <2>2 DEF Wired
<1>9. \A t \in dead : L[t] \subseteq {"skipped"}
  <2>. SUFFICES ASSUME NEW t \in dead PROVE "succeeded" \notin L[t] /\ "failed" \notin L[t]
    BY <1>3 DEF Ledgers, StepEnd
  <2>1. "succeeded" \notin L[t]
    BY <1>3, <1>6 DEF Fits
  <2>2. ASSUME "failed" \in L[t] PROVE FALSE
    <3>1. PICK x \in In(t) : MayHold(m.state, m.out, x)
      BY <1>3, <1>6, <2>2 DEF Fits
    <3>2. /\ x \in k.settled /\ x \notin k.active /\ x \in Edge /\ x[1] \in Node
          /\ When[x] \in {"always"} \cup Answer
      BY <1>3, <3>1, Graph
    <3>3. Inert(m.state, m.out, x) /\ Defined(m, x)
      BY <1>4, <1>5, <1>7, <3>1, <3>2 DEF MayHold
    <3>. QED BY <3>1, <3>2, <3>3, Graph DEF Inert, MayHold, Defined
  <2>. QED BY <2>1, <2>2
<1>10. Staged(T, k, L)
  <2>. SUFFICES ASSUME NEW t \in Node, NEW v \in StepEnd, <<t, v>> \in T
               PROVE  /\ v = "skipped" /\ k.state[t] = "skipped" /\ L[t] \subseteq {"skipped"}
                      /\ k.phase \in {"restoring", "running"} /\ In(t) \subseteq k.settled
    BY DEF Staged
  <2>1. CASE <<t, v>> \in S
    BY <1>1, <1>4, <1>6, <2>1 DEF Staged
  <2>2. CASE v = "skipped" /\ t \in dead
    BY <1>3, <1>9, <2>2
  <2>. QED BY <2>1, <2>2
<1>11. Fits(L, k.state, k.out)
  <2>. SUFFICES ASSUME NEW t \in Node
               PROVE  /\ "succeeded" \in L[t] => k.state[t] = "succeeded"
                      /\ "skipped" \in L[t] \/ k.state[t] = "skipped" =>
                              In(t) # {} /\ \A x \in In(t) : Inert(k.state, k.out, x)
                      /\ "failed" \in L[t] => In(t) = {} \/ \E x \in In(t) : MayHold(k.state, k.out, x)
    BY DEF Fits
  <2>1. CASE t \in dead
    BY <1>3, <1>7, <1>9, <2>1
  <2>2. CASE t \notin dead
    BY <1>4, <1>5, <1>6, <2>2, Graph DEF Fits
  <2>. QED BY <2>1, <2>2
<1>12. Agrees(c, k)
  BY <1>4, <1>6 DEF Agrees
<1>. QED BY <1>8, <1>10, <1>11, <1>12 DEF Goes

(* An execution that starts knows what its checkpoint does. *)
LEMMA GoesRestored ==
    ASSUME NEW L, NEW S, NEW c \in Checkpoint, NEW m \in Memory, Goes(L, S, c, m),
           m.phase = "queued", m.settled = {}, \A n \in Node : m.task[n] = "none",
           Fits(L, c.node_states, c.node_outputs)
    PROVE  Goes(L, S, c, Restored(m))
<1>. DEFINE k == Restored(m)
<1>1. /\ k.phase = "restoring" /\ k.state = c.node_states /\ k.out = c.node_outputs
      /\ k.settled = {} /\ k.active = m.active /\ k.task = m.task /\ k.ready \subseteq First
      /\ m.from = c
  BY RestoredFields DEF Goes
<1>2. Wired(m) /\ \A n \in Node, v \in StepEnd : <<n, v>> \notin S
  BY DEF Goes, Staged
<1>. HIDE DEF k
<1>3. Wired(k)
  BY <1>1, <1>2 DEF Wired, First
<1>4. Staged(S, k, L)
  BY <1>2 DEF Staged
<1>5. Agrees(c, k)
  BY <1>1 DEF Agrees
<1>6. Goes(L, S, c, k)
  BY <1>1, <1>3, <1>4, <1>5 DEF Goes
<1>. QED BY <1>6 DEF k

(* An execution that has nothing in memory yet, or any more. *)
LEMMA GoesBlank ==
    ASSUME NEW L, NEW S, NEW c, NEW k \in Memory,
           k.phase \notin {"restoring", "running"}, k.phase = "queued" => k.from = c,
           k.settled = {}, k.active = {}, k.ready = {}, \A n \in Node : k.task[n] = "none",
           \A n \in Node, v \in StepEnd : <<n, v>> \notin S
    PROVE  Goes(L, S, c, k)
<1>1. Wired(k)
  BY DEF Wired
<1>2. Staged(S, k, L)
  BY DEF Staged
<1>. QED BY <1>1, <1>2 DEF Goes

(* What a checkpoint keeps of a memory fits where the memory does. *)
LEMMA PointFits ==
    ASSUME NEW L, NEW m \in Memory, NEW c \in Checkpoint, Fits(L, m.state, m.out),
           \A n \in Node :
                /\ c.node_states[n] = IF m.state[n] \in {"succeeded", "skipped"} THEN m.state[n] ELSE "none"
                /\ m.state[n] = "succeeded" => c.node_outputs[n] \in {m.out[n], "none"}
    PROVE  Fits(L, c.node_states, c.node_outputs) /\ Agrees(c, m)
<1>. DEFINE s == m.state  o == m.out  t == c.node_states  p == c.node_outputs
<1>1. /\ Fits(L, s, o)
      /\ \A n \in Node : /\ t[n] = "succeeded" <=> s[n] = "succeeded"
                         /\ t[n] = "skipped" => s[n] = "skipped"
                         /\ t[n] = "succeeded" => p[n] \in {o[n], "none"}
  OBVIOUS
<1>2. Agrees(c, m)
  BY <1>1 DEF Agrees
<1>. HIDE DEF s, o, t, p
<1>3. Fits(L, t, p)
  BY <1>1, FitsLess
<1>. QED BY <1>2, <1>3 DEF t, p

LEMMA GrowthFields ==
    ASSUME GrowthInv, Careful
    PROVE  /\ TypeInv /\ Shared /\ setting.onError # "continue" /\ OnceInv /\ GrowthParts /\ Tracked
           /\ exec \in [Execution -> Memory] /\ session \in [Execution -> Session]
           /\ ledger \in Ledgers /\ row.checkpoint \in Checkpoint
           /\ \A e \in Execution :
                /\ exec[e] \in Memory /\ Ordered(exec[e]) /\ Alone(exec[e])
                /\ Goes(ledger, session[e].steps, row.checkpoint, exec[e])
                /\ Known(ledger, session[e].steps, exec[e])
                /\ Alive(exec[e]) => \A f \in Execution \ {e} : ~Alive(exec[f])
                /\ Alive(exec[e]) => row.status \notin {"failed", "succeeded", "waiting_approval"}
<1>1. /\ TypeInv /\ Shared /\ setting.onError # "continue" /\ OnceInv /\ GrowthParts /\ Tracked
      /\ CarefulParts
  BY DEF GrowthInv, HonestInv, OnceInv, Careful
<1>2. /\ exec \in [Execution -> Memory] /\ session \in [Execution -> Session]
      /\ ledger \in Ledgers /\ row.checkpoint \in Checkpoint
      /\ \A e \in Execution : exec[e] \in Memory
  BY <1>1, TypeFields DEF Ledgers
<1>3. \A e \in Execution : Known(ledger, session[e].steps, exec[e])
  BY <1>1 DEF Tracked, Known
<1>. QED BY <1>1, <1>2, <1>3 DEF CarefulParts, GrowthParts, Lone

LEMMA GrowthFrom ==
    ASSUME GrowthInv, Careful, NEW e \in Execution, Apart(e), NEW k \in Memory, Puts(e, k),
           (\A f \in Execution \ {e} : ~Alive(exec[f])) \/ UNCHANGED <<ledger, row>>,
           Closed(ledger'),
           row'.status # "succeeded" =>
                Fits(ledger', row'.checkpoint.node_states, row'.checkpoint.node_outputs),
           Goes(ledger', session'[e].steps, row'.checkpoint, k)
    PROVE  GrowthParts'
<1>1. /\ TypeInv
      /\ \A f \in Execution : Goes(ledger, session[f].steps, row.checkpoint, exec[f])
  BY GrowthFields
<1>2. /\ exec'[e] = k
      /\ \A f \in Execution \ {e} : exec'[f] = exec[f] /\ session'[f] = session[f]
  BY <1>1, PutsFields DEF Apart
<1>3. ASSUME NEW f \in Execution, f # e
      PROVE  Goes(ledger', session'[f].steps, row'.checkpoint, exec'[f])
  <2>1. exec'[f] = exec[f] /\ session'[f] = session[f]
    BY <1>2, <1>3
  <2>2. Goes(ledger, session[f].steps, row.checkpoint, exec[f])
    BY <1>1
  <2>3. CASE UNCHANGED <<ledger, row>>
    BY <2>1, <2>2, <2>3
  <2>4. CASE ~Alive(exec[f])
    <3>1. exec[f].phase \notin {"queued", "restoring", "running"}
      BY <2>4 DEF Alive
    <3>2. Staged(session[f].steps, exec[f], ledger')
      BY <2>2, <3>1 DEF Goes, Staged
    <3>3. Goes(ledger', session[f].steps, row'.checkpoint, exec[f])
      BY <2>2, <3>1, <3>2 DEF Goes
    <3>. QED BY <2>1, <3>3
  <2>. QED BY <1>3, <2>3, <2>4
<1>4. \A f \in Execution : Goes(ledger', session'[f].steps, row'.checkpoint, exec'[f])
  BY <1>2, <1>3
<1>5. RowFits' /\ Closed(ledger)'
  BY DEF RowFits, Closed, Fits, Inert, MayHold
<1>6. \A f \in Execution : Goes(ledger, session[f].steps, row.checkpoint, exec[f])'
  BY <1>4 DEF Goes, Wired, Staged, Fits, Agrees, Inert, MayHold, Defined
<1>. QED BY <1>5, <1>6 DEF GrowthParts

(* Ledger K is the committed one once the session of e is. *)
LEMMA GrowthCommit ==
    ASSUME GrowthInv, Careful, NEW e \in Execution, Alive(exec[e]), NEW K \in Ledgers,
           \A n \in Node, v \in StepEnd : v \in K[n] <=> v \in ledger[n] \/ <<n, v>> \in session[e].steps
    PROVE  /\ Closed(K) /\ Grows(ledger, K) /\ Known(K, {}, exec[e])
           /\ Fits(K, row.checkpoint.node_states, row.checkpoint.node_outputs)
           /\ exec[e].phase \in {"restoring", "running"} =>
                /\ Fits(K, exec[e].state, exec[e].out)
                /\ Goes(K, {}, row.checkpoint, exec[e])
<1>. DEFINE L == ledger  S == session[e].steps  m == exec[e]  c == row.checkpoint
<1>1. /\ L \in Ledgers /\ m \in Memory /\ c \in Checkpoint /\ Ordered(m) /\ Known(L, S, m)
      /\ Goes(L, S, c, m) /\ Closed(L) /\ row.status # "succeeded" /\ RowFits
      /\ \A n \in Node, v \in StepEnd : v \in K[n] <=> v \in L[n] \/ <<n, v>> \in S
  BY GrowthFields DEF GrowthParts
<1>2. Fits(L, c.node_states, c.node_outputs)
  BY <1>1 DEF RowFits
<1>. HIDE DEF L, S, m, c
<1>3. /\ Closed(K) /\ Grows(L, K) /\ Fits(K, c.node_states, c.node_outputs) /\ Known(K, {}, m)
      /\ m.phase \in {"restoring", "running"} => Fits(K, m.state, m.out)
  BY <1>1, <1>2, CommitGoes
<1>4. m.phase \in {"restoring", "running"} => Goes(K, {}, c, m)
  BY <1>1, <1>3 DEF Goes, Staged
<1>. QED BY <1>3, <1>4 DEF L, m, c

(* The execution is over, and what it staged is committed. *)
LEMMA GrowthOver ==
    ASSUME GrowthInv, Careful, NEW e \in Execution, Alive(exec[e]), Puts(e, Over("over")),
           session' = [session EXCEPT ![e] = Clean], ledger' \in Ledgers,
           \A n \in Node, v \in StepEnd :
                v \in ledger'[n] <=> v \in ledger[n] \/ <<n, v>> \in session[e].steps,
           \/ row'.status = "succeeded"
           \/ row'.checkpoint = row.checkpoint
           \/ exec[e].phase = "running" /\ \E n \in Node : row'.checkpoint = ApprovalPoint(exec[e], n)
    PROVE  GrowthParts' /\ Grows(ledger, ledger')
<1>1. /\ Closed(ledger') /\ Grows(ledger, ledger')
      /\ Fits(ledger', row.checkpoint.node_states, row.checkpoint.node_outputs)
      /\ exec[e].phase \in {"restoring", "running"} => Fits(ledger', exec[e].state, exec[e].out)
  <2>. DEFINE K == ledger'
  <2>1. /\ K \in Ledgers
        /\ \A n \in Node, v \in StepEnd : v \in K[n] <=> v \in ledger[n] \/ <<n, v>> \in session[e].steps
    OBVIOUS
  <2>. HIDE DEF K
  <2>2. /\ Closed(K) /\ Grows(ledger, K)
        /\ Fits(K, row.checkpoint.node_states, row.checkpoint.node_outputs)
        /\ exec[e].phase \in {"restoring", "running"} => Fits(K, exec[e].state, exec[e].out)
    BY <2>1, GrowthCommit
  <2>. QED BY <2>2 DEF K
<1>2. /\ TypeInv /\ session \in [Execution -> Session] /\ exec[e] \in Memory
      /\ \A f \in Execution \ {e} : ~Alive(exec[f])
  BY GrowthFields
<1>3. Apart(e) /\ session'[e].steps = {}
  BY <1>2, CleanFields DEF Apart
<1>4. ASSUME row'.status # "succeeded"
      PROVE  Fits(ledger', row'.checkpoint.node_states, row'.checkpoint.node_outputs)
  <2>1. CASE row'.checkpoint = row.checkpoint
    BY <1>1, <2>1
  <2>2. ASSUME exec[e].phase = "running", NEW n \in Node, row'.checkpoint = ApprovalPoint(exec[e], n)
        PROVE  Fits(ledger', row'.checkpoint.node_states, row'.checkpoint.node_outputs)
    <3>. DEFINE m == exec[e]  c == ApprovalPoint(m, n)  K == ledger'
    <3>1. \A i \in Node : m.state[i] = "succeeded" => m.out[i] # "error"
      BY <1>2 DEF TypeInv, OutputKnown
    <3>2. /\ c \in Checkpoint
          /\ \A i \in Node :
                /\ c.node_states[i] = IF m.state[i] \in {"succeeded", "skipped"} THEN m.state[i] ELSE "none"
                /\ c.node_outputs[i] = IF m.state[i] = "succeeded" THEN m.out[i] ELSE "none"
      <4>. HIDE DEF m, c
      <4>. QED BY <1>2, <3>1, ApprovalPointFields DEF m, c
    <3>3. Fits(K, m.state, m.out) /\ m \in Memory
      BY <1>1, <1>2, <2>2
    <3>. HIDE DEF m, c, K
    <3>4. Fits(K, c.node_states, c.node_outputs)
      BY <3>2, <3>3, PointFits
    <3>. QED BY <2>2, <3>4 DEF m, c, K
  <2>. QED BY <1>4, <2>1, <2>2
<1>5. Over("over") \in Memory /\ Goes(ledger', session'[e].steps, row'.checkpoint, Over("over"))
  BY <1>3, OverFields, GoesBlank
<1>. QED BY <1>1, <1>2, <1>3, <1>4, <1>5, GrowthFrom

(* Node n ends as v: its end is committed with all that was staged, and    *)
(* with the checkpoint of what the execution then knows.                   *)
LEMMA GrowthStage ==
    ASSUME GrowthInv, Careful, NEW e \in Execution, NEW n \in Node, NEW k \in Memory,
           NEW v \in {"failed", "succeeded"}, exec[e].task[n] = "running", Puts(e, k),
           Shifts(exec[e], k, n), k.state[n] = v, v = "failed" => k.out[n] = exec[e].out[n],
           Told(k.state, k.out), k.ready = exec[e].ready, StageNode(e, n, v, k.state, k.out)
    PROVE  GrowthParts' /\ Grows(ledger, ledger')
<1>. DEFINE m == exec[e]
            K == [i \in Node |-> ledger[i] \cup {w \in StepEnd : <<i, w>> \in session[e].steps}]
            M == ledger'
            c == Snapshot(k.state, k.out)
<1>1. /\ TypeInv /\ Shared /\ OnceInv /\ ledger \in Ledgers /\ session \in [Execution -> Session]
      /\ m \in Memory /\ Ordered(m) /\ Known(ledger, session[e].steps, m)
  BY GrowthFields
<1>2. m.phase \in {"restoring", "running"} /\ Alive(m)
  BY <1>1, AliveFrom
<1>3. \A f \in Execution \ {e} : ~Alive(exec[f])
  BY <1>2, GrowthFields
<1>4. v \in StepEnd /\ {<<n, v>>} \in SUBSET (Node \X StepEnd) /\ k.state \in States /\ k.out \in Outputs
  BY MemoryFields DEF StepEnd
<1>5. /\ CommitSteps(e, {<<n, v>>}) /\ session' = [session EXCEPT ![e] = Clean]
      /\ row'.checkpoint = c
  <2>. DEFINE st == k.state  out == k.out
  <2>1. /\ v \in StepEnd /\ st \in States /\ out \in Outputs /\ TypeInv /\ Shared
        /\ Told(st, out) /\ StageNode(e, n, v, st, out)
    BY <1>1, <1>4
  <2>. HIDE DEF st, out
  <2>2. /\ CommitSteps(e, {<<n, v>>}) /\ session' = [session EXCEPT ![e] = Clean]
        /\ row'.checkpoint = Snapshot(st, out)
    BY <2>1, StageKeeps
  <2>. QED BY <2>2 DEF st, out
<1>6. /\ M \in Ledgers
      /\ \A i \in Node, w \in StepEnd :
            w \in M[i] <=> w \in ledger[i] \/ <<i, w>> \in {<<n, v>>} \/ <<i, w>> \in session[e].steps
  BY <1>1, <1>4, <1>5, LedgerGrows DEF Ledgers
<1>7. /\ K \in Ledgers
      /\ \A i \in Node, w \in StepEnd : w \in K[i] <=> w \in ledger[i] \/ <<i, w>> \in session[e].steps
  BY <1>1 DEF Ledgers
<1>8. Apart(e) /\ session'[e].steps = {}
  BY <1>1, <1>5, CleanFields DEF Apart
<1>. HIDE DEF K, M
<1>9. \A i \in Node : M[i] = IF i = n THEN K[i] \cup {v} ELSE K[i]
  <2>. SUFFICES ASSUME NEW i \in Node PROVE M[i] = IF i = n THEN K[i] \cup {v} ELSE K[i]
    OBVIOUS
  <2>1. M[i] \subseteq StepEnd /\ K[i] \subseteq StepEnd /\ v \in StepEnd
    BY <1>4, <1>6, <1>7 DEF Ledgers
  <2>2. \A w \in StepEnd : w \in M[i] <=> w \in K[i] \/ (i = n /\ w = v)
    BY <1>6, <1>7
  <2>. QED BY <2>1, <2>2
<1>10. /\ Closed(K) /\ Grows(ledger, K) /\ Known(K, {}, m) /\ Fits(K, m.state, m.out) /\ Wired(m)
  <2>1. /\ Closed(K) /\ Grows(ledger, K) /\ Known(K, {}, exec[e])
        /\ Fits(K, exec[e].state, exec[e].out) /\ Goes(K, {}, row.checkpoint, exec[e])
    BY <1>2, <1>7, GrowthCommit
  <2>. QED BY <2>1 DEF Goes
<1>. HIDE DEF m
<1>11. /\ m.task[n] = "running" /\ Shifts(m, k, n) /\ k.ready = m.ready
       /\ v = "failed" => k.out[n] = m.out[n]
  BY DEF m
<1>12. Closed(M) /\ Grows(K, M) /\ Fits(M, k.state, k.out) /\ Wired(k)
  <2>1. K \in Ledgers /\ M \in Ledgers /\ m \in Memory /\ Ordered(m)
    BY <1>1, <1>6, <1>7
  <2>2. Wired(m) /\ Known(K, {}, m) /\ Closed(K) /\ Fits(K, m.state, m.out)
    BY <1>10
  <2>3. NodeEnds(K, M, m, k, n, v)
    BY <1>9, <1>11, <2>1, <2>2 DEF NodeEnds
  <2>. QED BY <2>1, <2>3, EndGoes
<1>13. Grows(ledger, M)
  BY <1>1, <1>6, <1>7, <1>10, <1>12, GrowsTwice
<1>14. /\ c \in Checkpoint
       /\ \A i \in Node :
            /\ c.node_states[i] = IF k.state[i] \in {"succeeded", "skipped"} THEN k.state[i] ELSE "none"
            /\ k.state[i] = "succeeded" => c.node_outputs[i] \in {k.out[i], "none"}
  BY <1>4, SnapshotFields DEF Told
<1>. HIDE DEF c
<1>15. Fits(M, c.node_states, c.node_outputs) /\ Agrees(c, k)
  BY <1>12, <1>14, PointFits
<1>16. k.phase \in {"restoring", "running"}
  BY <1>2, <1>11 DEF Shifts
<1>17. Goes(M, {}, c, k)
  BY <1>12, <1>15, <1>16 DEF Goes, Staged
<1>18. /\ Closed(ledger') /\ Grows(ledger, ledger')
       /\ Fits(ledger', row'.checkpoint.node_states, row'.checkpoint.node_outputs)
       /\ Goes(ledger', session'[e].steps, row'.checkpoint, k)
  BY <1>5, <1>8, <1>12, <1>13, <1>15, <1>17 DEF M
<1>. QED BY <1>3, <1>8, <1>18, GrowthFrom

(* Nothing is committed, and nothing staged. *)
LEMMA GrowthKeeps ==
    ASSUME GrowthInv, Careful, NEW e \in Execution, NEW k \in Memory, Puts(e, k),
           UNCHANGED <<row, ledger>>, Apart(e), session'[e].steps = session[e].steps,
           exec[e].phase \in {"restoring", "running"}, k.phase \in {"restoring", "running"},
           k.settled = exec[e].settled, k.active = exec[e].active,
           \A i \in Node : /\ k.out[i] = exec[e].out[i]
                           /\ \/ k.state[i] = exec[e].state[i]
                              \/ exec[e].state[i] = "none" /\ k.state[i] = "waiting_approval"
                           /\ i \in k.ready \/ k.task[i] # "none" =>
                                    i \in exec[e].ready \/ exec[e].task[i] # "none"
    PROVE  GrowthParts' /\ Grows(ledger, ledger')
<1>1. GrowthParts /\ row.checkpoint \in Checkpoint /\ exec[e] \in Memory
      /\ Goes(ledger, session[e].steps, row.checkpoint, exec[e])
  BY GrowthFields
<1>2. Goes(ledger, session[e].steps, row.checkpoint, k)
  <2>. DEFINE m == exec[e]  L == ledger  S == session[e].steps  c == row.checkpoint
  <2>1. /\ c \in Checkpoint /\ m \in Memory /\ Goes(L, S, c, m)
        /\ m.phase \in {"restoring", "running"} /\ k.settled = m.settled /\ k.active = m.active
        /\ \A i \in Node : /\ k.out[i] = m.out[i]
                           /\ \/ k.state[i] = m.state[i]
                              \/ m.state[i] = "none" /\ k.state[i] = "waiting_approval"
                           /\ i \in k.ready \/ k.task[i] # "none" => i \in m.ready \/ m.task[i] # "none"
    BY <1>1
  <2>. HIDE DEF m, L, S, c
  <2>2. Goes(L, S, c, k)
    BY <2>1, GoesKeeps
  <2>. QED BY <2>2 DEF L, S, c
<1>3. Goes(ledger', session'[e].steps, row'.checkpoint, k)
  BY <1>2
<1>4. /\ Closed(ledger') /\ Grows(ledger, ledger')
      /\ row'.status # "succeeded" =>
            Fits(ledger', row'.checkpoint.node_states, row'.checkpoint.node_outputs)
  BY <1>1 DEF GrowthParts, RowFits, Grows
<1>. QED BY <1>3, <1>4, GrowthFrom

LEMMA GrowthQuiet ==
    ASSUME GrowthInv, Careful, NEW e \in Execution,
           RestoreDone(e) \/ Start(e) \/ Retry(e) \/ Wait(e) \/ EndTask(e) \/ Swallow(e)
    PROVE  GrowthParts' /\ Grows(ledger, ledger')
<1>1. /\ TypeInv /\ Shared /\ OnceInv /\ exec[e] \in Memory /\ session \in [Execution -> Session]
      /\ Ordered(exec[e])
  BY GrowthFields
<1>2. UNCHANGED <<row, ledger>>
  BY <1>1 DEF RestoreDone, Start, Retry, Wait, EndTask, Swallow
<1>3. Apart(e) /\ session'[e].steps = session[e].steps
  <2>1. CASE UNCHANGED session
    BY <2>1 DEF Apart
  <2>2. ASSUME NEW b \in BOOLEAN, session' = [session EXCEPT ![e].unparked = b]
        PROVE  Apart(e) /\ session'[e].steps = session[e].steps
    BY <1>1, <2>2 DEF Apart, Session
  <2>3. CASE Start(e)
    BY <1>1, <2>2, <2>3, StartEffect
  <2>. QED BY <1>1, <2>1, <2>3 DEF RestoreDone, Retry, Wait, EndTask, Swallow
<1>4. ASSUME NEW n \in Node, NEW k \in Memory, Puts(e, k), Shifts(exec[e], k, n),
             k.out[n] = exec[e].out[n],
             \/ k.state[n] = exec[e].state[n]
             \/ exec[e].state[n] = "none" /\ k.state[n] = "waiting_approval",
             k.ready \subseteq exec[e].ready, n \in exec[e].ready \/ exec[e].task[n] # "none",
             exec[e].phase \in {"restoring", "running"}
      PROVE  GrowthParts' /\ Grows(ledger, ledger')
  <2>1. /\ k.phase = exec[e].phase /\ k.settled = exec[e].settled /\ k.active = exec[e].active
        /\ \A i \in Node \ {n} : /\ k.state[i] = exec[e].state[i] /\ k.out[i] = exec[e].out[i]
                                 /\ k.task[i] = exec[e].task[i]
    BY <1>4 DEF Shifts
  <2>2. \A i \in Node : /\ k.out[i] = exec[e].out[i]
                        /\ \/ k.state[i] = exec[e].state[i]
                           \/ exec[e].state[i] = "none" /\ k.state[i] = "waiting_approval"
                        /\ i \in k.ready \/ k.task[i] # "none" =>
                                    i \in exec[e].ready \/ exec[e].task[i] # "none"
    BY <1>4, <2>1
  <2>. QED BY <1>2, <1>3, <1>4, <2>1, <2>2, GrowthKeeps
<1>5. CASE RestoreDone(e)
  <2>1. PICK k \in Memory :
            /\ Puts(e, k) /\ exec[e].phase = "restoring"
            /\ k.phase = "running"
            /\ k.settled = exec[e].settled /\ k.active = exec[e].active /\ k.ready = exec[e].ready
            /\ k.state = exec[e].state /\ k.out = exec[e].out /\ k.task = exec[e].task
    BY <1>1, <1>5, RestoreDoneEffect
  <2>. QED BY <1>2, <1>3, <2>1, GrowthKeeps
<1>6. CASE Start(e)
  <2>1. PICK n \in Node, k \in Memory :
            /\ n \in exec[e].ready /\ CanStart(exec[e]) /\ Puts(e, k) /\ Shifts(exec[e], k, n)
            /\ k.state[n] = exec[e].state[n] /\ k.out[n] = exec[e].out[n]
            /\ k.ready = exec[e].ready \ {n}
    BY <1>1, <1>6, StartPoint
  <2>2. exec[e].phase = "running"
    BY <2>1 DEF CanStart
  <2>. QED BY <1>4, <2>1, <2>2
<1>7. CASE Retry(e)
  <2>1. PICK n \in Node, k \in Memory :
            /\ exec[e].task[n] = "running" /\ Puts(e, k) /\ Shifts(exec[e], k, n)
            /\ k.state[n] = exec[e].state[n] /\ k.out[n] = exec[e].out[n]
            /\ k.ready = exec[e].ready
    BY <1>1, <1>7, RetryPoint
  <2>2. exec[e].phase \in {"restoring", "running"}
    BY <1>1, <2>1, AliveFrom
  <2>. QED BY <1>4, <2>1, <2>2
<1>8. CASE Wait(e)
  <2>1. PICK n \in Node, k \in Memory :
            /\ exec[e].task[n] = "running" /\ Puts(e, k) /\ Shifts(exec[e], k, n)
            /\ k.state[n] = "waiting_approval" /\ k.out[n] = exec[e].out[n]
            /\ k.ready = exec[e].ready
    BY <1>1, <1>8, WaitPoint
  <2>2. exec[e].phase \in {"restoring", "running"} /\ exec[e].state[n] = "none"
    BY <1>1, <2>1, AliveFrom DEF Ordered
  <2>. QED BY <1>4, <2>1, <2>2
<1>9. ASSUME NEW n \in Node, NEW k \in Memory, exec[e].task[n] # "none", Puts(e, k),
             Moves(exec[e], k, n, exec[e].state[n], exec[e].out[n], "done"), k.ready = exec[e].ready
      PROVE  GrowthParts' /\ Grows(ledger, ledger')
  <2>1. Shifts(exec[e], k, n) /\ k.state[n] = exec[e].state[n] /\ k.out[n] = exec[e].out[n]
    BY <1>1, <1>9, DonePoint
  <2>2. exec[e].phase \in {"restoring", "running"}
    BY <1>1, <1>9, AliveFrom
  <2>. QED BY <1>4, <1>9, <2>1, <2>2
<1>10. CASE EndTask(e)
  <2>1. PICK n \in Node :
            /\ exec[e].task[n] = "resolving"
            /\ \/ exec[e].phase = "over"
               \/ \E k \in Memory :
                    /\ Puts(e, k) /\ Moves(exec[e], k, n, exec[e].state[n], exec[e].out[n], "done")
                    /\ k.ready = exec[e].ready
    BY <1>1, <1>10, EndTaskEffect
  <2>2. exec[e].phase # "over"
    BY <1>1, <2>1, AliveFrom
  <2>3. PICK k \in Memory :
            /\ Puts(e, k) /\ Moves(exec[e], k, n, exec[e].state[n], exec[e].out[n], "done")
            /\ k.ready = exec[e].ready
    BY <2>1, <2>2
  <2>. QED BY <1>9, <2>1, <2>3
<1>11. CASE Swallow(e)
  <2>1. PICK n \in Node : /\ exec[e].task[n] \in {"blind", "stale"}
                          /\ exec' = [exec EXCEPT ![e].task[n] = "done"]
    BY <1>11 DEF Swallow
  <2>2. PICK k \in Memory :
            /\ Puts(e, k) /\ Moves(exec[e], k, n, exec[e].state[n], exec[e].out[n], "done")
            /\ k.ready = exec[e].ready
    BY <1>1, <2>1, DoneEffect
  <2>. QED BY <1>9, <2>1, <2>2
<1>. QED BY <1>5, <1>6, <1>7, <1>8, <1>10, <1>11

LEMMA GrowthMoved ==
    ASSUME GrowthInv, Careful, NEW e \in Execution, Moved(e)
    PROVE  GrowthParts' /\ Grows(ledger, ledger')
<1>1. /\ TypeInv /\ Shared /\ setting.onError # "continue" /\ OnceInv /\ GrowthParts
      /\ exec[e] \in Memory /\ exec \in [Execution -> Memory]
      /\ session \in [Execution -> Session] /\ row.checkpoint \in Checkpoint /\ ledger \in Ledgers
      /\ Ordered(exec[e]) /\ Alone(exec[e])
      /\ Goes(ledger, session[e].steps, row.checkpoint, exec[e])
  BY GrowthFields
<1>2. "failed" \in RowStatus /\ "succeeded" \in RowStatus /\ {} \in SUBSET (Node \X StepEnd)
  BY DEF RowStatus
<1>3. ASSUME CommitSteps(e, {})
      PROVE  /\ ledger' \in Ledgers
             /\ \A n \in Node, v \in StepEnd :
                    v \in ledger'[n] <=> v \in ledger[n] \/ <<n, v>> \in session[e].steps
  <2>. DEFINE ends == {}
  <2>1. ends \in SUBSET (Node \X StepEnd) /\ CommitSteps(e, ends) /\ \A x : x \notin ends
    BY <1>3
  <2>. HIDE DEF ends
  <2>. QED BY <1>1, <2>1, LedgerGrows DEF Ledgers
<1>4. ASSUME NEW b \in BOOLEAN, session' = [session EXCEPT ![e].held = b]
      PROVE  Apart(e) /\ session'[e].steps = session[e].steps
  BY <1>1, <1>4 DEF Apart, Session
<1>5. CASE Fails(e)
  <2>1. /\ Puts(e, Over("over")) /\ EndRow(e, "failed", row.checkpoint, FALSE) /\ Alive(exec[e])
    BY <1>5 DEF Fails, Alive
  <2>2. /\ row'.checkpoint = row.checkpoint /\ CommitSteps(e, {})
        /\ session' = [session EXCEPT ![e] = Clean]
    BY <1>1, <1>2, <2>1, CloseKeeps
  <2>. QED BY <1>3, <2>1, <2>2, GrowthOver
<1>6. CASE Loses(e)
  <2>1. /\ Puts(e, Over("lost")) /\ session' = [session EXCEPT ![e] = Clean]
        /\ UNCHANGED <<row, ledger>>
    BY <1>6 DEF Loses
  <2>2. Apart(e) /\ session'[e].steps = {}
    BY <1>1, <2>1, CleanFields DEF Apart
  <2>3. Over("lost") \in Memory /\ Goes(ledger', session'[e].steps, row'.checkpoint, Over("lost"))
    BY <2>2, OverFields, GoesBlank
  <2>4. /\ Closed(ledger') /\ Grows(ledger, ledger')
        /\ row'.status # "succeeded" =>
              Fits(ledger', row'.checkpoint.node_states, row'.checkpoint.node_outputs)
    BY <1>1, <2>1 DEF GrowthParts, RowFits, Grows
  <2>. QED BY <2>1, <2>2, <2>3, <2>4, GrowthFrom
<1>7. CASE Restores(e)
  <2>1. /\ exec[e].phase = "queued" /\ Puts(e, Restored(exec[e]))
        /\ session' = [session EXCEPT ![e].held = TRUE] /\ UNCHANGED <<row, ledger>>
    BY <1>7 DEF Restores
  <2>2. Apart(e) /\ session'[e].steps = session[e].steps
    BY <1>4, <2>1
  <2>3. exec[e].settled = {} /\ \A n \in Node : exec[e].task[n] = "none"
    BY <1>1, <2>1 DEF OnceInv, CarefulParts, Still
  <2>4. row.status # "succeeded"
    BY <2>1, GrowthFields DEF Alive
  <2>5. Fits(ledger, row.checkpoint.node_states, row.checkpoint.node_outputs)
    BY <1>1, <2>4 DEF GrowthParts, RowFits
  <2>6. Restored(exec[e]) \in Memory /\ Goes(ledger, session[e].steps, row.checkpoint, Restored(exec[e]))
    <3>. DEFINE m == exec[e]  L == ledger  S == session[e].steps  c == row.checkpoint
    <3>1. /\ c \in Checkpoint /\ m \in Memory /\ Goes(L, S, c, m) /\ m.phase = "queued"
          /\ m.settled = {} /\ (\A n \in Node : m.task[n] = "none")
          /\ Fits(L, c.node_states, c.node_outputs)
      BY <1>1, <2>1, <2>3, <2>5
    <3>. HIDE DEF m, L, S, c
    <3>2. Restored(m) \in Memory /\ Goes(L, S, c, Restored(m))
      BY <3>1, RestoredFields, GoesRestored
    <3>. QED BY <3>2 DEF m, L, S, c
  <2>7. /\ Closed(ledger') /\ Grows(ledger, ledger')
        /\ Fits(ledger', row'.checkpoint.node_states, row'.checkpoint.node_outputs)
        /\ Goes(ledger', session'[e].steps, row'.checkpoint, Restored(exec[e]))
    BY <1>1, <2>1, <2>2, <2>5, <2>6 DEF GrowthParts, Grows
  <2>. QED BY <2>1, <2>2, <2>6, <2>7, GrowthFrom
<1>8. CASE CommitEarly(e)
  <2>1. /\ row' = Landed(e) /\ CommitSteps(e, {}) /\ session' = [session EXCEPT ![e] = Clean]
        /\ UNCHANGED exec /\ \E n \in Node : exec[e].task[n] # "none"
    BY <1>8 DEF CommitEarly
  <2>2. exec[e].phase \in {"restoring", "running"} /\ Alive(exec[e])
    BY <1>1, <2>1, AliveFrom
  <2>3. row'.checkpoint = row.checkpoint
    BY <1>1, <2>1, RowKeeps
  <2>4. Apart(e) /\ session'[e].steps = {}
    BY <1>1, <2>1, CleanFields DEF Apart
  <2>5. /\ Closed(ledger') /\ Grows(ledger, ledger')
        /\ Fits(ledger', row.checkpoint.node_states, row.checkpoint.node_outputs)
        /\ Goes(ledger', {}, row.checkpoint, exec[e])
    <3>. DEFINE K == ledger'
    <3>1. /\ K \in Ledgers
          /\ \A n \in Node, v \in StepEnd :
                v \in K[n] <=> v \in ledger[n] \/ <<n, v>> \in session[e].steps
      BY <1>3, <2>1
    <3>. HIDE DEF K
    <3>2. /\ Closed(K) /\ Grows(ledger, K)
          /\ Fits(K, row.checkpoint.node_states, row.checkpoint.node_outputs)
          /\ Goes(K, {}, row.checkpoint, exec[e])
      BY <2>2, <3>1, GrowthCommit
    <3>. QED BY <3>2 DEF K
  <2>6. Goes(ledger', session'[e].steps, row'.checkpoint, exec[e])
    BY <2>3, <2>4, <2>5
  <2>7. Fits(ledger', row'.checkpoint.node_states, row'.checkpoint.node_outputs)
    BY <2>3, <2>5
  <2>8. Puts(e, exec[e]) /\ \A f \in Execution \ {e} : ~Alive(exec[f])
    BY <1>1, <2>1, <2>2, GrowthFields DEF Puts
  <2>. QED BY <1>1, <2>4, <2>5, <2>6, <2>7, <2>8, GrowthFrom
<1>9. ASSUME NEW k \in Memory, Puts(e, k) PROVE Told(k.state, k.out)
  <2>1. exec'[e] = k
    BY <1>1, <1>9, PutsFields
  <2>2. TypeInv'
    BY <1>1, TypeMoved
  <2>. QED BY <2>1, <2>2 DEF TypeInv, OutputKnown, Told
<1>10. CASE Succeed(e)
  <2>1. PICK n \in Node, k \in Memory :
            /\ exec[e].task[n] = "running" /\ Puts(e, k) /\ Shifts(exec[e], k, n)
            /\ k.state[n] = "succeeded"
            /\ k.ready = exec[e].ready
            /\ StageNode(e, n, "succeeded", k.state, k.out)
    BY <1>1, <1>10, SucceedPoint
  <2>2. Told(k.state, k.out)
    BY <1>9, <2>1
  <2>. DEFINE v == "succeeded"
  <2>3. /\ v \in {"failed", "succeeded"} /\ k.state[n] = v /\ v # "failed"
        /\ StageNode(e, n, v, k.state, k.out)
    BY <2>1
  <2>. HIDE DEF v
  <2>. QED BY <2>1, <2>2, <2>3, GrowthStage
<1>11. CASE Fail(e)
  <2>1. PICK n \in Node, k \in Memory :
            /\ exec[e].task[n] = "running" /\ Puts(e, k) /\ Shifts(exec[e], k, n)
            /\ k.state[n] = "failed" /\ k.out[n] = exec[e].out[n]
            /\ k.ready = exec[e].ready
            /\ StageNode(e, n, "failed", k.state, k.out)
    BY <1>1, <1>11, FailPoint
  <2>2. Told(k.state, k.out)
    BY <1>9, <2>1
  <2>. DEFINE v == "failed"
  <2>3. /\ v \in {"failed", "succeeded"} /\ k.state[n] = v
        /\ StageNode(e, n, v, k.state, k.out)
    BY <2>1
  <2>. HIDE DEF v
  <2>. QED BY <2>1, <2>2, <2>3, GrowthStage
<1>12. CASE Leaves(e)
  <2>1. PICK n \in Node : exec[e].task[n] \in {"raised", "blind", "stale"}
    BY <1>12 DEF Leaves
  <2>2. PICK i \in Node : exec[e].task[i] \in {"running", "resolving"}
    BY <1>12 DEF Leaves, Busy
  <2>. QED BY <1>1, <2>1, <2>2 DEF Alone
<1>13. CASE StopForApproval(e)
  <2>1. PICK n \in Node :
            /\ exec[e].phase = "running" /\ exec[e].task[n] = "waiting"
            /\ row' \in Row /\ row'.status = "waiting_approval" /\ row'.leased = FALSE
            /\ row'.checkpoint = ApprovalPoint(exec[e], n)
            /\ \A i \in Node : row'.checkpoint.node_states[i] =
                    IF exec[e].state[i] \in {"succeeded", "skipped"} THEN exec[e].state[i] ELSE "none"
            /\ Puts(e, Over("over"))
            /\ ledger' \in [Node -> SUBSET StepEnd]
            /\ \A i \in Node, v \in StepEnd :
                    v \in ledger'[i] <=> v \in ledger[i] \/ <<i, v>> \in session[e].steps
            /\ session' = [session EXCEPT ![e] = Clean]
    BY <1>1, <1>13, StopEffect, ZenonT(60)
  <2>2. Alive(exec[e]) /\ ledger' \in Ledgers
    BY <2>1 DEF Alive, Ledgers
  <2>. QED BY <2>1, <2>2, GrowthOver
<1>14. CASE Succeeds(e)
  <2>1. Puts(e, Over("over")) /\ EndRow(e, "succeeded", Empty, FALSE) /\ Alive(exec[e])
    BY <1>14 DEF Succeeds, Alive
  <2>2. /\ row'.status = "succeeded" /\ CommitSteps(e, {})
        /\ session' = [session EXCEPT ![e] = Clean]
    BY <1>1, <1>2, <2>1, CloseKeeps, EmptyFields
  <2>. QED BY <1>3, <2>1, <2>2, GrowthOver
<1>. QED
  BY <1>5, <1>6, <1>7, <1>8, <1>10, <1>11, <1>12, <1>13, <1>14, GrowthQuiet DEF Moved

LEMMA GrowthHands ==
    ASSUME GrowthInv, Careful, NEW e \in Execution, NEW n \in Node, NEW xs \in SUBSET Edge,
           Hands(e, n, xs)
    PROVE  GrowthParts' /\ Grows(ledger, ledger')
<1>1. /\ TypeInv /\ OnceInv /\ GrowthParts /\ ledger \in Ledgers /\ row.checkpoint \in Checkpoint
      /\ exec[e] \in Memory /\ Ordered(exec[e])
      /\ Goes(ledger, session[e].steps, row.checkpoint, exec[e])
  BY GrowthFields
<1>2. PICK k \in Memory, dead \in SUBSET Node :
             /\ Puts(e, k) /\ exec' \in [Execution -> Memory] /\ exec'[e] = k
             /\ dead = Kills(exec[e], n, xs)
             /\ \A t \in dead : exec[e].state[t] = "none"
             /\ k.phase = exec[e].phase /\ k.from = exec[e].from /\ k.verdict = exec[e].verdict
             /\ k.out = exec[e].out /\ k.task = exec[e].task
             /\ k.settled = Settles(exec[e], xs) /\ k.active = Activates(exec[e], n, xs)
             /\ k.ready = exec[e].ready \cup (Reaches(exec[e], xs) \ dead)
             /\ k.todo = (exec[e].todo \ {n}) \cup dead
             /\ \A t \in Node : k.state[t] = IF t \in dead THEN "skipped" ELSE exec[e].state[t]
             /\ session' \in [Execution -> Session]
             /\ session'[e].steps = session[e].steps \cup {<<t, "skipped">> : t \in dead}
             /\ session'[e].held = session[e].held
             /\ \A f \in Execution \ {e} : session'[f] = session[f]
  BY <1>1, HandsFields, Zenon
<1>3. /\ n \in exec[e].todo /\ xs \subseteq Out(n) /\ UNCHANGED <<row, ledger>>
      /\ exec[e].state[n] # "skipped" => \A x \in xs : Defined(exec[e], x)
  BY DEF Hands
<1>4. exec[e].phase \in {"restoring", "running"}
  BY <1>1, <1>3, AliveFrom
<1>5. Goes(ledger, session'[e].steps, row.checkpoint, k)
  <2>. DEFINE m == exec[e]  L == ledger  S == session[e].steps  T == session'[e].steps
              c == row.checkpoint
  <2>1. /\ L \in Ledgers /\ c \in Checkpoint /\ m \in Memory /\ n \in m.todo /\ xs \subseteq Out(n)
        /\ dead = Kills(m, n, xs)
        /\ m.state[n] # "skipped" => \A x \in xs : Defined(m, x)
    BY <1>1, <1>2, <1>3
  <2>2. Ordered(m) /\ Goes(L, S, c, m) /\ m.phase \in {"restoring", "running"}
    BY <1>1, <1>4
  <2>3. /\ k.phase = m.phase /\ k.out = m.out /\ k.task = m.task
        /\ k.settled = Settles(m, xs) /\ k.active = Activates(m, n, xs)
        /\ k.ready = m.ready \cup (Reaches(m, xs) \ dead)
        /\ \A t \in Node : k.state[t] = IF t \in dead THEN "skipped" ELSE m.state[t]
    BY <1>2
  <2>4. T = S \cup {<<t, "skipped">> : t \in dead}
    BY <1>2
  <2>. HIDE DEF m, L, S, T, c
  <2>5. Goes(L, T, c, k)
    BY <2>1, <2>2, <2>3, <2>4, GoesHands
  <2>. QED BY <2>5 DEF L, T, c
<1>6. /\ Closed(ledger') /\ Grows(ledger, ledger')
      /\ row'.status # "succeeded" =>
            Fits(ledger', row'.checkpoint.node_states, row'.checkpoint.node_outputs)
      /\ Goes(ledger', session'[e].steps, row'.checkpoint, k)
  BY <1>1, <1>3, <1>5 DEF GrowthParts, RowFits, Grows
<1>7. Apart(e)
  BY <1>2 DEF Apart
<1>. QED BY <1>2, <1>3, <1>6, <1>7, GrowthFrom

LEMMA GrowthStep ==
    ASSUME GrowthInv, [Next]_vars
    PROVE  GrowthInv' /\ (Careful => Grows(ledger, ledger'))
<1>1. /\ TypeInv /\ HonestInv' /\ OnceInv' /\ UNCHANGED setting
  BY HonestStep, OnceStep, SettingStays DEF GrowthInv, HonestInv
<1>2. Careful' <=> Careful
  BY <1>1 DEF Careful, Shared, Steady
<1>3. ASSUME Careful, Reap PROVE GrowthParts' /\ Grows(ledger, ledger')
  <2>1. /\ row.status = "running"
        /\ row' = [row EXCEPT !.status = "failed", !.leased = FALSE]
        /\ UNCHANGED <<setting, long, exec, session, ledger>>
    BY <1>3 DEF Reap
  <2>2. row'.checkpoint = row.checkpoint
    BY <1>1, <2>1, TypeFields DEF Row
  <2>3. GrowthParts
    BY <1>3 DEF GrowthInv
  <2>4. RowFits'
    BY <2>1, <2>2, <2>3 DEF GrowthParts, RowFits, Fits, Inert, MayHold
  <2>5. Closed(ledger)' /\ \A f \in Execution : Goes(ledger, session[f].steps, row.checkpoint, exec[f])'
    BY <2>1, <2>2, <2>3 DEF GrowthParts
  <2>6. Grows(ledger, ledger')
    BY <2>1 DEF Grows
  <2>. QED BY <2>4, <2>5, <2>6 DEF GrowthParts
<1>4. ASSUME Careful, NEW status, NEW verdict, NEW leased, Stages(status, verdict, leased)
      PROVE  GrowthParts' /\ Grows(ledger, ledger')
  <2>1. PICK e \in Execution, k \in Memory :
            /\ status = row.status /\ status \in {"failed", "waiting_approval"}
            /\ Puts(e, k) /\ k.phase = "queued" /\ k.from = row.checkpoint
            /\ k.settled = {} /\ k.active = {} /\ k.ready = {}
            /\ \A n \in Node : k.task[n] = "none"
            /\ row'.status = "queued" /\ row'.checkpoint = row.checkpoint
            /\ UNCHANGED <<setting, ledger, session>>
    BY <1>1, <1>4, StagesEffect
  <2>2. /\ GrowthParts /\ \A f \in Execution : ~Alive(exec[f])
        /\ Goes(ledger, session[e].steps, row.checkpoint, exec[e])
    BY <1>4, <2>1, GrowthFields
  <2>3. \A n \in Node, v \in StepEnd : <<n, v>> \notin session[e].steps
    BY <2>2 DEF Goes, Staged, Alive
  <2>4. Goes(ledger', session'[e].steps, row'.checkpoint, k)
    BY <2>1, <2>3, GoesBlank
  <2>5. /\ Closed(ledger') /\ Grows(ledger, ledger')
        /\ Fits(ledger', row'.checkpoint.node_states, row'.checkpoint.node_outputs)
    BY <2>1, <2>2 DEF GrowthParts, RowFits, Grows
  <2>6. Apart(e)
    BY <2>1 DEF Apart
  <2>. QED BY <1>4, <2>1, <2>2, <2>4, <2>5, <2>6, GrowthFrom
<1>5. ASSUME Careful, UNCHANGED vars PROVE GrowthParts' /\ Grows(ledger, ledger')
  <2>1. UNCHANGED <<row, exec, session, ledger>> /\ GrowthParts
    BY <1>5 DEF vars, GrowthInv
  <2>. QED BY <2>1 DEF GrowthParts, RowFits, Grows
<1>6. ASSUME Careful PROVE GrowthParts' /\ Grows(ledger, ledger')
  BY <1>1, <1>3, <1>4, <1>5, <1>6, GrowthMoved, GrowthHands, StepForms
<1>. QED BY <1>1, <1>2, <1>6 DEF GrowthInv

LEMMA GrowthInit ==
    ASSUME Init PROVE GrowthInv
<1>1. HonestInv /\ OnceInv
  BY HonestInit, OnceInit
<1>2. row.checkpoint = Empty /\ ledger = [n \in Node |-> {}] /\ \A e \in Execution : session[e] = Clean
  BY DEF Init
<1>3. Closed(ledger) /\ RowFits
  BY <1>2, EmptyFields DEF Closed, RowFits, Fits
<1>4. ASSUME NEW e \in Execution PROVE Goes(ledger, session[e].steps, row.checkpoint, exec[e])
  <2>1. exec[e] = Blank(IF e = 1 THEN "queued" ELSE "none", Empty, "none")
    BY DEF Init
  <2>2. "queued" \in Phase /\ "none" \in Phase /\ "none" \in Verdict
    BY DEF Phase, Verdict
  <2>3. /\ exec[e] \in Memory /\ exec[e].phase \in {"queued", "none"} /\ exec[e].from = Empty
        /\ exec[e].settled = {} /\ exec[e].active = {} /\ exec[e].ready = {}
        /\ \A n \in Node : exec[e].task[n] = "none"
    BY <2>1, <2>2, BlankFields, EmptyFields
  <2>4. session[e].steps = {}
    BY <1>2, CleanFields
  <2>. QED BY <1>2, <2>3, <2>4, GoesBlank
<1>. QED BY <1>1, <1>3, <1>4 DEF GrowthInv, GrowthParts

(***************************************************************************)
(* What the ledger records of the graph is the abstract progress.          *)
(***************************************************************************)

Standing(L) == [n \in Node |->
    IF L[n] = {} THEN "open"
    ELSE IF "succeeded" \in L[n] THEN "succeeded"
    ELSE IF "skipped" \in L[n] THEN "skipped" ELSE "failed"]

(* An edge into a node is a node before it. *)
LEMMA EdgesBefore ==
    ASSUME NEW n \in Node
    PROVE  /\ Progress!Before(n) = {} <=> In(n) = {}
           /\ \A m \in Progress!Before(n) : m \in Node /\ <<m, n>> \in In(n)
           /\ \A x \in In(n) : x[1] \in Progress!Before(n) /\ x = <<x[1], n>>
<1>1. \A m \in Progress!Before(n) : m \in Node /\ <<m, n>> \in In(n)
  BY DEF Progress!Before, In
<1>2. \A x \in In(n) : x[1] \in Progress!Before(n) /\ x = <<x[1], n>>
  <2>. SUFFICES ASSUME NEW x \in In(n) PROVE x[1] \in Progress!Before(n) /\ x = <<x[1], n>>
    OBVIOUS
  <2>1. x \in Edge /\ x \in Node \X Node /\ x[2] = n /\ x[1] \in Node
    BY WorkflowAssumption DEF In
  <2>2. x = <<x[1], n>>
    BY <2>1
  <2>. QED BY <2>1, <2>2 DEF Progress!Before
<1>. QED BY <1>1, <1>2

(* A ledger that grows is a step of the progress. *)
LEMMA GrowthDecides ==
    ASSUME NEW L \in Ledgers, NEW K \in Ledgers, Grows(L, K), NEW n \in Node,
           Standing(K)[n] # Standing(L)[n]
    PROVE  \/ /\ Standing(K)[n] \in {"failed", "succeeded"}
              /\ Standing(L)[n] \in {"open", "failed"}
              /\ Progress!Reached(Standing(K), n)
           \/ /\ Standing(K)[n] = "skipped" /\ Standing(L)[n] = "open"
              /\ Progress!PassedOver(Standing(K), n)
<1>. DEFINE p == Standing(L)  q == Standing(K)
<1>1. /\ K[n] # L[n]
      /\ \A i \in Node : /\ K[i] # {} => q[i] # "open"
                         /\ "succeeded" \in K[i] => q[i] = "succeeded"
                         /\ K[i] = {"skipped"} => q[i] = "skipped"
  BY DEF Standing
<1>2. CASE /\ L[n] = {} /\ K[n] = {"skipped"} /\ In(n) # {}
           /\ \A x \in In(n) : K[x[1]] # {} /\ (When[x] = "always" => K[x[1]] = {"skipped"})
  <2>1. q[n] = "skipped" /\ p[n] = "open"
    BY <1>2 DEF Standing
  <2>2. Progress!Before(n) # {}
    BY <1>2, EdgesBefore
  <2>3. ASSUME NEW m \in Progress!Before(n)
        PROVE  q[m] # "open" /\ (<<m, n>> \in {x \in Edge : When[x] = "always"} => q[m] = "skipped")
    <3>1. m \in Node /\ <<m, n>> \in In(n) /\ <<m, n>>[1] = m
      BY EdgesBefore
    <3>. HIDE DEF q
    <3>. QED BY <1>1, <1>2, <3>1
  <2>4. Progress!PassedOver(q, n)
    <3>. HIDE DEF q
    <3>. QED BY <2>2, <2>3 DEF Progress!PassedOver
  <2>. QED BY <2>1, <2>4
<1>3. CASE /\ L[n] \subseteq {"failed"} /\ K[n] \subseteq {"failed", "succeeded"} /\ K[n] # {}
           /\ \A x \in In(n) : K[x[1]] # {}
           /\ In(n) = {} \/ \E x \in In(n) : "succeeded" \in K[x[1]]
  <2>1. q[n] \in {"failed", "succeeded"} /\ p[n] \in {"open", "failed"}
    BY <1>3 DEF Standing
  <2>2. \A m \in Progress!Before(n) : q[m] # "open"
    <3>. SUFFICES ASSUME NEW m \in Progress!Before(n) PROVE q[m] # "open"
      OBVIOUS
    <3>1. m \in Node /\ <<m, n>> \in In(n) /\ <<m, n>>[1] = m
      BY EdgesBefore
    <3>. HIDE DEF q
    <3>. QED BY <1>1, <1>3, <3>1
  <2>3. Progress!Before(n) = {} \/ \E m \in Progress!Before(n) : q[m] \in {"succeeded", "failed"}
    <3>1. ASSUME NEW x \in In(n), "succeeded" \in K[x[1]]
          PROVE  \E m \in Progress!Before(n) : q[m] \in {"succeeded", "failed"}
      <4>. HIDE DEF q
      <4>1. x[1] \in Progress!Before(n) /\ x[1] \in Node
        BY EdgesBefore, Graph
      <4>. QED BY <1>1, <3>1, <4>1
    <3>. QED BY <1>3, <3>1, EdgesBefore
  <2>4. Progress!Reached(q, n)
    <3>. HIDE DEF q
    <3>. QED BY <2>2, <2>3 DEF Progress!Reached
  <2>. QED BY <2>1, <2>4
<1>. QED BY <1>1, <1>2, <1>3 DEF Grows

(* While the executions agree, a step of the run is a step of the progress. *)
LEMMA ProgressMoves ==
    ASSUME GrowthInv, [Next]_vars, Careful
    PROVE  [Progress!Decide]_Recorded
<1>1. ledger \in Ledgers /\ ledger' \in Ledgers /\ Grows(ledger, ledger')
  <2>1. TypeInv /\ TypeInv'
    BY TypeStep DEF GrowthInv, HonestInv
  <2>2. ledger \in Ledgers /\ ledger' \in Ledgers
    BY <2>1 DEF TypeInv, TypeOK, Ledgers
  <2>. QED BY <2>2, GrowthStep
<1>. DEFINE p == Standing(ledger)  q == Standing(ledger')
<1>2. Recorded = p /\ Recorded' = q
  <2>1. UNCHANGED setting
    BY SettingStays DEF GrowthInv, HonestInv
  <2>. QED BY <2>1 DEF Recorded, Standing, Careful, Steady
<1>3. q \in [Node -> Progress!Decision]
  BY DEF Standing, Progress!Decision
<1>4. \A n \in Node : q[n] # p[n] =>
           \/ /\ q[n] \in {"failed", "succeeded"} /\ p[n] \in {"open", "failed"}
              /\ Progress!Reached(q, n)
           \/ /\ q[n] = "skipped" /\ p[n] = "open"
              /\ Progress!PassedOver(q, n)
  BY <1>1, GrowthDecides
<1>. HIDE DEF p, q
<1>. QED BY <1>2, <1>3, <1>4 DEF Progress!Decide

(* Where they need not agree nothing is said to be recorded. *)
LEMMA ProgressRests ==
    ASSUME GrowthInv, [Next]_vars, ~Steady
    PROVE  UNCHANGED Recorded
<1>1. UNCHANGED setting
  BY SettingStays DEF GrowthInv, HonestInv
<1>. QED BY <1>1 DEF Recorded, Steady

(* What the runs of one execution at a time assume, which no step changes. *)
Agreed == Shared /\ setting.onError # "continue"

(* GraphProgress: where executions take turns on the run and a failed node *)
(* ends it, what the step ledger records over all its crashes, redrives    *)
(* and resumes follows the graph. A node is run only after everything      *)
(* before it and only if an edge leads to it, is passed over only if none  *)
(* does, and what was decided stays decided, save that a node that failed  *)
(* may be tried again (executor.py).                                       *)
THEOREM GraphProgressImplemented == Spec /\ Agreed => ImplementsGraphProgress
<1>1. Init => GrowthInv /\ Progress!ProgressInit
  <2>1. ASSUME Init PROVE Progress!ProgressInit
    <3>1. ledger = [n \in Node |-> {}]
      BY <2>1 DEF Init
    <3>. QED BY <3>1 DEF Progress!ProgressInit, Recorded
  <2>. QED BY <2>1, GrowthInit
<1>2. ASSUME GrowthInv, Agreed, [Next]_vars
      PROVE  GrowthInv' /\ Agreed' /\ [Progress!Decide]_Recorded
  <2>1. UNCHANGED setting
    BY <1>2, SettingStays DEF GrowthInv, HonestInv
  <2>2. Agreed'
    BY <1>2, <2>1 DEF Agreed, Shared
  <2>3. ASSUME Steady PROVE [Progress!Decide]_Recorded
    BY <1>2, <2>3, ProgressMoves DEF Agreed, Careful
  <2>4. ASSUME ~Steady PROVE [Progress!Decide]_Recorded
    BY <1>2, <2>4, ProgressRests
  <2>. QED BY <1>2, <2>2, <2>3, <2>4, GrowthStep
<1>. QED BY <1>1, <1>2, PTL DEF Spec, ImplementsGraphProgress, Progress!ProgressSpec

=============================================================================
