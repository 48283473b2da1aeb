--------------------------- MODULE ToolCallLedger ---------------------------
(***************************************************************************)
(* One logical tool call: its control record (run_step_tool_calls), the    *)
(* RunStep linked to it, and the requests that race to run it through the  *)
(* tool policy gateway (kernel/ports/tools/policy.py, invoke) and          *)
(* RuntimeToolExecutionService (kernel/runtime/runs/tool_calls.py).        *)
(*                                                                         *)
(* A request works on its own database session.  Sessions are opened with  *)
(* expire_on_commit=False, so a request keeps acting on the copy of the    *)
(* record and of the step it read (`view') until something reloads it.     *)
(* One action is one transaction: the code between two commits.            *)
(***************************************************************************)
EXTENDS Integers, FiniteSets, RuntimeStatus

CONSTANTS
    Request,        \* requests that name this call, each one gateway.invoke
    Owner,          \* lease owners
    NoOwner,        \* lease_owner IS NULL
    OwnerOf,        \* the lease owner each request claims under
    Resumer,        \* requests sent with resume_approval
    FailureRetrier, \* requests sent with retry_failed
    Node,           \* requests of a workflow node: after an exception their
                    \* session goes on and commits, the others roll back
    Lease,          \* lease_seconds, in ticks
    MaxTime         \* bound on the clock

ASSUME RequestsAssumption ==
    /\ OwnerOf \in [Request -> Owner]
    /\ NoOwner \notin Owner
    /\ Resumer \subseteq Request /\ FailureRetrier \subseteq Request
    /\ Node \subseteq Request

ASSUME TimeAssumption == Lease \in Nat \ {0} /\ MaxTime \in Nat

VARIABLES
    record,     \* the row of run_step_tool_calls
    step,       \* status of the linked run_steps row
    now,        \* the clock every lease is compared with
    pc,         \* where each request is
    view,       \* the record and step each request's session has cached
    answer,     \* what each request's caller was told
    crossed,    \* requests that crossed the outbound boundary since the
                \* call was last reset for a retry
    served      \* requests whose tool reported success

vars == <<record, step, now, pc, view, answer, crossed, served>>

Never == -1      \* lease_expires_at IS NULL

CallStatus == {"absent", "waiting_approval", "claimed", "running",
               "succeeded", "failed", "rejected", "in_doubt"}
Final == {"succeeded", "failed"}
Active == {"claimed", "running"}

Record == [status   : CallStatus,
           owner    : Owner \cup {NoOwner},
           lease    : Nat \cup {Never},
           outbound : BOOLEAN,           \* outbound_started_at is set
           kept     : BOOLEAN]           \* result_json holds the outcome

NoRecord == [status |-> "absent", owner |-> NoOwner, lease |-> Never,
             outbound |-> FALSE, kept |-> FALSE]

Place == {"new", "admitted", "claimed", "marked", "leased", "outbound",
          "tool_succeeded", "tool_failed", "raised", "done", "gone"}
Answer == {"none", "success", "failure", "replay_success", "replay_failure",
           "replay_empty", "in_flight", "in_doubt", "rejected", "waiting",
           "conflict", "error"}

TypeOK ==
    /\ record \in Record
    /\ step \in StepStatus
    /\ now \in 0 .. MaxTime
    /\ pc \in [Request -> Place]
    /\ view \in [Request -> [rec : Record, step : StepStatus]]
    /\ answer \in [Request -> Answer]
    /\ crossed \subseteq Request /\ served \subseteq Request

Init ==
    /\ record = NoRecord
    /\ step = "queued"
    /\ now = 0
    /\ pc = [r \in Request |-> "new"]
    /\ view = [r \in Request |-> [rec |-> NoRecord, step |-> "queued"]]
    /\ answer = [r \in Request |-> "none"]
    /\ crossed = {} /\ served = {}

-----------------------------------------------------------------------------
(* Helpers *)

Goto(r, place) == pc' = [pc EXCEPT ![r] = place]

Reply(r, a) == Goto(r, "done") /\ answer' = [answer EXCEPT ![r] = a]

Cache(r, rec, s) == view' = [view EXCEPT ![r] = [rec |-> rec, step |-> s]]

Expired(rec) == rec.lease # Never /\ rec.lease <= now

Until == now + Lease

Leased(rec, r) ==
    [rec EXCEPT !.status = "claimed", !.owner = OwnerOf[r], !.lease = Until]

(* An attempt of a workflow node starts when the one before it, under the  *)
(* same owner, is over.                                                    *)
Alone(r) ==
    \A q \in Request \ {r} :
        OwnerOf[q] = OwnerOf[r] => pc[q] \in {"new", "done", "gone"}

(* A final record is handed back; a claim that kept no outcome hands back  *)
(* an empty result.                                                        *)
Replay(r) ==
    Reply(r, CASE ~record.kept /\ record.status = "succeeded" -> "replay_empty"
               [] record.status = "succeeded" -> "replay_success"
               [] OTHER -> "replay_failure")

Replayed(r) ==
    /\ record.status \in Final
    /\ ~(record.status = "failed" /\ r \in FailureRetrier)

Ghosts == <<crossed, served>>

-----------------------------------------------------------------------------
(* The recorded outcome is looked up before anything is spent, and         *)
(* admission (rate, quota, spend guard) may still refuse the call.         *)

RecordedOutcome(r) ==
    /\ pc[r] = "new" /\ Alone(r)
    /\ Replayed(r)
    /\ Replay(r)
    /\ UNCHANGED <<record, step, now, view, Ghosts>>

Admit(r) ==
    /\ pc[r] = "new" /\ Alone(r)
    /\ ~Replayed(r)
    /\ Goto(r, "admitted")
    /\ UNCHANGED <<record, step, now, view, answer, Ghosts>>

Refuse(r) ==
    /\ pc[r] = "new" /\ Alone(r)
    /\ ~Replayed(r)
    /\ Reply(r, "error")
    /\ UNCHANGED <<record, step, now, view, Ghosts>>

-----------------------------------------------------------------------------
(* claim: SELECT ... FOR UPDATE reloads the record, so each branch decides *)
(* on the row as it is.                                                    *)

Claimed(r, rec, s) ==
    /\ record' = rec /\ step' = s
    /\ Cache(r, rec, s)
    /\ Goto(r, "claimed")
    /\ UNCHANGED <<now, answer, served>>

ClaimNew(r) ==
    /\ pc[r] = "admitted" /\ record.status = "absent"
    /\ Claimed(r, Leased(NoRecord, r), "preparing")
    /\ UNCHANGED crossed

ClaimApproved(r) ==
    /\ pc[r] = "admitted" /\ r \in Resumer
    /\ record.status = "waiting_approval"
    /\ Claimed(r, Leased(record, r), step)
    /\ UNCHANGED crossed

Holds(r) ==
    /\ record.status \in Active /\ record.owner = OwnerOf[r]
    /\ record.lease # Never /\ ~Expired(record)

ClaimHeld(r) ==
    /\ pc[r] = "admitted" /\ Holds(r)
    /\ Claimed(r, record, step)
    /\ UNCHANGED crossed

Retryable == "retrying" \in StepTransitions[step] \cup {step}

ClaimFailed(r) ==
    /\ pc[r] = "admitted" /\ r \in FailureRetrier
    /\ record.status = "failed" /\ Retryable
    /\ Claimed(r, [Leased(record, r) EXCEPT !.outbound = FALSE, !.kept = FALSE],
               "retrying")
    /\ crossed' = {}

ClaimReplay(r) ==
    /\ pc[r] = "admitted"
    /\ Replayed(r)
    /\ Replay(r)
    /\ UNCHANGED <<record, step, now, view, Ghosts>>

ClaimExpired(r) ==
    /\ pc[r] = "admitted" /\ record.status \in Active
    /\ ~Holds(r) /\ Expired(record) /\ ~record.outbound
    /\ Claimed(r, Leased(record, r), step)
    /\ UNCHANGED crossed

(* The lease of a call that had crossed the boundary ran out: nobody knows *)
(* what the tool did.                                                      *)
ClaimInDoubt(r) ==
    /\ pc[r] = "admitted" /\ record.status \in Active
    /\ ~Holds(r) /\ Expired(record) /\ record.outbound
    /\ record' = [record EXCEPT !.status = "in_doubt", !.owner = NoOwner,
                                !.lease = Never]
    /\ step' = IF step = "running" THEN "paused" ELSE step
    /\ Reply(r, "in_doubt")
    /\ UNCHANGED <<now, view, Ghosts>>

ClaimRefused(r) ==
    /\ pc[r] = "admitted"
    /\ \/ record.status = "in_doubt" /\ Reply(r, "in_doubt")
       \/ /\ \/ record.status = "rejected"
             \/ record.status = "waiting_approval" /\ r \notin Resumer
             \/ record.status \in Active /\ ~Holds(r) /\ ~Expired(record)
          /\ Reply(r, "in_flight")
    /\ UNCHANGED <<record, step, now, view, Ghosts>>

-----------------------------------------------------------------------------
(* What follows an exception.  The gateway marks the step failed and       *)
(* records the failure; when that raises in turn the exception leaves the  *)
(* gateway, and it depends on the caller whether what the transaction had  *)
(* staged (step `s', record `rec') is rolled back or committed later.      *)

Abandon(r, rec, s) ==
    /\ Reply(r, "error")
    /\ record' = IF r \in Node THEN rec ELSE record
    /\ step' = IF r \in Node THEN s ELSE step
    /\ UNCHANGED <<now, view, Ghosts>>

(* Mutant: what the step's update says is not looked at. *)
Handle_StepIgnored(r, mine, staged, seen, s) ==
    IF mine.status \in Final \/ mine.owner # OwnerOf[r]
    THEN Abandon(r, staged, s)
    ELSE /\ record' = [record EXCEPT !.status = "failed", !.kept = FALSE,
                                     !.owner = NoOwner, !.lease = Never]
         /\ step' = ConditionalMove(StepTransitions, seen, s, "failed").row
         /\ Reply(r, "error")
         /\ UNCHANGED <<now, view, Ghosts>>

(* except Exception in invoke, then fail().  `mine' is the session's copy  *)
(* of the record, `staged' the record as this transaction would leave it.  *)
Handle(r, mine, staged, seen, s) ==
    LET moved == ConditionalMove(StepTransitions, seen, s, "failed")
    IN  IF ~moved.ok \/ mine.status \in Final \/ mine.owner # OwnerOf[r]
        THEN Abandon(r, staged, moved.row)
        ELSE /\ record' = [record EXCEPT !.status = "failed", !.kept = FALSE,
                                         !.owner = NoOwner, !.lease = Never]
             /\ step' = moved.row
             /\ Reply(r, "error")
             /\ UNCHANGED <<now, view, Ghosts>>

-----------------------------------------------------------------------------
(* mark_running decides on the cached record; only the step's update is    *)
(* conditional.  The record's UPDATE writes the columns that changed: the  *)
(* status, the outbound time and the lease, not the owner.                 *)

Marked(rec) ==
    [rec EXCEPT !.status = "running", !.outbound = TRUE, !.lease = Until]

Startable == {"queued", "preparing", "waiting_approval", "retrying", "paused"}

MarkRunning(r) ==
    /\ pc[r] = "claimed" /\ view[r].rec.status = "claimed"
    /\ LET seen == view[r].step
           moved == IF seen \in Startable
                    THEN ConditionalMove(StepTransitions, seen, step, "running")
                    ELSE [ok |-> TRUE, row |-> step, seen |-> seen]
       IN  IF moved.ok
           THEN /\ record' = Marked(record)
                /\ step' = moved.row
                /\ Cache(r, Marked(view[r].rec), moved.seen)
                /\ Goto(r, "marked")
                /\ UNCHANGED <<now, answer, Ghosts>>
           ELSE Abandon(r, Marked(record), moved.row)

(* A claim of one's own call found it running already. *)
AlreadyRunning(r) ==
    /\ pc[r] = "claimed" /\ view[r].rec.status = "running"
    /\ Goto(r, "marked")
    /\ UNCHANGED <<record, step, now, view, answer, Ghosts>>

(* Mutant: the lease is renewed in the session's copy, like every other    *)
(* column. *)
RenewLease_Unfenced(r) ==
    /\ pc[r] = "marked"
    /\ record' = [record EXCEPT !.lease = Until]
    /\ view' = [view EXCEPT ![r].rec.lease = Until]
    /\ Goto(r, "leased")
    /\ UNCHANGED <<step, now, answer, Ghosts>>

(* renew_lease is the one write fenced on the row itself. *)
RenewLease(r) ==
    /\ pc[r] = "marked"
    /\ record.owner = OwnerOf[r] /\ record.status \in Active
    /\ record' = [record EXCEPT !.lease = Until]
    /\ view' = [view EXCEPT ![r].rec.lease = Until]
    /\ Goto(r, "leased")
    /\ UNCHANGED <<step, now, answer, Ghosts>>

(* Losing it rolls back, which drops the cached copies before the failure  *)
(* is handled.                                                             *)
LeaseLost(r) ==
    /\ pc[r] = "marked"
    /\ ~(record.owner = OwnerOf[r] /\ record.status \in Active)
    /\ Handle(r, record, record, step, step)

(* Anything that raises before the tool is called: an egress refusal, the  *)
(* invocation's timeout.                                                   *)
RaiseBeforeCall(r) ==
    /\ pc[r] \in {"marked", "leased"}
    /\ Handle(r, view[r].rec, record, view[r].step, step)

-----------------------------------------------------------------------------
(* The tool itself, outside the system. *)

CallTool(r) ==
    /\ pc[r] = "leased"
    /\ crossed' = crossed \cup {r}
    /\ Goto(r, "outbound")
    /\ UNCHANGED <<record, step, now, view, answer, served>>

ToolAnswers(r) ==
    /\ pc[r] = "outbound"
    /\ \/ Goto(r, "tool_succeeded") /\ served' = served \cup {r}
       \/ Goto(r, "tool_failed") /\ UNCHANGED served
       \/ Goto(r, "raised") /\ UNCHANGED served
    /\ UNCHANGED <<record, step, now, view, answer, crossed>>

-----------------------------------------------------------------------------
(* The answer is recorded in one transaction: the step moves, then         *)
(* complete() writes the record from its cached copy.                      *)

(* Mutant: a tool that answers has succeeded. *)
Outcome_Answered(r) ==
    IF pc[r] \in {"tool_succeeded", "tool_failed"} THEN "succeeded" ELSE "failed"

Outcome(r) == IF pc[r] = "tool_succeeded" THEN "succeeded" ELSE "failed"

Finished(rec, r) ==
    [rec EXCEPT !.status = Outcome(r), !.owner = NoOwner, !.lease = Never,
                !.kept = TRUE]

Complete(r) ==
    /\ pc[r] \in {"tool_succeeded", "tool_failed"}
    /\ LET moved == ConditionalMove(StepTransitions, view[r].step, step, Outcome(r))
       IN  IF moved.ok /\ ~Expired(view[r].rec)
           THEN /\ record' = Finished(record, r)
                /\ step' = moved.row
                /\ Reply(r, IF Outcome(r) = "succeeded" THEN "success" ELSE "failure")
                /\ UNCHANGED <<now, view, Ghosts>>
           ELSE Handle(r, view[r].rec, record, moved.seen, moved.row)

(* A result too large to keep inline goes to object storage, after the     *)
(* record's status was assigned in the session: the put may raise.         *)
StorageFails(r) ==
    /\ pc[r] \in {"tool_succeeded", "tool_failed"}
    /\ LET moved == ConditionalMove(StepTransitions, view[r].step, step, Outcome(r))
       IN  /\ moved.ok /\ ~Expired(view[r].rec)
           /\ Handle(r, [view[r].rec EXCEPT !.status = Outcome(r)],
                     [record EXCEPT !.status = Outcome(r)], moved.seen, moved.row)

Fail(r) ==
    /\ pc[r] = "raised"
    /\ Handle(r, view[r].rec, record, view[r].step, step)

-----------------------------------------------------------------------------
(* Approval: the call is recorded as waiting before anyone may run it.     *)

PrepareWaitingApproval(r) ==
    /\ pc[r] = "new" /\ Alone(r) /\ r \notin Resumer
    /\ IF record.status = "absent"
       THEN /\ record' = [NoRecord EXCEPT !.status = "waiting_approval"]
            /\ step' = "waiting_approval"
            /\ Reply(r, "waiting")
       ELSE /\ Reply(r, IF record.status = "waiting_approval" THEN "waiting"
                        ELSE "conflict")
            /\ UNCHANGED <<record, step>>
    /\ UNCHANGED <<now, view, Ghosts>>

RejectApproval(r) ==
    /\ pc[r] = "new" /\ Alone(r) /\ r \in Resumer
    /\ IF record.status = "waiting_approval"
       THEN /\ record' = [record EXCEPT !.status = "rejected"]
            /\ step' = "canceled"
            /\ Reply(r, "rejected")
       ELSE Reply(r, "conflict") /\ UNCHANGED <<record, step>>
    /\ UNCHANGED <<now, view, Ghosts>>

-----------------------------------------------------------------------------
(* The process dies, or the request is cancelled (a node's timeout, a      *)
(* client gone): CancelledError passes every `except Exception'.           *)
Vanish(r) ==
    /\ pc[r] \notin {"new", "done", "gone"}
    /\ Goto(r, "gone")
    /\ UNCHANGED <<record, step, now, view, answer, Ghosts>>

Tick ==
    /\ now < MaxTime
    /\ now' = now + 1
    /\ UNCHANGED <<record, step, pc, view, answer, Ghosts>>

(* Every request has ended. *)
Rest ==
    /\ \A r \in Request : pc[r] \in {"done", "gone"}
    /\ UNCHANGED vars

(* One invoke of the gateway, from the lookup to the answer. *)
Invoke(r) ==
    \/ RecordedOutcome(r) \/ Admit(r) \/ Refuse(r)
    \/ ClaimNew(r) \/ ClaimApproved(r) \/ ClaimHeld(r) \/ ClaimFailed(r)
    \/ ClaimReplay(r) \/ ClaimExpired(r) \/ ClaimInDoubt(r) \/ ClaimRefused(r)
    \/ MarkRunning(r) \/ AlreadyRunning(r)
    \/ RenewLease(r) \/ LeaseLost(r) \/ RaiseBeforeCall(r)
    \/ CallTool(r) \/ ToolAnswers(r)
    \/ Complete(r) \/ StorageFails(r) \/ Fail(r)

RequestStep(r) ==
    \/ Invoke(r) \/ Vanish(r)
    \/ PrepareWaitingApproval(r) \/ RejectApproval(r)

Next == Tick \/ Rest \/ \E r \in Request : RequestStep(r)

Spec == Init /\ [][Next]_vars
-----------------------------------------------------------------------------
(* Properties *)

(* At-most-once: between two resets of a failed call the outbound boundary *)
(* is crossed by one request only, whatever leases expire, whoever stalls  *)
(* between two commits and whatever dies on the way.                       *)
AtMostOnce == \A p, q \in crossed : p = q

(* The callers it is promised to: every request has an owner of its own,   *)
(* none retries a failure, none commits what an exception left staged.     *)
ServiceCallers ==
    /\ \A p, q \in Request : OwnerOf[p] = OwnerOf[q] => p = q
    /\ FailureRetrier = {} /\ Node = {}

(* Why it holds.  Past the fenced lease renewal, and ever after a crossing, *)
(* a request holds the call.  The row then never goes back to a status in  *)
(* which it can be claimed: while it runs its owner is the holder, and the *)
(* step, which every writer moves conditionally, tells a stale writer of   *)
(* the row what its cached copy does not.                                  *)
Working == {"marked", "leased", "outbound", "tool_succeeded", "tool_failed",
            "raised"}

Holding(r) == pc[r] \in Working \ {"marked"} \/ r \in crossed

CachedCopy(r) ==
    LET rec == view[r].rec IN
    /\ pc[r] = "claimed" =>
        \/ rec.status = "claimed" /\ view[r].step \in {"preparing", "waiting_approval"}
        \/ rec.status = "running" /\ view[r].step = "running"
    /\ pc[r] \in Working => view[r].step = "running"

RowAndStep ==
    /\ record.status = "waiting_approval" => step = "waiting_approval"
    /\ record.status = "claimed" => step \in {"preparing", "waiting_approval"}
    /\ record.status = "running" => step = "running"
    /\ record.status \in Final => step = record.status
    /\ record.status = "rejected" => step = "canceled"
    /\ record.status = "in_doubt" => step = "paused"

RowColumns ==
    /\ record.status \in {"absent", "waiting_approval", "claimed"} => ~record.outbound
    /\ record.status = "running" => record.outbound
    /\ record.status \in Active => record.lease # Never
    /\ record.status \in {"succeeded", "in_doubt"} =>
        record.owner = NoOwner /\ record.lease = Never
    /\ record.status = "succeeded" => record.kept

Started(r) ==
    \/ pc[r] = "claimed" /\ view[r].rec.status = "running"
    \/ pc[r] \in Working
    \/ r \in crossed

Progress(r) ==
    /\ pc[r] = "claimed" => record.status \notin {"absent", "waiting_approval", "rejected"}
    /\ Started(r) =>
        record.status \in {"running", "in_doubt"} \cup Final

OneHolder ==
    /\ \A r \in Request : CachedCopy(r) /\ Progress(r)
    /\ RowAndStep /\ RowColumns
    /\ \A r \in Request :
        Holding(r) /\ record.status = "running" => record.owner = OwnerOf[r]
    /\ \A p, q \in Request : Holding(p) /\ Holding(q) => p = q

(* What is recorded stays: a success, so that the same key keeps finding   *)
(* it, and a call in doubt, which is left to an operator.  Neither a new   *)
(* claim nor a request acting on an older copy of the row (mark_running,   *)
(* complete, fail) writes over them.                                       *)
OutcomeIsFinal ==
    [][record.status \in {"succeeded", "in_doubt"} => record' = record]_vars

(* A retry never sends again a request the tool has completed. *)
CompletedNotReissued == [][crossed' \subseteq crossed \/ served = {}]_vars

(* Nobody is told of a success the tool did not report, whichever request  *)
(* wrote the record the answer was read from.                              *)
SuccessWasServed ==
    \A r \in Request : answer[r] \in {"success", "replay_success"} => served # {}

(* A live claim carries a lease that can expire, although owner and lease  *)
(* are written by different requests: a call whose holder died is never    *)
(* refused as in flight for ever.                                          *)
ActiveHasLease == record.status \in Active => record.lease # Never

(* The record and its step are written by separate statements, one blind   *)
(* and one conditional; an ended call has a step that ended the same way.  *)
StepAgrees ==
    /\ record.status \in Final => step = record.status
    /\ record.status = "rejected" => step = "canceled"
    /\ record.status = "waiting_approval" => step = "waiting_approval"

=============================================================================
