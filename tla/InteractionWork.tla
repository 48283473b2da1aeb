-------------------------- MODULE InteractionWork --------------------------
(***************************************************************************)
(* One persisted interaction and the workers that execute it:              *)
(* kernel/runtime/common/lease.py, wiring/response_interaction_worker.py,  *)
(* the interaction half of kernel/runtime/responses/{service,orchestrator} *)
(* .py, adapters/agui/agent.py, and the cancel endpoint of                 *)
(* api/v1/responses/router.py.                                             *)
(*                                                                         *)
(* The row is claimed by a worker under a lease; every claim is a new      *)
(* attempt, and an attempt is an execution with a session of its own.  A   *)
(* step of an execution is one of its transactions, except that the check  *)
(* of the lease (_assert_lease) reads in a step of its own, before the     *)
(* transaction it guards: what others commit in between is not seen.  The  *)
(* session keeps the copy of the response it has (`seen'): expire_on_commit*)
(* is off, so only a lost conditional update reloads it.                   *)
(*                                                                         *)
(* Abstracted: the text of the events, reasoning and tool events, thread   *)
(* messages, usage, the task (it follows the run), approvals (a run that   *)
(* stops for one ends its interaction, see ApprovalResume).                *)
(***************************************************************************)
EXTENDS Naturals, Sequences, FiniteSets

CONSTANTS
    Workers, NoWorker,
    MaxAttempts,    \* bound on the claims
    MaxOverlap,     \* bound on them where heartbeats may starve
    MaxText         \* bound on the text events of one response

ASSUME InteractionAssumption ==
    /\ Workers # {} /\ NoWorker \notin Workers
    /\ MaxAttempts \in Nat \ {0} /\ MaxOverlap \in Nat /\ MaxText \in Nat

Attempts == 1..MaxAttempts

VARIABLES
    mode,       \* execution_json.mode of the interaction
    steady,     \* heartbeats reach the database in time
    cancelable, \* a user may cancel
    status,     \* ResponseInteraction.status
    owner,      \* .lease_owner
    lapsed,     \* .lease_expires_at has passed
    attempt,    \* .attempt_count
    bound,      \* .response_id: the attempt that created it, 0 for none
    resp,       \* Response.status, by the attempt that created it
    run,        \* its Run.status
    log,        \* its response_events
    pc, wk,     \* where each attempt is, and the worker executing it
    target,     \* the response it found bound when it came to clear up
    ok,         \* its lease check passed, its transaction is not over
    seen,       \* the response status its session has
    hasEnd,     \* it found a terminal event when it came to clear up
    rescued,    \* it is clearing up after its own failure
    hb,         \* SharedLeaseHeartbeat._claims: the attempt each worker renews
    lost,       \* the attempts whose lease-lost event is set
    up,         \* the workers that run
    cut,        \* the workers that are stopping and will release their claims
    api         \* the cancel endpoint: 0, or the response still to be told of

setting == <<mode, steady, cancelable>>
row == <<status, owner, lapsed, attempt, bound>>
outcome == <<resp, run, log>>
local == <<target, ok, seen, hasEnd, rescued>>
fleet == <<hb, lost, up, cut>>
vars == <<setting, row, outcome, pc, wk, local, fleet, api>>

-----------------------------------------------------------------------------
Ended == {"succeeded", "failed", "canceled"}
RespStatus == {"none", "running"} \cup Ended
Terminal == {"finished", "error", "stopped"}        \* RUN_FINISHED, RUN_ERROR, run_cancelled
EventKind == {"started", "text", "closed"} \cup Terminal
PC == {"none", "bind", "stream", "except", "finish",            \* direct
       "link", "loop", "answer", "close", "fail", "stopped",    \* agent
       "orphan", "clear", "rescue", "over"}
Guarded == {"bind", "stream", "finish", "answer", "close", "fail", "stopped"}

Log(r) == {log[r][i] : i \in DOMAIN log[r]}
HasTerminal(r) == \E i \in DOMAIN log[r] : log[r][i] \in Terminal
(* active_text_message_ids: a text message was started and not ended. *)
TextOpen(r) == "text" \in Log(r) /\ "closed" \notin Log(r)
Closing(r) == IF TextOpen(r) THEN <<"closed">> ELSE <<>>

Active(a) == pc[a] \notin {"none", "over"}

(* _assert_lease: judged by the attempt; a cleared owner is our release. *)
Owned(a) == attempt = a /\ owner \in {wk[a], NoWorker}

Init ==
    /\ mode \in {"direct", "agent"} /\ steady \in BOOLEAN /\ cancelable \in BOOLEAN
    /\ status = "queued" /\ owner = NoWorker /\ lapsed = FALSE
    /\ attempt = 0 /\ bound = 0
    /\ resp = [a \in Attempts |-> "none"]
    /\ run = [a \in Attempts |-> "none"]
    /\ log = [a \in Attempts |-> <<>>]
    /\ pc = [a \in Attempts |-> "none"]
    /\ wk = [a \in Attempts |-> CHOOSE w \in Workers : TRUE]
    /\ target = [a \in Attempts |-> 0]
    /\ ok = [a \in Attempts |-> FALSE]
    /\ seen = [a \in Attempts |-> "none"]
    /\ hasEnd = [a \in Attempts |-> FALSE]
    /\ rescued = [a \in Attempts |-> FALSE]
    /\ hb = [w \in Workers |-> 0]
    /\ lost = {} /\ up = Workers /\ cut = {} /\ api = 0

-----------------------------------------------------------------------------
(* The row. *)

(* update_interaction_status: written whatever the row holds; an end       *)
(* clears the lease.                                                       *)
SetStatus(s) ==
    /\ status' = s
    /\ owner' = NoWorker /\ lapsed' = FALSE
    /\ UNCHANGED <<attempt, bound>>

(* Mutants: a running row is claimed before its lease ran out, or never. *)
Claimable_Early == status \in {"queued", "running"}
Claimable_QueuedOnly == status = "queued"

Claimable == status = "queued" \/ (status = "running" /\ lapsed)

(* claim_next, and execute_claimed up to its first await: the oldest ready *)
(* row or one whose lease ran out, the attempt counted, the lease tracked. *)
(* What it will do was decided by the row it claimed.                      *)
Claim(w) ==
    /\ w \in up
    /\ Claimable
    /\ attempt < MaxAttempts /\ (steady \/ attempt < MaxOverlap)
    /\ status' = "running" /\ owner' = w /\ lapsed' = FALSE
    /\ attempt' = attempt + 1
    /\ pc' = [pc EXCEPT ![attempt'] =
                IF bound # 0 THEN "orphan"
                ELSE IF mode = "direct" THEN "bind" ELSE "link"]
    /\ wk' = [wk EXCEPT ![attempt'] = w]
    /\ target' = [target EXCEPT ![attempt'] = bound]
    /\ hb' = [hb EXCEPT ![w] = attempt']
    /\ UNCHANGED <<setting, bound, outcome, ok, seen, hasEnd, rescued, lost, up, cut, api>>

(* Time passes the expiry of a lease.  A steady heartbeat renews what it   *)
(* tracks before that happens.                                             *)
Lapse ==
    /\ status = "running" /\ owner # NoWorker /\ ~lapsed
    /\ steady => hb[owner] = 0
    /\ lapsed' = TRUE
    /\ UNCHANGED <<setting, status, owner, attempt, bound, outcome, pc, wk, local, fleet, api>>

(* SharedLeaseHeartbeat.renew_once over lease.renew_leases: the UPDATE     *)
(* extends the row of this worker whatever its attempt, the returned       *)
(* attempt tells whether it is still the tracked one.                      *)
Renew(w) ==
    LET a == hb[w]
        extended == owner = w /\ status = "running"
        ours == owner = w /\ attempt = a
    IN  /\ w \in up /\ a # 0
        /\ lapsed' = IF extended THEN FALSE ELSE lapsed
        /\ lost' = IF ours THEN lost ELSE lost \cup {a}
        /\ hb' = IF ours /\ extended THEN hb ELSE [hb EXCEPT ![w] = 0]
        /\ UNCHANGED <<setting, status, owner, attempt, bound, outcome, pc, wk, local,
                       up, cut, api>>

-----------------------------------------------------------------------------
(* The end of an execution: execute_claimed's finally untracks the row.    *)
Untrack(a) == hb' = [hb EXCEPT ![wk[a]] = 0]

Leave(a) ==
    /\ pc' = [pc EXCEPT ![a] = "over"]
    /\ Untrack(a)
    /\ UNCHANGED <<setting, wk, local, lost, up, cut>>

Goto(a, p) ==
    /\ pc' = [pc EXCEPT ![a] = p]
    /\ ok' = [ok EXCEPT ![a] = FALSE]
    /\ UNCHANGED <<setting, wk, target, hasEnd, rescued, fleet>>

(* _assert_lease before the next event.  A lost lease raises: the session  *)
(* is rolled back, and the guard of execute_claimed, which compares the    *)
(* attempt too, touches nothing.                                           *)
AssertLease(a) ==
    /\ pc[a] \in Guarded /\ ~ok[a]
    /\ IF Owned(a)
       THEN /\ ok' = [ok EXCEPT ![a] = TRUE]
            /\ UNCHANGED <<setting, row, outcome, pc, wk, target, seen, hasEnd, rescued, fleet, api>>
       ELSE Leave(a) /\ UNCHANGED <<row, outcome, api>>

(* The heartbeat found the lease lost: the execution is cancelled, its     *)
(* open transaction rolled back.                                           *)
LeaseLost(a) ==
    /\ Active(a) /\ a \in lost
    /\ Leave(a)
    /\ UNCHANGED <<row, outcome, api>>

-----------------------------------------------------------------------------
(* Direct execution: execute_interaction_stream. *)

(* create_response, create_interaction on a row read unbound, mark_running,*)
(* run_started: one transaction.                                           *)
BindDirect(a) ==
    /\ mode = "direct" /\ pc[a] = "bind" /\ ok[a]
    /\ resp' = [resp EXCEPT ![a] = "running"]
    /\ run' = [run EXCEPT ![a] = "running"]
    /\ log' = [log EXCEPT ![a] = <<"started">>]
    /\ bound' = a /\ status' = "running"
    /\ seen' = [seen EXCEPT ![a] = "running"]
    /\ Goto(a, "stream")
    /\ UNCHANGED <<owner, lapsed, attempt, api>>

(* interaction_was_canceled asks get_response, which answers from the      *)
(* identity map.                                                           *)
PollCanceled(a) == seen[a] = "canceled"

(* A chunk of the model's answer. *)
StreamText(a) ==
    /\ pc[a] = "stream" /\ ok[a]
    /\ ~PollCanceled(a)
    /\ Len(SelectSeq(log[a], LAMBDA e : e = "text")) < MaxText
    /\ log' = [log EXCEPT ![a] = Append(@, "text")]
    /\ ok' = [ok EXCEPT ![a] = FALSE]
    /\ UNCHANGED <<setting, row, resp, run, pc, wk, target, seen, hasEnd, rescued, fleet, api>>

(* The poll of a chunk, or the one after an error, finds the response      *)
(* canceled.                                                               *)
StreamStops(a) ==
    /\ pc[a] \in {"stream", "except"} /\ ok[a]
    /\ PollCanceled(a)
    /\ SetStatus("canceled")
    /\ Leave(a)
    /\ UNCHANGED <<outcome, api>>

(* The model, a tool or the database fails. *)
StreamFails(a) ==
    /\ pc[a] = "stream" /\ ok[a]
    /\ pc' = [pc EXCEPT ![a] = "except"]
    /\ UNCHANGED <<setting, row, outcome, wk, local, fleet, api>>

(* Mutant: the response is completed whatever it has become. *)
CompleteResponse_Blind(a) ==
    /\ pc[a] = "stream" /\ ok[a]
    /\ ~PollCanceled(a)
    /\ resp' = [resp EXCEPT ![a] = "succeeded"]
    /\ seen' = [seen EXCEPT ![a] = "succeeded"]
    /\ log' = [log EXCEPT ![a] = @ \o <<"text", "closed">>]
    /\ Goto(a, "finish")
    /\ UNCHANGED <<row, run, api>>

(* complete_response, conditional on the cached status, and text_ended. *)
CompleteResponse(a) ==
    /\ pc[a] = "stream" /\ ok[a]
    /\ ~PollCanceled(a)
    /\ IF resp[a] = seen[a]
       THEN /\ resp' = [resp EXCEPT ![a] = "succeeded"]
            /\ seen' = [seen EXCEPT ![a] = "succeeded"]
            /\ log' = [log EXCEPT ![a] = @ \o <<"text", "closed">>]
            /\ Goto(a, "finish")
            /\ UNCHANGED <<row, run, api>>
       ELSE /\ seen' = [seen EXCEPT ![a] = resp[a]]
            /\ pc' = [pc EXCEPT ![a] = "except"]
            /\ UNCHANGED <<setting, row, outcome, wk, target, ok, hasEnd, rescued, fleet, api>>

(* The except clause: an ended response is raised further, any other one   *)
(* is failed with its run and its interaction.                             *)
StreamExcept(a) ==
    /\ pc[a] = "except" /\ ~PollCanceled(a)
    /\ IF seen[a] \in Ended \/ resp[a] \in {"succeeded", "canceled"}
       THEN /\ pc' = [pc EXCEPT ![a] = "rescue"]
            /\ UNCHANGED <<setting, row, outcome, wk, local, fleet, api>>
       ELSE /\ resp' = [resp EXCEPT ![a] = "failed"]
            /\ run' = [run EXCEPT ![a] = "failed"]
            /\ log' = [log EXCEPT ![a] = Append(@, "error")]
            /\ SetStatus("failed")
            /\ Leave(a)
            /\ UNCHANGED api

(* The run and the interaction succeed, RUN_FINISHED. *)
FinishDirect(a) ==
    /\ pc[a] = "finish" /\ ok[a]
    /\ IF run[a] = "running"
       THEN /\ run' = [run EXCEPT ![a] = "succeeded"]
            /\ log' = [log EXCEPT ![a] = Append(@, "finished")]
            /\ SetStatus("succeeded")
            /\ Leave(a)
            /\ UNCHANGED <<resp, api>>
       ELSE /\ Goto(a, "rescue")
            /\ UNCHANGED <<row, outcome, seen, api>>

-----------------------------------------------------------------------------
(* Agent execution: execute_agent_streaming and its event emitter. *)

(* The run, the task and the response are created and committed before     *)
(* the interaction knows them.                                             *)
LinkAgent(a) ==
    /\ pc[a] = "link"
    /\ resp' = [resp EXCEPT ![a] = "running"]
    /\ run' = [run EXCEPT ![a] = "running"]
    /\ seen' = [seen EXCEPT ![a] = "running"]
    /\ Goto(a, "bind")
    /\ UNCHANGED <<row, log, api>>

LinkFails(a) ==
    /\ pc[a] = "link"
    /\ Goto(a, "rescue")
    /\ UNCHANGED <<row, outcome, seen, api>>

(* PersistentAgUiAgentEmitter.bind_response, create_interaction on a row   *)
(* read unbound.                                                           *)
BindAgent(a) ==
    /\ mode = "agent" /\ pc[a] = "bind" /\ ok[a]
    /\ bound' = a /\ status' = "running"
    /\ log' = [log EXCEPT ![a] = Append(@, "started")]
    /\ Goto(a, "loop")
    /\ UNCHANGED <<owner, lapsed, attempt, resp, run, seen, api>>

(* _ensure_run_active reads the run itself at each boundary of the loop;   *)
(* or a model call fails first.                                            *)
AgentLoop(a) ==
    /\ pc[a] = "loop"
    /\ \/ Goto(a, IF run[a] = "canceled" THEN "stopped" ELSE "answer")
       \/ Goto(a, "fail")
    /\ UNCHANGED <<row, outcome, seen, api>>

(* agent.response.succeeded: the text is staged and committed. *)
AgentAnswer(a) ==
    /\ pc[a] = "answer" /\ ok[a]
    /\ log' = [log EXCEPT ![a] = Append(@, "text")]
    /\ Goto(a, "close")
    /\ UNCHANGED <<row, resp, run, seen, api>>

(* The run, the task, the response and the interaction succeed in one      *)
(* transaction, with RUN_FINISHED; a run someone else ended makes it fail. *)
AgentClose(a) ==
    /\ pc[a] = "close" /\ ok[a]
    /\ IF run[a] = "running" /\ resp[a] = "running"
       THEN /\ run' = [run EXCEPT ![a] = "succeeded"]
            /\ resp' = [resp EXCEPT ![a] = "succeeded"]
            /\ log' = [log EXCEPT ![a] = @ \o <<"closed", "finished">>]
            /\ SetStatus("succeeded")
            /\ Leave(a)
            /\ UNCHANGED api
       ELSE /\ Goto(a, "fail")
            /\ UNCHANGED <<row, outcome, seen, api>>

(* _emit_failure: the run and the response fail if they still can, the     *)
(* interaction is failed whatever they are.                                *)
AgentFail(a) ==
    /\ pc[a] = "fail" /\ ok[a]
    /\ resp' = [resp EXCEPT ![a] = IF @ = "running" THEN "failed" ELSE @]
    /\ run' = [run EXCEPT ![a] = IF @ = "running" THEN "failed" ELSE @]
    /\ log' = [log EXCEPT ![a] = @ \o
                (IF TextOpen(a) THEN <<"closed", "error">>
                 ELSE IF "text" \in Log(a) THEN <<"error">>
                 ELSE <<"text", "closed", "error">>)]
    /\ SetStatus("failed")
    /\ Leave(a)
    /\ UNCHANGED api

(* cancel: the terminal event is written unless one is there; without one  *)
(* to write nothing is committed.                                          *)
AgentStopped(a) ==
    /\ pc[a] = "stopped" /\ ok[a]
    /\ IF "stopped" \in Log(a)
       THEN UNCHANGED <<row, log>>
       ELSE /\ log' = [log EXCEPT ![a] = @ \o Closing(a) \o <<"stopped">>]
            /\ SetStatus("canceled")
    /\ Leave(a)
    /\ UNCHANGED <<resp, run, api>>

-----------------------------------------------------------------------------
(* Clearing up. *)

(* execute_claimed's except clause: roll back, read the row again, and act *)
(* only if it is still this attempt's and not over.                        *)
StillMine(a) == owner = wk[a] /\ attempt = a /\ status \notin Ended

Rescue(a) ==
    /\ pc[a] = "rescue"
    /\ IF StillMine(a) /\ bound # 0 /\ ~rescued[a]
       THEN /\ pc' = [pc EXCEPT ![a] = "orphan"]
            /\ target' = [target EXCEPT ![a] = bound]
            /\ rescued' = [rescued EXCEPT ![a] = TRUE]
            /\ UNCHANGED <<setting, row, outcome, wk, ok, seen, hasEnd, fleet, api>>
       ELSE /\ IF StillMine(a) /\ bound = 0
               THEN SetStatus("failed") ELSE UNCHANGED row
            /\ Leave(a)
            /\ UNCHANGED <<outcome, api>>

(* Mutant: it does not look for a terminal event. *)
FoundEnd_Never(r) == FALSE
FoundEnd(r) == HasTerminal(r)

(* _terminalize_orphan reads the response and its events; an open text is  *)
(* closed in a transaction of its own.                                     *)
OrphanRead(a) ==
    /\ pc[a] = "orphan"
    /\ seen' = [seen EXCEPT ![a] = resp[target[a]]]
    /\ hasEnd' = [hasEnd EXCEPT ![a] = FoundEnd(target[a])]
    /\ log' = [log EXCEPT ![target[a]] =
                 @ \o (IF FoundEnd(target[a]) THEN <<>> ELSE Closing(target[a]))]
    /\ pc' = [pc EXCEPT ![a] = "clear"]
    /\ UNCHANGED <<setting, row, resp, run, wk, target, ok, rescued, fleet, api>>

EndEvent(a) == CASE seen[a] = "succeeded" -> "finished"
                 [] seen[a] = "canceled"  -> "stopped"
                 [] OTHER                 -> "error"

(* Mutant: the interaction failed, whatever its response says. *)
Verdict_Failed(a) == "failed"
Verdict(a) == IF seen[a] \in {"succeeded", "canceled"} THEN seen[a] ELSE "failed"

(* An ended response decides how the interaction ends; any other one is    *)
(* failed with its run.  The writes are committed with the terminal event, *)
(* or by the except clause that called: where neither happens they are     *)
(* lost.                                                                   *)
OrphanClear(a) ==
    LET decided == seen[a] \in {"succeeded", "canceled"}
        raised == ~decided /\ (\/ resp[target[a]] \in {"succeeded", "canceled"}
                               \/ run[target[a]] \in {"succeeded", "canceled"})
        kept == ~hasEnd[a] \/ rescued[a]
    IN  /\ pc[a] = "clear"
        /\ IF raised
           THEN /\ Goto(a, "rescue")
                /\ UNCHANGED <<row, outcome, seen, api>>
           ELSE /\ IF kept
                   THEN /\ SetStatus(Verdict(a))
                        /\ resp' = [resp EXCEPT ![target[a]] = IF decided THEN @ ELSE "failed"]
                        /\ run' = [run EXCEPT ![target[a]] = IF decided THEN @ ELSE "failed"]
                        /\ log' = [log EXCEPT ![target[a]] =
                                     IF hasEnd[a] THEN @ ELSE Append(@, EndEvent(a))]
                   ELSE UNCHANGED <<row, outcome>>
                /\ Leave(a)
                /\ UNCHANGED api

-----------------------------------------------------------------------------
(* The cancel endpoint: response, run and interaction in one transaction,  *)
(* with the terminal event; where a text is open its end is committed      *)
(* first and the terminal event follows in a second one.                   *)
Cancel(r) ==
    /\ cancelable /\ api = 0
    /\ resp[r] = "running"
    /\ resp' = [resp EXCEPT ![r] = "canceled"]
    /\ run' = [run EXCEPT ![r] = IF @ = "running" THEN "canceled" ELSE @]
    /\ SetStatus("canceled")
    /\ IF TextOpen(r)
       THEN log' = [log EXCEPT ![r] = Append(@, "closed")] /\ api' = r
       ELSE log' = [log EXCEPT ![r] = Append(@, "stopped")] /\ UNCHANGED api
    /\ UNCHANGED <<setting, pc, wk, local, fleet>>

CancelTold ==
    /\ api # 0
    /\ log' = [log EXCEPT ![api] = Append(@, "stopped")]
    /\ api' = 0
    /\ UNCHANGED <<setting, row, resp, run, pc, wk, local, fleet>>

-----------------------------------------------------------------------------
(* The process. *)

Gone(w) == [a \in Attempts |-> IF wk[a] = w /\ Active(a) THEN "over" ELSE pc[a]]

(* The worker dies: its executions end where they are.  The last one up    *)
(* stays: someone runs the system.                                         *)
Crash(w) ==
    /\ w \in up /\ up # {w}
    /\ up' = up \ {w}
    /\ pc' = Gone(w)
    /\ hb' = [hb EXCEPT ![w] = 0]
    /\ UNCHANGED <<setting, row, outcome, wk, local, lost, cut, api>>

(* _drain: the executions still running are cancelled ... *)
Drain(w) ==
    /\ w \in up /\ up # {w}
    /\ up' = up \ {w}
    /\ pc' = Gone(w)
    /\ hb' = [hb EXCEPT ![w] = 0]
    /\ cut' = IF pc' # pc THEN cut \cup {w} ELSE cut
    /\ UNCHANGED <<setting, row, outcome, wk, local, lost, api>>

(* Mutant: the row is released whoever owns it by now. *)
Releasable_Any(w) == status = "running"
Releasable(w) == owner = w

(* ... and _release_claims puts their row back in the queue, if this       *)
(* worker still owns it.                                                   *)
ReleaseClaims(w) ==
    /\ w \in cut
    /\ cut' = cut \ {w}
    /\ IF Releasable(w)
       THEN SetStatus("queued") ELSE UNCHANGED row
    /\ UNCHANGED <<setting, outcome, pc, wk, local, hb, lost, up, api>>

-----------------------------------------------------------------------------
Execute(a) ==
    \/ AssertLease(a) \/ LeaseLost(a)
    \/ BindDirect(a) \/ StreamText(a) \/ StreamStops(a) \/ StreamFails(a)
    \/ CompleteResponse(a) \/ StreamExcept(a) \/ FinishDirect(a)
    \/ LinkAgent(a) \/ LinkFails(a) \/ BindAgent(a) \/ AgentLoop(a)
    \/ AgentAnswer(a) \/ AgentClose(a) \/ AgentFail(a) \/ AgentStopped(a)
    \/ Rescue(a) \/ OrphanRead(a) \/ OrphanClear(a)

Next ==
    \/ \E w \in Workers : Claim(w) \/ Renew(w) \/ Crash(w) \/ Drain(w) \/ ReleaseClaims(w)
    \/ Lapse
    \/ \E a \in Attempts : Execute(a) \/ Cancel(a)
    \/ CancelTold

(* A worker that runs polls for work and steps its executions; a lease     *)
(* nobody renews runs out; an endpoint answers what it began.              *)
Fairness ==
    /\ \A w \in Workers : WF_vars(Claim(w)) /\ WF_vars(ReleaseClaims(w))
    /\ \A a \in Attempts : WF_vars(Execute(a))
    /\ WF_vars(Lapse) /\ WF_vars(CancelTold)

Spec == Init /\ [][Next]_vars
FairSpec == Spec /\ Fairness

-----------------------------------------------------------------------------
TypeOK ==
    /\ mode \in {"direct", "agent"} /\ steady \in BOOLEAN /\ cancelable \in BOOLEAN
    /\ status \in {"queued", "running"} \cup Ended
    /\ owner \in Workers \cup {NoWorker} /\ lapsed \in BOOLEAN
    /\ attempt \in 0..MaxAttempts /\ bound \in 0..MaxAttempts
    /\ resp \in [Attempts -> RespStatus] /\ run \in [Attempts -> RespStatus]
    /\ log \in [Attempts -> Seq(EventKind)]
    /\ pc \in [Attempts -> PC] /\ wk \in [Attempts -> Workers]
    /\ target \in [Attempts -> 0..MaxAttempts]
    /\ ok \in [Attempts -> BOOLEAN] /\ seen \in [Attempts -> RespStatus]
    /\ hasEnd \in [Attempts -> BOOLEAN] /\ rescued \in [Attempts -> BOOLEAN]
    /\ hb \in [Workers -> 0..MaxAttempts] /\ lost \subseteq Attempts
    /\ up \subseteq Workers /\ cut \subseteq Workers
    /\ api \in 0..MaxAttempts

AtRest == api = 0 /\ \A a \in Attempts : ~Active(a)

(* Heartbeats arrive, and no cancellation reaches an agent, whose emitter  *)
(* overwrites it (see CanceledStaysCanceled).                              *)
Tame == steady /\ (mode = "agent" => ~cancelable)

(* As long as heartbeats arrive in time, an interaction has one execution, *)
(* whatever crashes, shutdowns and reclaims there were, and its worker     *)
(* renews the lease for it until the row is taken out of its hands.        *)
OneExecutor ==
    steady => \A a \in Attempts : Active(a) =>
        /\ \A b \in Attempts : Active(b) => a = b
        /\ attempt = a
        /\ owner = wk[a] => hb[wk[a]] = a

(* Once everyone is done, the interaction ended the way its response did:  *)
(* the row is written without a look at it, the response is not.           *)
OutcomeAgrees ==
    Tame /\ AtRest /\ status \in Ended /\ bound # 0 => status = resp[bound]

(* The run ends as its response does, however many executions overlap.     *)
(* The one exception is a worker lost between the two transactions that    *)
(* end a direct interaction: clearing up after it leaves the run running.  *)
RunFollowsResponse ==
    AtRest /\ status \in Ended /\ bound # 0 =>
        \/ run[bound] = resp[bound]
        \/ run[bound] = "running" /\ mode = "direct" /\ attempt > 1
           /\ resp[bound] = "succeeded"

(* A reader sees one response of an interaction end, and a response that   *)
(* nobody canceled ends with its terminal event.  A canceled one has one   *)
(* terminal event, unless its text was open: then the endpoint tells of    *)
(* the end in a second transaction, and the one clearing up may do so too. *)
TerminalsOf(r) == {i \in DOMAIN log[r] : log[r][i] \in Terminal}

SingleTerminal ==
    Tame =>
        /\ \A r, s \in Attempts : HasTerminal(r) /\ HasTerminal(s) => r = s
        /\ \A r \in Attempts : resp[r] # "canceled" => TerminalsOf(r) \subseteq {Len(log[r])}
        /\ \A r \in Attempts : \A i, j \in TerminalsOf(r) :
               i < j => \E k \in 1..(i - 1) : log[r][k] = "closed"

(* Of the executor, the cancelling user and the one clearing up, the first *)
(* to end a response decides.                                              *)
ResponseFinal ==
    [][\A r \in Attempts : resp[r] \in Ended => resp'[r] = resp[r]]_vars

(* The fence: an attempt that was superseded and has a transaction ahead of*)
(* it never begins that transaction, even where the same worker made the   *)
(* newer attempt.                                                          *)
SupersededStops ==
    [][\A a \in Attempts :
         attempt # a /\ pc[a] \in Guarded /\ ~ok[a] =>
             ~ok'[a] /\ pc'[a] \in {pc[a], "over"}]_vars

(* The interaction is a leased work row, where nothing overruns it. *)
Work == INSTANCE LeasedWork WITH
    phase <- IF ~Tame \/ status = "queued" THEN "ready"
             ELSE IF status = "running" THEN "held" ELSE "over",
    attempt <- IF Tame THEN attempt ELSE 0,
    live <- IF Tame /\ \E a \in Attempts : Active(a)
            THEN CHOOSE a \in Attempts : Active(a) ELSE 0

ImplementsLeasedWork == Work!WorkSpec

(* Every interaction accepted is answered one way or the other. *)
EveryInteractionEnds == Tame => <>[](status \in Ended)

-----------------------------------------------------------------------------
(* What the source says of cancellation and of the heartbeat, and the code *)
(* does not do.                                                            *)

(* "A canceled interaction stops reading mid-stream" (orchestrator.py): a  *)
(* chunk read after the cancellation was committed stores no text.         *)
CanceledStopsReading ==
    [][\A a \in Attempts :
         pc[a] = "stream" /\ resp[a] = "canceled" => log'[a] = log[a]]_vars

(* "the single cancellation terminal for this interaction" (adapters/agui/ *)
(* agent.py): a canceled interaction has one terminal event, and that one  *)
(* says it was canceled.                                                   *)
CanceledStaysCanceled ==
    \A r \in Attempts :
        resp[r] = "canceled" => Len(SelectSeq(log[r], LAMBDA e : e \in Terminal)) <= 1

(* "Renew every lease this worker holds" (SharedLeaseHeartbeat): an        *)
(* execution that holds the lease is renewed.                              *)
HeldIsRenewed ==
    \A a \in Attempts :
        Active(a) /\ attempt = a /\ owner = wk[a] => hb[wk[a]] # 0

=============================================================================
