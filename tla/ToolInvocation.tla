--------------------------- MODULE ToolInvocation ---------------------------
(***************************************************************************)
(* The tool invocation service (kernel/runtime/tools/invocation.py): one   *)
(* idempotency key, the run its first request opens, the approval the call *)
(* may need, and the requests that repeat the key.  The gateway's part of  *)
(* each request is ToolCallLedger; this module adds what the service does  *)
(* before and after it.                                                    *)
(*                                                                         *)
(* The first request is the starter; the key is known to the others once   *)
(* the call has a record.  One action is one transaction.                  *)
(***************************************************************************)
EXTENDS ToolCallLedger

CONSTANT Starter    \* the request that finds no record of the key

ASSUME StarterAssumption ==
    /\ Starter \in Request
    /\ Resumer = Request \ {Starter}

VARIABLES
    gated,      \* the tool's policy requires approval
    run,        \* status of the runs row, "none" before it exists
    decision,   \* the approval of the call
    stage,      \* where each request is in the service
    finish,     \* requests called with finish_run
    told        \* what the service answered

serviceVars == <<gated, run, decision, stage, finish, told>>
allVars == <<vars, serviceVars>>

Stage == {"idle", "started", "gate", "prepared", "opening", "approved",
          "called", "rejecting", "canceling", "refused", "returning",
          "failing", "over", "dead"}

ServiceTypeOK ==
    /\ TypeOK
    /\ gated \in BOOLEAN
    /\ run \in RunStatus \cup {"none"}
    /\ decision \in {"none", "pending", "approved", "rejected"}
    /\ stage \in [Request -> Stage]
    /\ finish \subseteq Request
    /\ told \in [Request -> {"none", "waiting", "rejected", "result", "error"}]

ServiceInit ==
    /\ Init
    /\ gated \in BOOLEAN
    /\ run = "none"
    /\ decision = "none"
    /\ stage = [r \in Request |-> "idle"]
    /\ finish = {}
    /\ told = [r \in Request |-> "none"]

To(r, s) == stage' = [stage EXCEPT ![r] = s]

Tell(r, a) == To(r, "over") /\ told' = [told EXCEPT ![r] = a]

(* update_run_status of a session that has just loaded the run. *)
MoveRun(target) == ConditionalMove(RunTransitions, run, run, target)

-----------------------------------------------------------------------------
(* _start *)

Start(r) ==
    /\ r = Starter /\ stage[r] = "idle"
    /\ run' = "running"
    /\ To(r, "started")
    /\ UNCHANGED <<vars, gated, decision, finish, told>>

QuotaRefused(r) ==
    /\ stage[r] = "started"
    /\ To(r, "failing")
    /\ UNCHANGED <<vars, gated, run, decision, finish, told>>

CallUngated(r) ==
    /\ stage[r] = "started" /\ ~gated
    /\ To(r, "called")
    /\ finish' = finish \cup {r}
    /\ UNCHANGED <<vars, gated, run, decision, told>>

(* _wait_for_approval: the call's record, the run and the approval are     *)
(* three transactions.                                                     *)
Prepare(r) ==
    /\ stage[r] = "started" /\ gated
    /\ PrepareWaitingApproval(r)
    /\ To(r, "prepared")
    /\ UNCHANGED <<gated, run, decision, finish, told>>

RunWaits(r) ==
    /\ stage[r] = "prepared"
    /\ run' = ConditionalMove(RunTransitions, "running", run, "waiting_approval").row
    /\ To(r, "opening")
    /\ UNCHANGED <<vars, gated, decision, finish, told>>

OpenApproval(r) ==
    /\ stage[r] = "opening"
    /\ \/ decision' = "pending" /\ Tell(r, "waiting")
       \/ To(r, "failing") /\ UNCHANGED <<decision, told>>
    /\ UNCHANGED <<vars, gated, run, finish>>

(* Somebody decides; the approval's own lifecycle is elsewhere. *)
Decide ==
    /\ decision = "pending"
    /\ decision' \in {"approved", "rejected"}
    /\ UNCHANGED <<vars, gated, run, stage, finish, told>>

-----------------------------------------------------------------------------
(* _continue: what the record and the decision say when the request looks. *)

FindRejected(r) ==
    /\ r # Starter /\ stage[r] = "idle" /\ record.status = "rejected"
    /\ Tell(r, "rejected")
    /\ UNCHANGED <<vars, gated, run, decision, finish>>

FindUndecided(r) ==
    /\ r # Starter /\ stage[r] = "idle" /\ record.status = "waiting_approval"
    /\ decision \in {"none", "pending"}
    /\ Tell(r, "waiting")
    /\ UNCHANGED <<vars, gated, run, decision, finish>>

(* Mutant: whatever is no longer pending is approved. *)
FindDecided_NotPending(r) ==
    /\ r # Starter /\ stage[r] = "idle" /\ record.status = "waiting_approval"
    /\ decision # "pending"
    /\ To(r, "approved")
    /\ UNCHANGED <<vars, gated, run, decision, finish, told>>

FindDecided(r) ==
    /\ r # Starter /\ stage[r] = "idle" /\ record.status = "waiting_approval"
    /\ \/ decision = "approved" /\ To(r, "approved")
       \/ decision = "rejected" /\ To(r, "rejecting")
    /\ UNCHANGED <<vars, gated, run, decision, finish, told>>

(* A call past its approval: replayed, refused, or taken over. *)
FindStarted(r) ==
    /\ r # Starter /\ stage[r] = "idle"
    /\ record.status \notin {"absent", "rejected", "waiting_approval"}
    /\ To(r, "called")
    /\ UNCHANGED <<vars, gated, run, decision, finish, told>>

(* The run is set running before the call is claimed, and committed. *)
ResumeRun(r) ==
    /\ stage[r] = "approved"
    /\ IF MoveRun("running").ok
       THEN run' = MoveRun("running").row /\ finish' = finish \cup {r}
            /\ To(r, "called") /\ UNCHANGED told
       ELSE Tell(r, "error") /\ UNCHANGED <<run, finish>>
    /\ UNCHANGED <<vars, gated, decision>>

Reject(r) ==
    /\ stage[r] = "rejecting"
    /\ RejectApproval(r)
    /\ IF record.status = "waiting_approval"
       THEN To(r, "canceling") /\ UNCHANGED told
       ELSE Tell(r, "error")
    /\ UNCHANGED <<gated, run, decision, finish>>

CancelRun(r) ==
    /\ stage[r] = "canceling"
    /\ run' = MoveRun("canceled").row
    /\ Tell(r, IF MoveRun("canceled").ok THEN "rejected" ELSE "error")
    /\ UNCHANGED <<vars, gated, decision, finish>>

-----------------------------------------------------------------------------
(* _execute: the gateway, then the run. *)

InGateway(r) ==
    /\ stage[r] = "called"
    /\ Invoke(r)
    /\ UNCHANGED serviceVars

Returned(r) == stage[r] = "called" /\ pc[r] = "done"

(* The run is moved from the status the session cached before the call.    *)
FinishRun(r) ==
    /\ Returned(r) /\ r \in finish /\ answer[r] \in {"success", "failure"}
    /\ LET moved == ConditionalMove(RunTransitions, "running", run,
                        IF answer[r] = "success" THEN "succeeded" ELSE "failed")
       IN  /\ run' = moved.row
           /\ Tell(r, IF moved.ok THEN "result" ELSE "error")
    /\ UNCHANGED <<vars, gated, decision, finish>>

(* A replay, or a request that is not to close the run. *)
LeaveRun(r) ==
    /\ Returned(r)
    /\ \/ r \notin finish
       \/ answer[r] \in {"replay_success", "replay_failure", "replay_empty"}
    /\ Tell(r, IF answer[r] \in {"success", "failure", "replay_success",
                                 "replay_failure", "replay_empty"}
               THEN "result" ELSE "error")
    /\ UNCHANGED <<vars, gated, run, decision, finish>>

(* _settle_run reads the record afresh; what it does to the run is         *)
(* another statement, and the record may move in between.                  *)
ResumedElsewhere(r) ==
    \/ record.status = "succeeded"
    \/ record.status \in Active /\ record.owner # OwnerOf[r]

(* Mutant: only the claim's own refusal counts as somebody else's call. *)
SettleRun_NoReread(r) ==
    /\ Returned(r) /\ r \in finish
    /\ answer[r] \in {"in_flight", "in_doubt", "rejected", "conflict", "error"}
    /\ IF r # Starter /\ answer[r] = "in_flight" THEN Tell(r, "error")
       ELSE To(r, "failing") /\ UNCHANGED told
    /\ UNCHANGED <<vars, gated, run, decision, finish>>

SettleRun(r) ==
    /\ Returned(r) /\ r \in finish
    /\ answer[r] \in {"in_flight", "in_doubt", "rejected", "conflict", "error"}
    /\ CASE r # Starter /\ answer[r] = "in_flight" -> Tell(r, "error")
         [] r # Starter /\ answer[r] # "in_flight"
            /\ record.status = "waiting_approval" -> To(r, "returning") /\ UNCHANGED told
         [] r # Starter /\ answer[r] # "in_flight"
            /\ ResumedElsewhere(r) -> Tell(r, "error")
         [] OTHER -> To(r, "failing") /\ UNCHANGED told
    /\ UNCHANGED <<vars, gated, run, decision, finish>>

WaitAgain(r) ==
    /\ stage[r] = "returning"
    /\ run' = MoveRun("waiting_approval").row
    /\ Tell(r, "error")
    /\ UNCHANGED <<vars, gated, decision, finish>>

FailRun(r) ==
    /\ stage[r] = "failing"
    /\ run' = MoveRun("failed").row
    /\ Tell(r, "error")
    /\ UNCHANGED <<vars, gated, decision, finish>>

-----------------------------------------------------------------------------
(* The process dies. *)

DieInGateway(r) ==
    /\ stage[r] = "called" /\ Vanish(r)
    /\ To(r, "dead")
    /\ UNCHANGED <<gated, run, decision, finish, told>>

DieInService(r) ==
    /\ \/ stage[r] \notin {"idle", "called", "over", "dead"}
       \/ stage[r] = "called" /\ pc[r] \in {"new", "done"}
    /\ To(r, "dead")
    /\ UNCHANGED <<vars, gated, run, decision, finish, told>>

Clock == Tick /\ UNCHANGED serviceVars

(* Every request that could come has ended. *)
Quiet ==
    /\ \A r \in Request :
        \/ stage[r] \in {"over", "dead"}
        \/ stage[r] = "idle" /\ r # Starter /\ record.status = "absent"
    /\ UNCHANGED allVars

ServiceStep(r) ==
    \/ Start(r) \/ QuotaRefused(r) \/ CallUngated(r)
    \/ Prepare(r) \/ RunWaits(r) \/ OpenApproval(r)
    \/ FindRejected(r) \/ FindUndecided(r) \/ FindDecided(r) \/ FindStarted(r)
    \/ ResumeRun(r) \/ Reject(r) \/ CancelRun(r)
    \/ InGateway(r) \/ FinishRun(r) \/ LeaveRun(r) \/ SettleRun(r)
    \/ WaitAgain(r) \/ FailRun(r)
    \/ DieInGateway(r) \/ DieInService(r)

ServiceNext == Clock \/ Decide \/ Quiet \/ \E r \in Request : ServiceStep(r)

ServiceSpec == ServiceInit /\ [][ServiceNext]_allVars
-----------------------------------------------------------------------------
(* Properties *)

(* A gated call goes out only once it is approved, however many requests   *)
(* find it waiting, resume it, take it over or repeat it.                  *)
OnlyApprovedRuns == gated /\ crossed # {} => decision = "approved"

(* Why: a decision is made once, after the call was put up for it, and     *)
(* nothing but an approved call gets past waiting.                         *)
Approval ==
    /\ gated /\ record.status \notin {"absent", "waiting_approval", "rejected"}
       => decision = "approved"
    /\ \A r \in Request :
        /\ stage[r] = "approved" => decision = "approved"
        /\ gated /\ stage[r] = "called" => decision = "approved"
        /\ stage[r] \in {"started", "prepared", "opening"} =>
            r = Starter /\ decision = "none"
    /\ stage[Starter] = "idle" => decision = "none"

(* The run and every answer tell what became of the call: it succeeded     *)
(* only if the call did, is canceled only if the call was rejected, and a  *)
(* resumed one is not failed when another request brought the call to      *)
(* success; who was told of a rejection or a result can rely on it for     *)
(* good.                                                                   *)
RunTellsOutcome ==
    /\ run = "succeeded" => record.status = "succeeded"
    /\ run = "canceled" => record.status = "rejected"
    /\ gated /\ run = "failed" => record.status # "succeeded"
    /\ \A r \in Request :
        /\ told[r] = "rejected" => record.status = "rejected"
        /\ told[r] = "result" => record.status \in Final

(* When nobody died on the way and nothing is under way any more, *)
AllEnded == \A r \in Request : stage[r] = "over"

(* a resume that did not claim the call has left the run to the request    *)
(* that did: the run of a call that ended does not wait for an approval.   *)
LeftToHolder ==
    AllEnded /\ record.status \in Final => run # "waiting_approval"

=============================================================================
