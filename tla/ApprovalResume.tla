--------------------------- MODULE ApprovalResume ---------------------------
(***************************************************************************)
(* A workflow run that stops for approvals, and everybody who has a say in *)
(* how it goes on: members who decide a request, the sweepers that close   *)
(* one nobody decided (modules/observe/application), the consumer of the   *)
(* decision's event that claims the run inside the dispatcher's            *)
(* transaction and continues it on the server (wiring/                     *)
(* workflow_approval_resume.py, workflow_redrive.py), the member who       *)
(* resumes it by hand, the user who ends it, and the reaper.               *)
(*                                                                         *)
(* Two rows tell where the run is: the run itself and its workflow run.    *)
(* An execution writes both from copies it read when it began, in two      *)
(* commits; everybody else compares what he read.                          *)
(***************************************************************************)
EXTENDS Naturals, FiniteSets

CONSTANTS
    Member,         \* members who decide requests
    Nobody,
    MaxRequests,    \* bound: calls of the run that stop for an approval
    MaxExecutions,  \* bound: executions of the run, the first included
    MaxFaults       \* bound: processes lost and transactions rolled back

Request == 1..MaxRequests
Execution == 1..MaxExecutions

ASSUME ResumeAssumption ==
    /\ Nobody \notin Member
    /\ MaxRequests \in Nat /\ MaxExecutions \in Nat \ {0} /\ MaxFaults \in Nat

VARIABLES
    approval,   \* [Request -> its status]
    overdue,    \* the requests whose deadline has passed
    lock,       \* [Request -> the member whose transaction holds its row]
    closings,   \* [Request -> decisions recorded in its history]
    event,      \* [Request -> the outbox row of its closing]
    run,        \* status of the run
    work,       \* the workflow run
    parked,     \* the requests whose step waits for them
    tick,       \* the dispatcher's transaction
    exec,       \* [Execution -> what it is at]
    begun,      \* executions there have been
    called,     \* [Request -> how often its call was made]
    faults

vars == <<approval, overdue, lock, closings, event, run, work, parked, tick,
          exec, begun, called, faults>>

requests == <<approval, overdue, lock, closings, event>>

Closed == {"approved", "rejected", "canceled", "expired"}
Ended == {"succeeded", "failed", "canceled"}

(* waiting is the request the checkpoint names, owner the execution whose  *)
(* claim stands (lease_owner), 0 for none.                                 *)
Work == [status : {"running", "waiting_approval", "queued", "failed", "succeeded"},
         owner : 0..MaxExecutions, leased : BOOLEAN, waiting : 0..MaxRequests]

(* What a tick has staged: the claim of execution claim for request of,    *)
(* and whether the savepoint of its checkpoint was released.               *)
Tick == [of : 0..MaxRequests, claim : 0..MaxExecutions, released : BOOLEAN]
Idle == [of |-> 0, claim |-> 0, released |-> FALSE]

Phase == {"none", "reading", "begun", "ready", "running", "asked", "stopped", "over", "lost"}

(* call is the request it is for, verdict how that was decided when it was *)
(* prepared, outcome the status it still has to give the run.              *)
Exec == [phase : Phase, byHand : BOOLEAN, call : 0..MaxRequests,
         verdict : Closed \cup {"none"}, outcome : {"none", "waiting_approval", "failed", "succeeded"}]

NotYet == [phase |-> "none", byHand |-> FALSE, call |-> 0, verdict |-> "none", outcome |-> "none"]

TypeOK ==
    /\ approval \in [Request -> {"none", "pending"} \cup Closed]
    /\ overdue \subseteq Request
    /\ lock \in [Request -> Member \cup {Nobody}]
    /\ closings \in [Request -> Nat]
    /\ event \in [Request -> {"none", "pending", "done"}]
    /\ run \in {"running", "waiting_approval"} \cup Ended
    /\ work \in Work
    /\ parked \subseteq Request
    /\ tick \in Tick
    /\ exec \in [Execution -> Exec]
    /\ begun \in Execution
    /\ called \in [Request -> Nat]
    /\ faults \in 0..MaxFaults

Init ==
    /\ approval = [r \in Request |-> "none"] /\ overdue = {}
    /\ lock = [r \in Request |-> Nobody]
    /\ closings = [r \in Request |-> 0] /\ event = [r \in Request |-> "none"]
    /\ run = "running"
    /\ work = [status |-> "running", owner |-> 1, leased |-> TRUE, waiting |-> 0]
    /\ parked = {} /\ tick = Idle
    /\ exec = [e \in Execution |-> IF e = 1 THEN [NotYet EXCEPT !.phase = "running"] ELSE NotYet]
    /\ begun = 1 /\ called = [r \in Request |-> 0] /\ faults = 0

-----------------------------------------------------------------------------
(* Requests: decided, delegated to time, closed with their run.            *)

(* One entry in the history and one event with it, in one commit. *)
Close(r, status) ==
    /\ approval' = [approval EXCEPT ![r] = status]
    /\ closings' = [closings EXCEPT ![r] = @ + 1]
    /\ event' = [event EXCEPT ![r] = "pending"]

Lapse(r) ==
    /\ approval[r] = "pending" /\ r \notin overdue
    /\ overdue' = overdue \cup {r}
    /\ UNCHANGED <<approval, lock, closings, event, run, work, parked, tick, exec, begun, called, faults>>

(* lock_by_ids: a member's transaction has the row, read under the lock. *)
LockRequest(m, r) ==
    /\ approval[r] # "none" /\ lock[r] = Nobody
    /\ lock' = [lock EXCEPT ![r] = m]
    /\ UNCHANGED <<approval, overdue, closings, event, run, work, parked, tick, exec, begun, called, faults>>

(* MUTANT of Resolve: what was decided before is not looked at. *)
Resolve_Blind(m, r) ==
    /\ lock[r] = m
    /\ lock' = [lock EXCEPT ![r] = Nobody]
    /\ IF r \in overdue THEN Close(r, "expired")
       ELSE \E status \in {"approved", "rejected", "canceled"} : Close(r, status)
    /\ UNCHANGED <<overdue, run, work, parked, tick, exec, begun, called, faults>>

(* resolve_approval: a request past its deadline is closed as expired      *)
(* instead, one that is closed stays as it is, whatever is asked for.      *)
Resolve(m, r) ==
    /\ lock[r] = m
    /\ lock' = [lock EXCEPT ![r] = Nobody]
    /\ IF approval[r] \in Closed THEN UNCHANGED <<approval, closings, event>>
       ELSE IF r \in overdue THEN Close(r, "expired")
       ELSE \E status \in {"approved", "rejected", "canceled"} : Close(r, status)
    /\ UNCHANGED <<overdue, run, work, parked, tick, exec, begun, called, faults>>

(* The transaction ends with the request as it was: the member may not     *)
(* decide it, hands it to another, or is refused the handing over.         *)
LetGo(m, r) ==
    /\ lock[r] = m
    /\ lock' = [lock EXCEPT ![r] = Nobody]
    /\ UNCHANGED <<approval, overdue, closings, event, run, work, parked, tick, exec, begun, called, faults>>

(* expire_overdue_approvals; a row that is locked is skipped. *)
Expire(r) ==
    /\ approval[r] = "pending" /\ r \in overdue /\ lock[r] = Nobody
    /\ Close(r, "expired")
    /\ UNCHANGED <<overdue, lock, run, work, parked, tick, exec, begun, called, faults>>

(* MUTANT of CloseOfEnded: only canceled runs are looked at. *)
CloseOfEnded_CanceledOnly(r) ==
    /\ approval[r] = "pending" /\ run = "canceled" /\ lock[r] = Nobody
    /\ Close(r, "canceled")
    /\ UNCHANGED <<overdue, lock, run, work, parked, tick, exec, begun, called, faults>>

(* close_approvals_of_ended_runs *)
CloseOfEnded(r) ==
    /\ approval[r] = "pending" /\ run \in Ended /\ lock[r] = Nobody
    /\ Close(r, "canceled")
    /\ UNCHANGED <<overdue, lock, run, work, parked, tick, exec, begun, called, faults>>

-----------------------------------------------------------------------------
(* The run stops, goes on and ends.                                        *)

(* The row of the workflow run is locked while a tick has a claim staged.  *)
Locked == tick.claim # 0

(* record_pending: the request is committed by a session of its own, while *)
(* the execution has yet to stop. When it cannot be written the run stops  *)
(* all the same.                                                           *)
Ask(e) ==
    /\ exec[e].phase = "running" /\ exec[e].call < MaxRequests
    /\ LET r == exec[e].call + 1 IN
        /\ approval[r] = "none"
        /\ exec' = [exec EXCEPT ![e].phase = "asked", ![e].call = r]
        /\ approval' = [approval EXCEPT ![r] = "pending"]
    /\ UNCHANGED <<overdue, lock, closings, event, run, work, parked, tick, begun, called, faults>>

AskInVain(e) ==
    /\ exec[e].phase = "running" /\ exec[e].call < MaxRequests
    /\ approval[exec[e].call + 1] = "none" /\ faults < MaxFaults
    /\ exec' = [exec EXCEPT ![e].phase = "asked", ![e].call = @ + 1]
    /\ faults' = faults + 1
    /\ UNCHANGED <<approval, overdue, lock, closings, event, run, work, parked, tick, begun, called>>

(* The engine's last write of the workflow run, whatever it is by now. *)
StopRow(e) ==
    /\ ~Locked
    /\ \/ /\ exec[e].phase = "asked"
          /\ work' = [work EXCEPT !.status = "waiting_approval", !.owner = 0, !.leased = FALSE,
                                  !.waiting = exec[e].call]
          /\ parked' = parked \cup {exec[e].call}
          /\ exec' = [exec EXCEPT ![e].phase = "stopped", ![e].outcome = "waiting_approval"]
       \/ /\ exec[e].phase = "running"
          /\ \E outcome \in {"succeeded", "failed"} :
              /\ work' = [work EXCEPT !.status = outcome, !.owner = 0, !.leased = FALSE]
              /\ exec' = [exec EXCEPT ![e].phase = "stopped", ![e].outcome = outcome]
          /\ UNCHANGED parked
    /\ UNCHANGED <<requests, run, tick, begun, called, faults>>

(* And its last write of the run, in the commit after that: transition_run *)
(* gives the cached run its new status first, so update_run_status finds   *)
(* nothing to compare.                                                     *)
StopRun(e) ==
    /\ exec[e].phase = "stopped"
    /\ run' = exec[e].outcome
    /\ exec' = [exec EXCEPT ![e].phase = "over"]
    /\ UNCHANGED <<requests, work, parked, tick, begun, called, faults>>

(* cancel_run and fail_run compare, and touch only the run. *)
EndByUser ==
    /\ run \in {"running", "waiting_approval"}
    /\ run' \in {"canceled", "failed"}
    /\ UNCHANGED <<requests, work, parked, tick, exec, begun, called, faults>>

-----------------------------------------------------------------------------
(* Going on by hand.                                                       *)

(* resume_run and the reads of prepare_approval_resume: the run waits, and *)
(* the request of its checkpoint has been decided.                         *)
ResumeRead ==
    /\ begun < MaxExecutions
    /\ run = "waiting_approval" /\ work.waiting # 0
    /\ approval[work.waiting] \in Closed
    /\ begun' = begun + 1
    /\ exec' = [exec EXCEPT ![begun + 1] =
                   [NotYet EXCEPT !.phase = "reading", !.byHand = TRUE, !.call = work.waiting,
                                  !.verdict = approval[work.waiting]]]
    /\ UNCHANGED <<requests, run, work, parked, tick, called, faults>>

(* Its claim, a compare-and-set of the status, without a lease. *)
ResumeClaim(e) ==
    /\ exec[e].phase = "reading" /\ ~Locked
    /\ IF work.status = "waiting_approval"
       THEN /\ work' = [work EXCEPT !.status = "queued", !.owner = e, !.leased = FALSE]
            /\ exec' = [exec EXCEPT ![e].phase = "ready"]
       ELSE /\ exec' = [exec EXCEPT ![e].phase = "over"]
            /\ UNCHANGED work
    /\ UNCHANGED <<requests, run, parked, tick, begun, called, faults>>

-----------------------------------------------------------------------------
(* Going on by the decision's event.                                       *)

(* handle_workflow_approval_decision claims the run in the transaction of  *)
(* the tick, if the run waits for this very request.                       *)
Handle(r) ==
    /\ tick = Idle /\ event[r] = "pending" /\ begun < MaxExecutions
    /\ run = "waiting_approval" /\ work.status = "waiting_approval" /\ work.waiting = r
    /\ begun' = begun + 1
    /\ tick' = [of |-> r, claim |-> begun + 1, released |-> FALSE]
    /\ exec' = [exec EXCEPT ![begun + 1] = [NotYet EXCEPT !.call = r, !.verdict = approval[r]]]
    /\ UNCHANGED <<requests, run, work, parked, called, faults>>

(* Otherwise, or when the member who started the run has left, the event   *)
(* is done with.                                                           *)
HandleNothing(r) ==
    /\ tick = Idle /\ event[r] = "pending"
    /\ event' = [event EXCEPT ![r] = "done"]
    /\ UNCHANGED <<approval, overdue, lock, closings, run, work, parked, tick, exec, begun, called, faults>>

(* try_record_success releases a savepoint, and that already is the commit *)
(* the listener of the handler waits for: the continuation is started.     *)
Release ==
    /\ tick.claim # 0 /\ ~tick.released
    /\ tick' = [tick EXCEPT !.released = TRUE]
    /\ exec' = [exec EXCEPT ![tick.claim].phase = "begun"]
    /\ UNCHANGED <<requests, run, work, parked, begun, called, faults>>

TickCommits ==
    /\ tick.released
    /\ work' = [work EXCEPT !.status = "queued", !.owner = tick.claim, !.leased = TRUE]
    /\ event' = [event EXCEPT ![tick.of] = "done"]
    /\ tick' = Idle
    /\ UNCHANGED <<approval, overdue, lock, closings, run, parked, exec, begun, called, faults>>

(* Another row of the batch breaks the transaction, or the connection is   *)
(* lost: the claim and the event's end are undone, what was started is not.*)
TickFails ==
    /\ tick.claim # 0 /\ faults < MaxFaults
    /\ tick' = Idle
    /\ faults' = faults + 1
    /\ UNCHANGED <<requests, run, work, parked, exec, begun, called>>

(* MUTANT of Probe: any claim will do. *)
Probe_AnyClaim(e) ==
    /\ exec[e].phase = "begun"
    /\ exec' = [exec EXCEPT ![e].phase = IF work.status = "queued" THEN "ready" ELSE "over"]
    /\ UNCHANGED <<requests, run, work, parked, tick, begun, called, faults>>

(* _start_detached looks once, in a session of its own, whether the run is *)
(* claimed for it.                                                         *)
Probe(e) ==
    /\ exec[e].phase = "begun"
    /\ exec' = [exec EXCEPT ![e].phase =
                   IF work.status = "queued" /\ work.owner = e THEN "ready" ELSE "over"]
    /\ UNCHANGED <<requests, run, work, parked, tick, begun, called, faults>>

-----------------------------------------------------------------------------
(* Either way: the engine takes the run over and the waiting node its      *)
(* step.                                                                   *)

(* A session of its own reads both rows; the member's has them from before *)
(* and from its own claim.                                                 *)
MayEnter(e) == exec[e].byHand \/ (run = "waiting_approval" /\ work.status = "queued")

(* MUTANT of Enter: a step is taken up whatever it is at. *)
Enter_AnyStep(e) ==
    /\ exec[e].phase = "ready" /\ ~Locked /\ MayEnter(e)
    /\ LET r == exec[e].call IN
        /\ run' = "running"
        /\ parked' = parked \ {r}
        /\ \/ /\ work' = [work EXCEPT !.status = "running"]
              /\ called' = IF exec[e].verdict = "approved" THEN [called EXCEPT ![r] = @ + 1] ELSE called
              /\ exec' = [exec EXCEPT ![e].phase = "running"]
           \/ /\ exec[e].verdict # "approved"
              /\ work' = [work EXCEPT !.status = "failed", !.owner = 0, !.leased = FALSE]
              /\ exec' = [exec EXCEPT ![e].phase = "stopped", ![e].outcome = "failed"]
              /\ UNCHANGED called
    /\ UNCHANGED <<requests, tick, begun, faults>>

(* resume_workflow, _execute_workflow and the resumed node's first attempt *)
(* in one transaction. A step that does not wait any more raises, and the  *)
(* run fails; an approved call is made; any other decision fails the node, *)
(* and the run too unless it goes on without it.                           *)
Enter(e) ==
    /\ exec[e].phase = "ready" /\ ~Locked /\ MayEnter(e)
    /\ LET r == exec[e].call IN
        /\ run' = "running"
        /\ parked' = parked \ {r}
        /\ \/ /\ r \in parked
              /\ work' = [work EXCEPT !.status = "running"]
              /\ called' = IF exec[e].verdict = "approved" THEN [called EXCEPT ![r] = @ + 1] ELSE called
              /\ exec' = [exec EXCEPT ![e].phase = "running"]
           \/ /\ r \in parked => exec[e].verdict # "approved"
              /\ work' = [work EXCEPT !.status = "failed", !.owner = 0, !.leased = FALSE]
              /\ exec' = [exec EXCEPT ![e].phase = "stopped", ![e].outcome = "failed"]
              /\ UNCHANGED called
    /\ UNCHANGED <<requests, tick, begun, faults>>

(* A run that does not wait any more is not entered. *)
NotEntered(e) ==
    /\ exec[e].phase = "ready" /\ ~MayEnter(e)
    /\ exec' = [exec EXCEPT ![e].phase = "over"]
    /\ UNCHANGED <<requests, run, work, parked, tick, begun, called, faults>>

-----------------------------------------------------------------------------
(* Processes are lost.                                                     *)

Live == {"reading", "begun", "ready", "running", "asked", "stopped"}

Crash(e) ==
    /\ exec[e].phase \in Live /\ faults < MaxFaults
    /\ exec' = [exec EXCEPT ![e].phase = "lost"]
    /\ faults' = faults + 1
    /\ UNCHANGED <<requests, run, work, parked, tick, begun, called>>

(* reap_orphaned_workflow_runs: the lease of a running row ran out, for    *)
(* its execution is gone.                                                  *)
Reap ==
    /\ work.status = "running" /\ work.leased /\ ~Locked
    /\ work.owner = 0 \/ exec[work.owner].phase \notin Live
    /\ work' = [work EXCEPT !.status = "failed", !.owner = 0, !.leased = FALSE]
    /\ run' = IF run \in Ended THEN run ELSE "failed"
    /\ UNCHANGED <<requests, parked, tick, exec, begun, called, faults>>

-----------------------------------------------------------------------------
Sweep(r) == Expire(r) \/ CloseOfEnded(r)
Decide(r) == \E m \in Member : Resolve(m, r) \/ LetGo(m, r)
Dispatch == (\E r \in Request : Handle(r) \/ HandleNothing(r)) \/ Release \/ TickCommits
Proceed(e) ==
    \/ Ask(e) \/ AskInVain(e) \/ StopRow(e) \/ StopRun(e)
    \/ ResumeClaim(e) \/ Probe(e) \/ Enter(e) \/ NotEntered(e)

Next ==
    \/ \E r \in Request : Lapse(r) \/ Sweep(r) \/ Decide(r) \/ \E m \in Member : LockRequest(m, r)
    \/ Dispatch \/ TickFails
    \/ \E e \in Execution : Proceed(e) \/ Crash(e)
    \/ ResumeRead \/ EndByUser \/ Reap

Spec == Init /\ [][Next]_vars

(* Transactions that were begun end, the loops of the sweepers, the        *)
(* dispatcher and the reaper go round, executions go on. Nobody has to     *)
(* decide, to resume or to cancel.                                         *)
FairSpec ==
    /\ Spec
    /\ \A r \in Request : WF_vars(Sweep(r)) /\ WF_vars(Decide(r))
    /\ WF_vars(Dispatch) /\ WF_vars(Reap)
    /\ \A e \in Execution : WF_vars(Proceed(e))

-----------------------------------------------------------------------------
(* Properties.                                                             *)

(* "Of two concurrent decisions exactly one is taken" (resolve_approval),  *)
(* whoever takes them, and it has exactly one event.                       *)
OneDecision ==
    \A r \in Request :
        /\ closings[r] = IF approval[r] \in Closed THEN 1 ELSE 0
        /\ event[r] # "none" <=> approval[r] \in Closed

(* "Only an approved call runs", and it runs once, however often the event *)
(* arrives and whoever resumes the run by hand at the same moment.         *)
CalledOnce ==
    \A r \in Request :
        /\ called[r] <= 1
        /\ called[r] = 1 => approval[r] = "approved"

(* An execution that runs nodes has the claim, so no two do: not one that  *)
(* was started for a claim that was undone, nor one whose claim another    *)
(* has taken.                                                              *)
RunsOnItsClaim == \A e \in Execution : exec[e].phase \in {"running", "asked"} => work.owner = e

(* Members do not take a row and let it go again for ever. *)
RefusalsEnd(r) == <>[][\A m \in Member : ~LetGo(m, r)]_vars

(* A request nobody can act on any more does not wait for ever: its run    *)
(* has ended, or its deadline has passed.  The sweepers skip a row that is *)
(* locked, so members who come back to it each time could keep them off.   *)
RequestsClose ==
    \A r \in Request : RefusalsEnd(r) =>
        []((approval[r] = "pending" /\ (run \in Ended \/ r \in overdue)) =>
              <>(approval[r] # "pending" \/ (run \notin Ended /\ r \notin overdue)))

-----------------------------------------------------------------------------
(* What the source says and the code does not do.                          *)

(* "It commits with the consumer's checkpoint, and the run continues only  *)
(* once it has": a claim of the server whose process lives is taken up.    *)
ClaimIsTakenUp ==
    [](work.status = "queued" /\ work.leased /\ faults = 0 =>
          <>(work.status # "queued" \/ run \in Ended \/ faults > 0))

(* A run its user has canceled stays canceled. *)
CanceledStays == [][run = "canceled" => run' = "canceled"]_run

(* A run whose request has been decided goes on. *)
DecidedGoesOn ==
    \A r \in Request :
        [](run = "waiting_approval" /\ work.waiting = r /\ approval[r] \in Closed =>
              <>(run # "waiting_approval"))

=============================================================================
