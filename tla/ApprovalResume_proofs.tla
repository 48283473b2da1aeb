------------------------ MODULE ApprovalResume_proofs ------------------------
(***************************************************************************)
(* Proofs about the resume of a run that waits for approvals: a request is *)
(* decided once, its call is made once and only when it was approved, and  *)
(* no execution runs nodes without the claim.                              *)
(***************************************************************************)
EXTENDS ApprovalResume, TLAPS

(***************************************************************************)
(* The strengthening.  The row of the workflow run says who may be where:  *)
(* its status separates those who wait to enter it from the one who has.   *)
(***************************************************************************)

(* An execution that stops for a request knows which, and one that has     *)
(* written the row knows what to write of the run.                         *)
ExecsKnown ==
    \A e \in Execution :
        /\ exec[e].phase = "asked" => exec[e].call \in Request
        /\ exec[e].phase = "stopped" => exec[e].outcome # "none"

(* A claim that is staged is for a decided request of a run that waits,    *)
(* and its execution was not started before the savepoint was released.    *)
ClaimStaged ==
    /\ tick.released => tick.claim # 0
    /\ tick.claim # 0 =>
        /\ tick.claim <= begun
        /\ tick.of \in Request /\ event[tick.of] # "none"
        /\ work.status = "waiting_approval"
        /\ ~tick.released => exec[tick.claim].phase = "none"

(* Whoever is about to enter the run holds its claim, and so does whoever  *)
(* has entered it.                                                         *)
HoldsClaim ==
    \A e \in Execution :
        /\ exec[e].phase = "ready" => work.status = "queued" /\ work.owner = e
        /\ exec[e].phase \in {"running", "asked"} => work.status = "running" /\ work.owner = e

(* Before it enters the run, an execution that was prepared for an         *)
(* approved request still finds it approved: a decision is never changed.  *)
VerdictStands ==
    \A e \in Execution :
        exec[e].phase \in {"none", "reading", "begun", "ready"} /\ exec[e].verdict = "approved" =>
            exec[e].call \in Request /\ approval[exec[e].call] = "approved"

(* A call whose step waits, or is about to, has not been made. *)
NotYetCalled ==
    /\ \A r \in parked : called[r] = 0
    /\ \A e \in Execution : exec[e].phase = "asked" => called[exec[e].call] = 0

ResumeInv ==
    /\ TypeOK /\ ExecsKnown
    /\ OneDecision /\ ClaimStaged /\ HoldsClaim
    /\ VerdictStands /\ NotYetCalled /\ CalledOnce

-----------------------------------------------------------------------------
(* Type correctness. *)

(* A request that is closed has an entry, an event and a status. *)
LEMMA CloseType ==
    ASSUME TypeOK, NEW r \in Request, NEW status \in Closed, Close(r, status)
    PROVE  /\ approval' \in [Request -> {"none", "pending"} \cup Closed]
           /\ closings' \in [Request -> Nat]
           /\ event' \in [Request -> {"none", "pending", "done"}]
BY DEF TypeOK, Close

(* What a step makes of an execution and of the row. *)
LEMMA ExecForms ==
    ASSUME NEW x \in Exec
    PROVE  /\ \A p \in Phase : [x EXCEPT !.phase = p] \in Exec
           /\ \A p \in Phase, r \in 0..MaxRequests : [x EXCEPT !.phase = p, !.call = r] \in Exec
           /\ \A p \in Phase, o \in {"waiting_approval", "failed", "succeeded"} :
                [x EXCEPT !.phase = p, !.outcome = o] \in Exec
BY DEF Exec

LEMMA NewExecForms ==
    ASSUME NEW r \in 0..MaxRequests, NEW v \in Closed
    PROVE  /\ [NotYet EXCEPT !.call = r, !.verdict = v] \in Exec
           /\ [NotYet EXCEPT !.phase = "reading", !.byHand = TRUE, !.call = r, !.verdict = v] \in Exec
BY DEF Exec, NotYet, Phase

LEMMA WorkForms ==
    ASSUME NEW x \in Work, NEW s \in {"running", "waiting_approval", "queued", "failed", "succeeded"}
    PROVE  /\ [x EXCEPT !.status = s] \in Work
           /\ \A o \in 0..MaxExecutions, l \in BOOLEAN :
                [x EXCEPT !.status = s, !.owner = o, !.leased = l] \in Work
           /\ \A o \in 0..MaxExecutions, l \in BOOLEAN, n \in 0..MaxRequests :
                [x EXCEPT !.status = s, !.owner = o, !.leased = l, !.waiting = n] \in Work
BY DEF Work

(* The executions, when a step changes one of them. *)
LEMMA ExecType ==
    ASSUME TypeOK, ExecsKnown, NEW e \in Execution, NEW x \in Exec,
           exec' = [exec EXCEPT ![e] = x], x.phase = "stopped" => x.outcome # "none",
           x.phase = "asked" => x.call \in Request
    PROVE  exec' \in [Execution -> Exec] /\ ExecsKnown'
<1>1. exec \in [Execution -> Exec]
  BY DEF TypeOK
<1>2. exec' \in [Execution -> Exec] /\ \A f \in Execution : exec'[f] = IF f = e THEN x ELSE exec[f]
  BY <1>1
<1>. QED BY <1>2 DEF ExecsKnown

LEMMA PhaseType ==
    ASSUME TypeOK, ExecsKnown, NEW e \in Execution, NEW p \in Phase \ {"asked", "stopped"},
           exec' = [exec EXCEPT ![e].phase = p]
    PROVE  exec' \in [Execution -> Exec] /\ ExecsKnown'
<1>1. exec[e] \in Exec
  BY DEF TypeOK
<1>2. [exec[e] EXCEPT !.phase = p] \in Exec /\ [exec[e] EXCEPT !.phase = p].phase = p
  BY <1>1, ExecForms DEF Exec
<1>. QED BY <1>2, ExecType

LEMMA TypeStep == ResumeInv /\ [Next]_vars => TypeOK' /\ ExecsKnown'
<1>. SUFFICES ASSUME TypeOK, ExecsKnown, OneDecision, ClaimStaged, [Next]_vars
              PROVE  TypeOK' /\ ExecsKnown'
  BY DEF ResumeInv
<1>. USE ResumeAssumption
<1>e. \A e \in Execution : exec[e] \in Exec
  BY DEF TypeOK
<1>n. /\ \A e \in Execution : e \in 0..MaxExecutions
      /\ \A r \in Request : r \in 0..MaxRequests
      /\ 0 \in 0..MaxExecutions /\ 0 \in 0..MaxRequests
  BY DEF Execution, Request
<1>w. work \in Work
  BY DEF TypeOK
<1>1. ASSUME NEW r \in Request, Lapse(r) \/ \E m \in Member : LockRequest(m, r)
      PROVE  TypeOK' /\ ExecsKnown'
  BY <1>1 DEF TypeOK, ExecsKnown, Lapse, LockRequest
<1>2. ASSUME NEW r \in Request, Sweep(r) \/ Decide(r)
      PROVE  TypeOK' /\ ExecsKnown'
  <2>1. lock' \in [Request -> Member \cup {Nobody}]
    BY <1>2 DEF TypeOK, Sweep, Decide, Expire, CloseOfEnded, Resolve, LetGo
  <2>2. \/ \E status \in Closed : Close(r, status)
        \/ UNCHANGED <<approval, closings, event>>
    BY <1>2 DEF Sweep, Decide, Expire, CloseOfEnded, Resolve, LetGo, Closed
  <2>3. UNCHANGED <<overdue, run, work, parked, tick, exec, begun, called, faults>>
    BY <1>2 DEF Sweep, Decide, Expire, CloseOfEnded, Resolve, LetGo
  <2>. QED BY <2>1, <2>2, <2>3, CloseType DEF TypeOK, ExecsKnown
<1>3. ASSUME NEW r \in Request, HandleNothing(r) PROVE TypeOK' /\ ExecsKnown'
  BY <1>3 DEF TypeOK, ExecsKnown, HandleNothing
<1>4. ASSUME NEW r \in Request, Handle(r) PROVE TypeOK' /\ ExecsKnown'
  <2>. DEFINE x == [NotYet EXCEPT !.call = r, !.verdict = approval[r]]
  <2>1. begun + 1 \in Execution
    BY <1>4 DEF Handle, TypeOK, Execution
  <2>2. x \in Exec
    BY <1>4, <1>n, NewExecForms DEF Handle, OneDecision
  <2>3. x.phase = "none"
    BY DEF NotYet
  <2>4. exec' = [exec EXCEPT ![begun + 1] = x]
    BY <1>4 DEF Handle
  <2>5. exec' \in [Execution -> Exec] /\ ExecsKnown'
    <3>. HIDE DEF x
    <3>. QED BY <2>1, <2>2, <2>3, <2>4, ExecType
  <2>6. tick' \in Tick
    BY <1>4, <2>1, <1>n DEF Handle, Tick
  <2>. QED BY <1>4, <2>1, <2>5, <2>6 DEF Handle, TypeOK, requests
<1>5. CASE Release
  <2>1. tick.claim \in Execution
    BY <1>5 DEF Release, TypeOK, Tick, Execution
  <2>2. [exec[tick.claim] EXCEPT !.phase = "begun"] \in Exec
    BY <2>1, <1>e, ExecForms DEF Phase
  <2>3. [exec[tick.claim] EXCEPT !.phase = "begun"].phase = "begun"
    BY <2>1, <1>e DEF Exec
  <2>4. exec' \in [Execution -> Exec] /\ ExecsKnown'
    BY <1>5, <2>1, <2>2, <2>3, ExecType DEF Release
  <2>5. tick' \in Tick
    BY <1>5 DEF Release, TypeOK, Tick
  <2>. QED BY <1>5, <2>4, <2>5 DEF Release, TypeOK, requests
<1>6. CASE TickCommits \/ TickFails
  <2>1. tick' \in Tick
    <3>1. Idle \in Tick
      BY <1>n DEF Idle, Tick
    <3>. QED BY <1>6, <3>1 DEF TickCommits, TickFails
  <2>2. CASE TickCommits
    <3>1. tick.claim \in 0..MaxExecutions
      BY DEF TypeOK, Tick
    <3>2. [work EXCEPT !.status = "queued", !.owner = tick.claim, !.leased = TRUE] \in Work
      BY <3>1, <1>w, WorkForms
    <3>. QED BY <2>1, <2>2, <3>2 DEF TickCommits, TypeOK, ExecsKnown
  <2>3. CASE TickFails
    BY <2>1, <2>3 DEF TickFails, TypeOK, ExecsKnown, requests
  <2>. QED BY <1>6, <2>2, <2>3
<1>7. ASSUME NEW e \in Execution, Ask(e) \/ AskInVain(e) PROVE TypeOK' /\ ExecsKnown'
  <2>1. exec[e].call + 1 \in Request /\ exec[e].call + 1 \in 0..MaxRequests
    BY <1>7, <1>e DEF Ask, AskInVain, Exec, Request
  <2>2. [exec[e] EXCEPT !.phase = "asked", !.call = exec[e].call + 1] \in Exec
    BY <2>1, <1>e, ExecForms DEF Phase
  <2>3. exec' = [exec EXCEPT ![e] = [exec[e] EXCEPT !.phase = "asked", !.call = exec[e].call + 1]]
    BY <1>7 DEF Ask, AskInVain
  <2>4. [exec[e] EXCEPT !.phase = "asked", !.call = exec[e].call + 1].phase = "asked"
    BY <1>e DEF Exec
  <2>5. [exec[e] EXCEPT !.phase = "asked", !.call = exec[e].call + 1].call = exec[e].call + 1
    BY <1>e DEF Exec
  <2>6. exec' \in [Execution -> Exec] /\ ExecsKnown'
    BY <2>1, <2>2, <2>3, <2>4, <2>5, ExecType
  <2>. QED BY <1>7, <2>1, <2>6 DEF Ask, AskInVain, TypeOK
<1>8. ASSUME NEW e \in Execution, StopRow(e) PROVE TypeOK' /\ ExecsKnown'
  <2>1. exec[e].call \in 0..MaxRequests
    BY <1>e DEF Exec
  <2>2. PICK o \in {"waiting_approval", "failed", "succeeded"} :
            exec' = [exec EXCEPT ![e] = [exec[e] EXCEPT !.phase = "stopped", !.outcome = o]]
    BY <1>8 DEF StopRow
  <2>3. [exec[e] EXCEPT !.phase = "stopped", !.outcome = o] \in Exec
    BY <1>e, ExecForms DEF Phase
  <2>4. /\ [exec[e] EXCEPT !.phase = "stopped", !.outcome = o].phase = "stopped"
        /\ [exec[e] EXCEPT !.phase = "stopped", !.outcome = o].outcome # "none"
    BY <1>e DEF Exec
  <2>5. exec' \in [Execution -> Exec] /\ ExecsKnown'
    BY <2>2, <2>3, <2>4, ExecType
  <2>6. work' \in Work
    <3>1. [work EXCEPT !.status = "waiting_approval", !.owner = 0, !.leased = FALSE,
                       !.waiting = exec[e].call] \in Work
      BY <2>1, <1>w, <1>n, WorkForms
    <3>2. \A outcome \in {"succeeded", "failed"} :
             [work EXCEPT !.status = outcome, !.owner = 0, !.leased = FALSE] \in Work
      BY <1>w, <1>n, WorkForms
    <3>. QED BY <1>8, <3>1, <3>2 DEF StopRow
  <2>7. parked' \subseteq Request
    <3>1. exec[e].phase = "asked" => exec[e].call \in Request
      BY DEF ExecsKnown
    <3>. QED BY <1>8, <3>1 DEF StopRow, TypeOK
  <2>. QED BY <1>8, <2>5, <2>6, <2>7 DEF StopRow, TypeOK, requests
<1>9. ASSUME NEW e \in Execution, StopRun(e) PROVE TypeOK' /\ ExecsKnown'
  <2>1. run' \in {"running", "waiting_approval"} \cup Ended
    BY <1>9, <1>e DEF StopRun, ExecsKnown, Exec, Ended
  <2>2. exec' \in [Execution -> Exec] /\ ExecsKnown'
    BY <1>9, PhaseType DEF StopRun, Phase
  <2>. QED BY <1>9, <2>1, <2>2 DEF StopRun, TypeOK, requests
<1>10. CASE ResumeRead
  <2>. DEFINE x == [NotYet EXCEPT !.phase = "reading", !.byHand = TRUE, !.call = work.waiting,
                                  !.verdict = approval[work.waiting]]
  <2>1. begun + 1 \in Execution
    BY <1>10 DEF ResumeRead, TypeOK, Execution
  <2>2. work.waiting \in 0..MaxRequests
    BY <1>w DEF Work
  <2>3. x \in Exec
    BY <1>10, <2>2, NewExecForms DEF ResumeRead
  <2>4. x.phase = "reading"
    BY DEF NotYet
  <2>5. exec' = [exec EXCEPT ![begun + 1] = x]
    BY <1>10 DEF ResumeRead
  <2>6. exec' \in [Execution -> Exec] /\ ExecsKnown'
    <3>. HIDE DEF x
    <3>. QED BY <2>1, <2>3, <2>4, <2>5, ExecType
  <2>. QED BY <1>10, <2>1, <2>6 DEF ResumeRead, TypeOK, requests
<1>11. ASSUME NEW e \in Execution, ResumeClaim(e) PROVE TypeOK' /\ ExecsKnown'
  <2>1. \E p \in {"ready", "over"} : exec' = [exec EXCEPT ![e].phase = p]
    BY <1>11 DEF ResumeClaim
  <2>2. exec' \in [Execution -> Exec] /\ ExecsKnown'
    BY <2>1, PhaseType DEF Phase
  <2>3. [work EXCEPT !.status = "queued", !.owner = e, !.leased = FALSE] \in Work
    BY <1>w, <1>n, WorkForms
  <2>4. work' \in Work
    BY <1>11, <2>3, <1>w DEF ResumeClaim
  <2>. QED BY <1>11, <2>2, <2>4 DEF ResumeClaim, TypeOK, requests
<1>12. ASSUME NEW e \in Execution, Probe(e) \/ NotEntered(e) \/ Crash(e)
       PROVE  TypeOK' /\ ExecsKnown'
  <2>1. \E p \in {"ready", "over", "lost"} : exec' = [exec EXCEPT ![e].phase = p]
    BY <1>12 DEF Probe, NotEntered, Crash
  <2>2. exec' \in [Execution -> Exec] /\ ExecsKnown'
    BY <2>1, PhaseType DEF Phase
  <2>. QED BY <1>12, <2>2 DEF Probe, NotEntered, Crash, TypeOK, requests
<1>13. ASSUME NEW e \in Execution, Enter(e) PROVE TypeOK' /\ ExecsKnown'
  <2>1. exec' = [exec EXCEPT ![e].phase = "running"] => exec' \in [Execution -> Exec] /\ ExecsKnown'
    BY PhaseType DEF Phase
  <2>2. exec' = [exec EXCEPT ![e].phase = "stopped", ![e].outcome = "failed"]
            => exec' \in [Execution -> Exec] /\ ExecsKnown'
    <3>1. [exec[e] EXCEPT !.phase = "stopped", !.outcome = "failed"] \in Exec
      BY <1>e, ExecForms DEF Phase
    <3>2. /\ [exec[e] EXCEPT !.phase = "stopped", !.outcome = "failed"].phase = "stopped"
          /\ [exec[e] EXCEPT !.phase = "stopped", !.outcome = "failed"].outcome # "none"
      BY <1>e DEF Exec
    <3>3. [exec EXCEPT ![e].phase = "stopped", ![e].outcome = "failed"]
            = [exec EXCEPT ![e] = [exec[e] EXCEPT !.phase = "stopped", !.outcome = "failed"]]
      OBVIOUS
    <3>. QED BY <3>1, <3>2, <3>3, ExecType
  <2>3. exec' \in [Execution -> Exec] /\ ExecsKnown'
    BY <1>13, <2>1, <2>2 DEF Enter
  <2>4. work' \in Work
    <3>1. [work EXCEPT !.status = "running"] \in Work
      BY <1>w, WorkForms
    <3>2. [work EXCEPT !.status = "failed", !.owner = 0, !.leased = FALSE] \in Work
      BY <1>w, <1>n, WorkForms
    <3>. QED BY <1>13, <3>1, <3>2 DEF Enter
  <2>5. called' \in [Request -> Nat]
    BY <1>13 DEF Enter, TypeOK
  <2>6. parked' \subseteq Request /\ run' \in {"running", "waiting_approval"} \cup Ended
    BY <1>13 DEF Enter, TypeOK
  <2>. QED BY <1>13, <2>3, <2>4, <2>5, <2>6 DEF Enter, TypeOK, requests
<1>14. CASE EndByUser
  BY <1>14 DEF EndByUser, TypeOK, ExecsKnown, requests, Ended
<1>15. CASE Reap
  <2>1. work' \in Work
    BY <1>15, <1>w, <1>n, WorkForms DEF Reap
  <2>. QED BY <1>15, <2>1 DEF Reap, TypeOK, ExecsKnown, requests, Ended
<1>16. CASE UNCHANGED vars
  BY <1>16 DEF TypeOK, ExecsKnown, vars
<1>17. CASE \E e \in Execution : Proceed(e) \/ Crash(e)
  BY <1>17, <1>7, <1>8, <1>9, <1>11, <1>12, <1>13 DEF Proceed
<1>18. CASE Dispatch \/ TickFails
  BY <1>18, <1>3, <1>4, <1>5, <1>6 DEF Dispatch
<1>. QED BY <1>1, <1>2, <1>10, <1>14, <1>15, <1>16, <1>17, <1>18 DEF Next

-----------------------------------------------------------------------------
(* Of two decisions one is taken. *)

(* What is closed has its one entry and its event, and stays as it is. *)
LEMMA OneClose ==
    ASSUME TypeOK, OneDecision, NEW r \in Request, approval[r] \notin Closed,
           NEW status \in Closed, Close(r, status)
    PROVE  /\ OneDecision'
           /\ \A q \in Request : /\ approval[q] \in Closed => approval'[q] = approval[q]
                                 /\ event[q] # "none" => event'[q] # "none"
<1>1. \A q \in Request \ {r} :
         approval'[q] = approval[q] /\ closings'[q] = closings[q] /\ event'[q] = event[q]
  BY DEF TypeOK, Close
<1>2. approval'[r] = status /\ closings'[r] = closings[r] + 1 /\ event'[r] = "pending"
  BY DEF TypeOK, Close
<1>3. closings[r] = 0
  BY DEF OneDecision
<1>. QED BY <1>1, <1>2, <1>3 DEF OneDecision

(* A decision is never changed, nor is its event forgotten. *)
Decided ==
    \A q \in Request : /\ approval[q] \in Closed => approval'[q] = approval[q]
                       /\ event[q] # "none" => event'[q] # "none"

LEMMA DecisionStep ==
    ASSUME TypeOK, OneDecision, ClaimStaged, [Next]_vars
    PROVE  OneDecision' /\ Decided
<1>1. ASSUME NEW r \in Request, Sweep(r) \/ Decide(r) PROVE OneDecision' /\ Decided
  <2>1. \/ approval[r] \notin Closed /\ \E status \in Closed : Close(r, status)
        \/ UNCHANGED <<approval, closings, event>>
    BY <1>1 DEF Sweep, Decide, Expire, CloseOfEnded, Resolve, LetGo, Closed
  <2>. QED BY <2>1, OneClose DEF OneDecision, Decided
<1>2. ASSUME NEW e \in Execution, Ask(e) PROVE OneDecision' /\ Decided
  <2>1. PICK r : approval[r] = "none" /\ approval' = [approval EXCEPT ![r] = "pending"]
    BY <1>2 DEF Ask
  <2>2. UNCHANGED <<closings, event>>
    BY <1>2 DEF Ask
  <2>. QED BY <2>1, <2>2 DEF TypeOK, OneDecision, Decided, Closed
<1>3. CASE TickCommits \/ \E r \in Request : HandleNothing(r)
  <2>1. PICK r \in Request : event[r] # "none" /\ event' = [event EXCEPT ![r] = "done"]
    BY <1>3 DEF TickCommits, HandleNothing, ClaimStaged, Idle
  <2>2. UNCHANGED <<approval, closings>>
    BY <1>3 DEF TickCommits, HandleNothing
  <2>. QED BY <2>1, <2>2 DEF TypeOK, OneDecision, Decided
<1>4. ASSUME UNCHANGED <<approval, closings, event>> PROVE OneDecision' /\ Decided
  BY <1>4 DEF OneDecision, Decided
<1>5. ASSUME NEW r \in Request, Lapse(r) \/ Handle(r) \/ \E m \in Member : LockRequest(m, r)
      PROVE  UNCHANGED <<approval, closings, event>>
  BY <1>5 DEF Lapse, LockRequest, Handle, requests
<1>6. CASE Release \/ TickFails \/ ResumeRead \/ EndByUser \/ Reap \/ UNCHANGED vars
  BY <1>4, <1>6 DEF Release, TickFails, ResumeRead, EndByUser, Reap, vars, requests
<1>7. ASSUME NEW e \in Execution,
             \/ AskInVain(e) \/ StopRow(e) \/ StopRun(e) \/ ResumeClaim(e)
             \/ Probe(e) \/ Enter(e) \/ NotEntered(e) \/ Crash(e)
      PROVE  UNCHANGED <<approval, closings, event>>
  BY <1>7 DEF AskInVain, StopRow, StopRun, ResumeClaim, Probe, Enter, NotEntered, Crash, requests
<1>8. CASE \E e \in Execution : Proceed(e) \/ Crash(e)
  BY <1>8, <1>2, <1>4, <1>7 DEF Proceed
<1>9. CASE Dispatch \/ TickFails
  BY <1>9, <1>3, <1>4, <1>5, <1>6 DEF Dispatch
<1>. QED BY <1>1, <1>4, <1>5, <1>6, <1>8, <1>9 DEF Next

-----------------------------------------------------------------------------
(* Who holds the claim. *)

(* Execution e is the one that moves, to phase p. *)
Moves(e, p) ==
    /\ exec'[e].phase = p
    /\ \A f \in Execution \ {e} : exec'[f] = exec[f]

LEMMA ClaimStep ==
    ASSUME TypeOK, TypeOK', Decided, ClaimStaged, HoldsClaim, [Next]_vars
    PROVE  ClaimStaged' /\ HoldsClaim'
<1>t. exec \in [Execution -> Exec] /\ \A e \in Execution : exec[e] \in Exec /\ e # 0
  BY DEF TypeOK, Execution
<1>1. ASSUME NEW r \in Request,
             \/ Lapse(r) \/ Sweep(r) \/ Decide(r) \/ HandleNothing(r)
             \/ \E m \in Member : LockRequest(m, r)
      PROVE  UNCHANGED <<exec, work, tick, begun>>
  BY <1>1 DEF Lapse, Sweep, Decide, Expire, CloseOfEnded, Resolve, LetGo, HandleNothing, LockRequest
<1>2. CASE EndByUser \/ UNCHANGED vars
  BY <1>2 DEF EndByUser, vars, ClaimStaged, HoldsClaim, requests
<1>3. ASSUME UNCHANGED <<exec, work, tick, begun>> PROVE ClaimStaged' /\ HoldsClaim'
  BY <1>3 DEF ClaimStaged, HoldsClaim, Decided
<1>4. ASSUME NEW e \in Execution,
             Ask(e) \/ AskInVain(e) \/ StopRun(e) \/ Probe(e) \/ NotEntered(e) \/ Crash(e)
      PROVE  ClaimStaged' /\ HoldsClaim'
  <2>1. PICK p \in Phase :
          /\ Moves(e, p) /\ exec[e].phase # "none"
          /\ p = "ready" => work.status = "queued" /\ work.owner = e
          /\ p \in {"running", "asked"} => exec[e].phase \in {"running", "asked"}
    <3>1. CASE Ask(e) \/ AskInVain(e)
      BY <3>1, <1>t DEF Ask, AskInVain, Moves, Exec, Phase
    <3>2. CASE StopRun(e) \/ NotEntered(e) \/ Crash(e)
      BY <3>2, <1>t DEF StopRun, NotEntered, Crash, Moves, Exec, Phase, Live
    <3>3. CASE Probe(e)
      BY <3>3, <1>t DEF Probe, Moves, Exec, Phase
    <3>. QED BY <1>4, <3>1, <3>2, <3>3
  <2>2. UNCHANGED <<work, tick, begun>>
    BY <1>4 DEF Ask, AskInVain, StopRun, Probe, NotEntered, Crash
  <2>3. HoldsClaim'
    BY <2>1, <2>2 DEF HoldsClaim, Moves
  <2>4. ClaimStaged'
    <3>1. tick.claim # 0 => tick.claim \in Execution
      BY DEF TypeOK, Tick, Execution
    <3>2. tick.claim # 0 /\ ~tick.released => exec'[tick.claim] = exec[tick.claim]
      BY <2>1, <3>1 DEF ClaimStaged, Moves
    <3>. QED BY <2>2, <3>2 DEF ClaimStaged, Decided
  <2>. QED BY <2>3, <2>4
<1>5. ASSUME NEW e \in Execution, StopRow(e) PROVE ClaimStaged' /\ HoldsClaim'
  <2>1. Moves(e, "stopped") /\ exec[e].phase \in {"asked", "running"} /\ tick.claim = 0
    BY <1>5, <1>t DEF StopRow, Moves, Exec, Locked
  <2>2. UNCHANGED tick
    BY <1>5 DEF StopRow
  <2>3. \A f \in Execution \ {e} : exec[f].phase \notin {"ready", "running", "asked"}
    BY <2>1 DEF HoldsClaim
  <2>. QED BY <2>1, <2>2, <2>3 DEF ClaimStaged, HoldsClaim, Moves
<1>6. ASSUME NEW e \in Execution, ResumeClaim(e) PROVE ClaimStaged' /\ HoldsClaim'
  <2>1. tick.claim = 0 /\ UNCHANGED tick
    BY <1>6 DEF ResumeClaim, Locked
  <2>2. CASE work.status = "waiting_approval"
    <3>1. Moves(e, "ready")
      BY <1>6, <1>t, <2>2 DEF ResumeClaim, Moves, Exec
    <3>2. work'.status = "queued" /\ work'.owner = e
      BY <1>6, <2>2 DEF ResumeClaim, TypeOK, Work
    <3>. QED BY <2>1, <2>2, <3>1, <3>2 DEF ClaimStaged, HoldsClaim, Moves
  <2>3. CASE work.status # "waiting_approval"
    <3>1. Moves(e, "over") /\ UNCHANGED work
      BY <1>6, <1>t, <2>3 DEF ResumeClaim, Moves, Exec
    <3>. QED BY <2>1, <3>1 DEF ClaimStaged, HoldsClaim, Moves
  <2>. QED BY <2>2, <2>3
<1>7. ASSUME NEW e \in Execution, Enter(e) PROVE ClaimStaged' /\ HoldsClaim'
  <2>1. exec[e].phase = "ready" /\ tick.claim = 0 /\ UNCHANGED tick
    BY <1>7 DEF Enter, Locked
  <2>2. \A f \in Execution \ {e} : exec[f].phase \notin {"ready", "running", "asked"}
    BY <2>1 DEF HoldsClaim
  <2>3. \/ Moves(e, "running") /\ work'.status = "running" /\ work'.owner = e
        \/ Moves(e, "stopped")
    <3>1. work.owner = e
      BY <2>1 DEF HoldsClaim
    <3>. QED BY <1>7, <1>t, <3>1 DEF Enter, Moves, Exec, TypeOK, Work
  <2>. QED BY <2>1, <2>2, <2>3 DEF ClaimStaged, HoldsClaim, Moves
<1>8. ASSUME NEW r \in Request, Handle(r) PROVE ClaimStaged' /\ HoldsClaim'
  <2>1. begun + 1 \in Execution /\ begun' = begun + 1 /\ Moves(begun + 1, "none")
    BY <1>8, <1>t, ResumeAssumption DEF Handle, Moves, TypeOK, Execution, NotYet
  <2>2. tick' = [of |-> r, claim |-> begun + 1, released |-> FALSE] /\ UNCHANGED work
    BY <1>8 DEF Handle
  <2>3. event'[r] # "none" /\ work.status = "waiting_approval"
    BY <1>8 DEF Handle, requests
  <2>4. ClaimStaged'
    BY <2>1, <2>2, <2>3 DEF ClaimStaged, Moves, Execution
  <2>. QED BY <2>1, <2>2, <2>4 DEF HoldsClaim, Moves
<1>9. CASE ResumeRead
  <2>1. begun + 1 \in Execution /\ begun' = begun + 1 /\ Moves(begun + 1, "reading")
    BY <1>9, <1>t, ResumeAssumption DEF ResumeRead, Moves, TypeOK, Execution, NotYet
  <2>2. UNCHANGED <<tick, work>>
    BY <1>9 DEF ResumeRead
  <2>3. tick.claim \in 0..MaxExecutions
    BY DEF TypeOK, Tick
  <2>4. ClaimStaged'
    <3>1. tick.claim # 0 => tick.claim \in Execution \ {begun + 1}
      BY <2>3 DEF ClaimStaged, TypeOK, Execution
    <3>2. tick.claim # 0 => exec'[tick.claim] = exec[tick.claim]
      BY <2>1, <3>1 DEF Moves
    <3>3. tick.claim # 0 => tick.claim <= begun'
      BY <2>1, <2>3 DEF ClaimStaged, TypeOK, Execution
    <3>. QED BY <2>2, <3>2, <3>3 DEF ClaimStaged, Decided
  <2>. QED BY <2>1, <2>2, <2>4 DEF HoldsClaim, Moves
<1>10. CASE Release
  <2>1. tick.claim \in Execution
    BY <1>10 DEF Release, TypeOK, Tick, Execution
  <2>2. Moves(tick.claim, "begun") /\ UNCHANGED <<work, begun>>
    BY <1>10, <1>t, <2>1 DEF Release, Moves, Exec
  <2>3. tick'.claim = tick.claim /\ tick'.of = tick.of /\ tick'.released
    BY <1>10 DEF Release, TypeOK, Tick
  <2>. QED BY <1>10, <2>1, <2>2, <2>3 DEF Release, ClaimStaged, HoldsClaim, Moves, Decided
<1>11. CASE TickCommits
  <2>1. work.status = "waiting_approval"
    BY <1>11 DEF TickCommits, ClaimStaged
  <2>. QED BY <1>11, <2>1 DEF TickCommits, ClaimStaged, HoldsClaim, Idle
<1>12. CASE TickFails
  BY <1>12 DEF TickFails, ClaimStaged, HoldsClaim, Idle
<1>13. CASE Reap
  <2>1. tick.claim = 0 /\ UNCHANGED <<tick, exec>> /\ work.status = "running"
    BY <1>13 DEF Reap, Locked
  <2>2. \A e \in Execution : exec[e].phase \notin {"ready", "running", "asked"}
    BY <1>13, <1>t, <2>1 DEF Reap, HoldsClaim, Live
  <2>. QED BY <2>1, <2>2 DEF ClaimStaged, HoldsClaim
<1>14. CASE \E e \in Execution : Proceed(e) \/ Crash(e)
  BY <1>14, <1>4, <1>5, <1>6, <1>7 DEF Proceed
<1>15. CASE Dispatch \/ TickFails
  BY <1>15, <1>1, <1>3, <1>8, <1>10, <1>11, <1>12 DEF Dispatch
<1>. QED BY <1>1, <1>2, <1>3, <1>9, <1>13, <1>14, <1>15 DEF Next

-----------------------------------------------------------------------------
(* What is called, and how often. *)

LEMMA VerdictStep ==
    ASSUME TypeOK, TypeOK', Decided, VerdictStands, ClaimStaged, [Next]_vars
    PROVE  VerdictStands'
<1>t. exec \in [Execution -> Exec] /\ \A e \in Execution : exec[e] \in Exec
  BY DEF TypeOK
<1>a. \A r \in Request : approval[r] = "approved" => approval'[r] = "approved"
  BY DEF Decided, Closed
<1>. DEFINE Fresh == {"none", "reading", "begun", "ready"}
(* An execution not yet in the run keeps its request and its verdict.      *)
<1>1. SUFFICES ASSUME NEW e \in Execution,
                      exec'[e].phase \in Fresh, exec'[e].verdict = "approved"
               PROVE  \/ /\ exec[e].phase \in Fresh
                         /\ exec'[e].call = exec[e].call /\ exec'[e].verdict = exec[e].verdict
                      \/ exec'[e].call \in Request /\ approval'[exec'[e].call] = "approved"
  BY <1>a DEF VerdictStands
<1>2. CASE exec'[e] = exec[e]
  BY <1>1, <1>2
<1>3. ASSUME NEW f \in Execution, Ask(f) \/ AskInVain(f) \/ StopRow(f) \/ StopRun(f) \/ NotEntered(f) \/ Crash(f) \/ Enter(f)
      PROVE  exec'[e] = exec[e]
  <2>1. exec'[f].phase \notin Fresh
    BY <1>3, <1>t DEF Ask, AskInVain, StopRow, StopRun, NotEntered, Crash, Enter, Exec
  <2>2. e # f
    BY <1>1, <2>1
  <2>. QED BY <1>3, <1>t, <2>2 DEF Ask, AskInVain, StopRow, StopRun, NotEntered, Crash, Enter
<1>4. ASSUME NEW f \in Execution, ResumeClaim(f) \/ Probe(f)
      PROVE  /\ exec[e].phase \in Fresh
             /\ exec'[e].call = exec[e].call /\ exec'[e].verdict = exec[e].verdict
  <2>1. CASE e = f
    BY <1>4, <1>t, <2>1 DEF ResumeClaim, Probe, Exec
  <2>2. CASE e # f
    <3>1. exec'[e] = exec[e]
      BY <1>4, <1>t, <2>2 DEF ResumeClaim, Probe
    <3>. QED BY <1>1, <3>1
  <2>. QED BY <2>1, <2>2
<1>5. ASSUME NEW r \in Request, Handle(r), e = begun + 1
      PROVE  exec'[e].call \in Request /\ approval'[exec'[e].call] = "approved"
  <2>1. exec'[e].call = r /\ exec'[e].verdict = approval[r]
    BY <1>5, <1>t DEF Handle, NotYet
  <2>. QED BY <1>1, <1>5, <2>1 DEF Handle, requests
<1>6. ASSUME NEW r \in Request, Handle(r), e # begun + 1
      PROVE  exec'[e] = exec[e]
  BY <1>6, <1>t DEF Handle
<1>7. ASSUME ResumeRead, e = begun + 1
      PROVE  exec'[e].call \in Request /\ approval'[exec'[e].call] = "approved"
  <2>1. exec'[e].call = work.waiting /\ exec'[e].verdict = approval[work.waiting]
    BY <1>7, <1>t DEF ResumeRead, NotYet
  <2>2. work.waiting \in Request
    BY <1>7 DEF ResumeRead, TypeOK, Work, Request
  <2>. QED BY <1>1, <1>7, <2>1, <2>2 DEF ResumeRead, requests
<1>8. ASSUME ResumeRead, e # begun + 1 PROVE exec'[e] = exec[e]
  BY <1>8, <1>t DEF ResumeRead
<1>9. CASE Release
  <2>1. tick.claim \in Execution /\ exec[tick.claim].phase = "none"
    BY <1>9 DEF Release, ClaimStaged, TypeOK, Tick, Execution
  <2>2. CASE e = tick.claim
    BY <1>9, <1>t, <2>1, <2>2 DEF Release, Exec
  <2>3. CASE e # tick.claim
    BY <1>9, <1>1, <1>t, <2>3 DEF Release
  <2>. QED BY <2>2, <2>3
<1>10. CASE EndByUser \/ Reap \/ TickCommits \/ TickFails \/ UNCHANGED vars
  BY <1>1, <1>10 DEF EndByUser, Reap, TickCommits, TickFails, vars
<1>11. ASSUME NEW r \in Request,
             \/ Lapse(r) \/ Sweep(r) \/ Decide(r) \/ HandleNothing(r)
             \/ \E m \in Member : LockRequest(m, r)
       PROVE  exec'[e] = exec[e]
  BY <1>11 DEF Lapse, Sweep, Decide, Expire, CloseOfEnded, Resolve, LetGo, HandleNothing, LockRequest
<1>12. CASE \E f \in Execution : Proceed(f) \/ Crash(f)
  BY <1>12, <1>2, <1>3, <1>4 DEF Proceed
<1>13. CASE Dispatch \/ TickFails
  BY <1>13, <1>2, <1>5, <1>6, <1>9, <1>10, <1>11 DEF Dispatch
<1>. QED BY <1>2, <1>7, <1>8, <1>10, <1>11, <1>12, <1>13 DEF Next

(* A call is made by the one execution inside the run, for a step that     *)
(* waits; the step waits no more.                                          *)
LEMMA CallStep ==
    ASSUME TypeOK, TypeOK', ExecsKnown, Decided, HoldsClaim, VerdictStands, NotYetCalled, CalledOnce,
           [Next]_vars
    PROVE  NotYetCalled' /\ CalledOnce'
<1>t. exec \in [Execution -> Exec] /\ \A e \in Execution : exec[e] \in Exec
  BY DEF TypeOK
<1>a. \A r \in Request : approval[r] = "approved" => approval'[r] = "approved"
  BY DEF Decided, Closed
<1>b. ASSUME UNCHANGED called PROVE CalledOnce'
  BY <1>a, <1>b DEF CalledOnce
<1>1. ASSUME NEW e \in Execution, Enter(e) PROVE NotYetCalled' /\ CalledOnce'
  <2>. DEFINE r == exec[e].call
  <2>1. parked' = parked \ {r} /\ \A f \in Execution : exec'[f].phase # "asked"
    <3>1. exec[e].phase = "ready"
      BY <1>1 DEF Enter
    <3>2. \A f \in Execution : exec[f].phase # "asked"
      BY <3>1 DEF HoldsClaim
    <3>. QED BY <1>1, <1>t, <3>2 DEF Enter, Exec
  <2>2. CASE UNCHANGED called
    BY <1>b, <2>1, <2>2 DEF NotYetCalled
  <2>3. CASE r \in parked /\ exec[e].verdict = "approved" /\ called' = [called EXCEPT ![r] = @ + 1]
    <3>1. r \in Request /\ approval[r] = "approved" /\ called[r] = 0
      BY <1>1, <2>3 DEF Enter, VerdictStands, NotYetCalled
    <3>2. called'[r] = 1 /\ \A q \in Request \ {r} : called'[q] = called[q]
      BY <2>3, <3>1 DEF TypeOK
    <3>3. CalledOnce'
      BY <1>a, <3>1, <3>2 DEF CalledOnce
    <3>4. NotYetCalled'
      BY <2>1, <3>2 DEF NotYetCalled, TypeOK
    <3>. QED BY <3>3, <3>4
  <2>. QED BY <1>1, <2>2, <2>3 DEF Enter
<1>2. ASSUME NEW e \in Execution, Ask(e) \/ AskInVain(e) PROVE NotYetCalled' /\ CalledOnce'
  <2>. DEFINE r == exec[e].call + 1
  <2>1. r \in Request /\ approval[r] = "none" /\ UNCHANGED <<called, parked>>
    BY <1>2, <1>t DEF Ask, AskInVain, Exec, Request
  <2>2. called[r] = 0
    BY <2>1 DEF CalledOnce, TypeOK
  <2>3. exec'[e].call = r /\ \A f \in Execution \ {e} : exec'[f] = exec[f]
    BY <1>2, <1>t DEF Ask, AskInVain, Exec
  <2>. QED BY <1>b, <2>1, <2>2, <2>3 DEF NotYetCalled
<1>3. ASSUME NEW e \in Execution, StopRow(e) PROVE NotYetCalled' /\ CalledOnce'
  <2>1. /\ exec'[e].phase = "stopped" /\ \A f \in Execution \ {e} : exec'[f] = exec[f]
        /\ UNCHANGED called
    BY <1>3, <1>t DEF StopRow, Exec
  <2>2. \A q \in parked' : q \in parked \/ (exec[e].phase = "asked" /\ q = exec[e].call)
    BY <1>3 DEF StopRow
  <2>. QED BY <1>b, <2>1, <2>2 DEF NotYetCalled
(* Anyone else calls nothing, parks nothing and does not come to ask.      *)
<1>4. ASSUME UNCHANGED <<called, parked>>,
             \A e \in Execution : exec'[e].phase = "asked" => exec'[e] = exec[e]
      PROVE  NotYetCalled' /\ CalledOnce'
  BY <1>b, <1>4 DEF NotYetCalled
<1>5. ASSUME NEW f \in Execution,
             StopRun(f) \/ NotEntered(f) \/ Crash(f) \/ ResumeClaim(f) \/ Probe(f)
      PROVE  NotYetCalled' /\ CalledOnce'
  <2>1. exec'[f].phase # "asked" /\ \A e \in Execution \ {f} : exec'[e] = exec[e]
    BY <1>5, <1>t DEF StopRun, NotEntered, Crash, ResumeClaim, Probe, Exec
  <2>2. UNCHANGED <<called, parked>>
    BY <1>5 DEF StopRun, NotEntered, Crash, ResumeClaim, Probe
  <2>. QED BY <1>4, <2>1, <2>2
<1>6. CASE ResumeRead \/ \E r \in Request : Handle(r)
  <2>1. \A e \in Execution : exec'[e] = exec[e] \/ exec'[e].phase \in {"none", "reading"}
    BY <1>6, <1>t DEF ResumeRead, Handle, NotYet
  <2>. QED BY <1>4, <1>6, <2>1 DEF ResumeRead, Handle
<1>7. CASE Release
  <2>1. \A e \in Execution : exec'[e] = exec[e] \/ exec'[e].phase = "begun"
    BY <1>7, <1>t DEF Release, Exec
  <2>. QED BY <1>4, <1>7, <2>1 DEF Release
<1>8. CASE EndByUser \/ Reap \/ TickCommits \/ TickFails \/ UNCHANGED vars
  BY <1>4, <1>8 DEF EndByUser, Reap, TickCommits, TickFails, vars
<1>9. ASSUME NEW r \in Request,
             \/ Lapse(r) \/ Sweep(r) \/ Decide(r) \/ HandleNothing(r)
             \/ \E m \in Member : LockRequest(m, r)
      PROVE  UNCHANGED <<called, parked, exec>>
  BY <1>9 DEF Lapse, Sweep, Decide, Expire, CloseOfEnded, Resolve, LetGo, HandleNothing, LockRequest
<1>10. CASE \E f \in Execution : Proceed(f) \/ Crash(f)
  BY <1>10, <1>1, <1>2, <1>3, <1>5 DEF Proceed
<1>11. CASE Dispatch \/ TickFails
  BY <1>11, <1>4, <1>6, <1>7, <1>8, <1>9 DEF Dispatch
<1>. QED BY <1>4, <1>6, <1>8, <1>9, <1>10, <1>11 DEF Next

-----------------------------------------------------------------------------
LEMMA ResumeInvStep == ResumeInv /\ [Next]_vars => ResumeInv' /\ Decided
<1>. SUFFICES ASSUME ResumeInv, [Next]_vars PROVE ResumeInv' /\ Decided
  OBVIOUS
<1>1. TypeOK' /\ ExecsKnown'
  BY TypeStep
<1>2. OneDecision' /\ Decided
  BY DecisionStep DEF ResumeInv
<1>3. ClaimStaged' /\ HoldsClaim'
  BY <1>1, <1>2, ClaimStep DEF ResumeInv
<1>4. VerdictStands'
  BY <1>1, <1>2, VerdictStep DEF ResumeInv
<1>5. NotYetCalled' /\ CalledOnce'
  BY <1>1, <1>2, CallStep DEF ResumeInv
<1>. QED BY <1>1, <1>2, <1>3, <1>4, <1>5 DEF ResumeInv

LEMMA ResumeInvInit == Init => ResumeInv
<1>. SUFFICES ASSUME Init PROVE ResumeInv
  OBVIOUS
<1>1. NotYet \in Exec /\ [NotYet EXCEPT !.phase = "running"] \in Exec
  <2>1. NotYet \in Exec
    BY ResumeAssumption DEF NotYet, Exec, Phase
  <2>. QED BY <2>1, ExecForms DEF Phase
<1>2. /\ NotYet.phase = "none" /\ NotYet.verdict = "none"
      /\ [NotYet EXCEPT !.phase = "running"].phase = "running"
      /\ [NotYet EXCEPT !.phase = "running"].verdict = "none"
  BY DEF NotYet
<1>3. \A e \in Execution : /\ exec[e] \in Exec /\ exec[e].verdict = "none"
                           /\ exec[e].phase = IF e = 1 THEN "running" ELSE "none"
  BY <1>1, <1>2 DEF Init
<1>4. TypeOK
  <2>1. exec \in [Execution -> Exec]
    BY <1>1 DEF Init
  <2>2. work \in Work /\ tick \in Tick
    BY ResumeAssumption DEF Init, Work, Tick, Idle
  <2>. QED BY <2>1, <2>2, ResumeAssumption DEF Init, TypeOK, Execution
<1>5. OneDecision /\ CalledOnce
  BY DEF Init, OneDecision, CalledOnce, Closed
<1>6. ClaimStaged /\ HoldsClaim
  BY <1>3 DEF Init, ClaimStaged, HoldsClaim, Idle
<1>7. ExecsKnown /\ VerdictStands /\ NotYetCalled
  BY <1>3 DEF Init, ExecsKnown, VerdictStands, NotYetCalled
<1>. QED BY <1>4, <1>5, <1>6, <1>7 DEF ResumeInv

THEOREM ResumeInvariant == Spec => []ResumeInv
<1>1. ResumeInv /\ [Next]_vars => ResumeInv'
  BY ResumeInvStep
<1>. QED BY <1>1, ResumeInvInit, PTL DEF Spec

(* Every variable keeps its type: what ends an execution is one of the     *)
(* statuses a run can have, what it was prepared with a decision.          *)
THEOREM ResumeTypeCorrect == Spec => []TypeOK
<1>1. ResumeInv => TypeOK
  BY DEF ResumeInv
<1>. QED BY <1>1, ResumeInvariant, PTL

(* Of the members and the sweepers who close a request one does, and its   *)
(* closing has one entry in the history and one event (resolve_approval,   *)
(* expire_overdue_approvals, close_approvals_of_ended_runs).               *)
THEOREM OneDecisionHolds == Spec => []OneDecision
<1>1. ResumeInv => OneDecision
  BY DEF ResumeInv
<1>. QED BY <1>1, ResumeInvariant, PTL

(* And the decision that was taken stands. *)
THEOREM DecisionStands ==
    Spec => [][\A r \in Request : approval[r] \in Closed => approval'[r] = approval[r]]_vars
<1>1. ResumeInv /\ [Next]_vars
        => [\A r \in Request : approval[r] \in Closed => approval'[r] = approval[r]]_vars
  BY ResumeInvStep DEF Decided
<1>. QED BY <1>1, ResumeInvariant, PTL DEF Spec

(* However often the event of a decision arrives, whatever claims are      *)
(* undone and whoever resumes the run by hand at the same moment, a call   *)
(* is made once, and only when its request was approved.                   *)
THEOREM CalledOnceHolds == Spec => []CalledOnce
<1>1. ResumeInv => CalledOnce
  BY DEF ResumeInv
<1>. QED BY <1>1, ResumeInvariant, PTL

(* An execution that runs nodes has the claim, so no two do. *)
THEOREM RunsOnItsClaimHolds == Spec => []RunsOnItsClaim
<1>1. ResumeInv => RunsOnItsClaim
  BY DEF ResumeInv, HoldsClaim, RunsOnItsClaim
<1>. QED BY <1>1, ResumeInvariant, PTL

=============================================================================
