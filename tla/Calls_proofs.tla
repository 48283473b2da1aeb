----------------------------- MODULE Calls_proofs -----------------------------
(***************************************************************************)
(* What TLAPS proves of the calls a run makes.  First of ToolCallLedger,   *)
(* for every set of requests, every lease length and every bound on the    *)
(* clock; then of ToolInvocation, which implements the ledger, so that the *)
(* ledger's theorems carry over to it; and last of ModelCalls, which       *)
(* shares nothing with the other two.  Nothing that is proved of the       *)
(* ledger uses what ToolInvocation assumes of its starter.                 *)
(***************************************************************************)
EXTENDS ToolInvocation, ModelCalls, FiniteSetTheorems, TLAPS

-----------------------------------------------------------------------------
(* The ledger. *)

(* The statuses the ledger moves a step to are step statuses. *)
LEMMA StepTargets ==
    /\ {"queued", "preparing", "running", "waiting_approval", "paused",
        "retrying", "succeeded", "failed", "canceled"} \subseteq StepStatus
    /\ Startable \subseteq StepStatus
  BY DEF StepStatus, RunStatus, Startable

(* A conditional update leaves both the row and the cached status typed,   *)
(* and the row either keeps its status or takes the target.                *)
LEMMA ConditionalMoveType ==
    ASSUME NEW seen \in StepStatus, NEW row \in StepStatus,
           NEW target \in StepStatus
    PROVE  LET m == ConditionalMove(StepTransitions, seen, row, target)
           IN  /\ m.ok \in BOOLEAN /\ m.row \in StepStatus
               /\ m.seen \in StepStatus /\ m.row \in {row, target}
  BY DEF ConditionalMove

-----------------------------------------------------------------------------
(* Type correctness *)

(* Handling an exception keeps the state typed, whatever well-typed copies *)
(* the session holds.                                                      *)
LEMMA HandleType ==
    ASSUME TypeOK, NEW r \in Request, NEW mine \in Record,
           NEW mark \in Record, NEW seen \in StepStatus,
           NEW s \in StepStatus, Handle(r, mine, mark, seen, s)
    PROVE  TypeOK'
<1> DEFINE moved == ConditionalMove(StepTransitions, seen, s, "failed")
<1>1. moved.row \in StepStatus
  BY StepTargets, ConditionalMoveType
<1>2. UNCHANGED <<now, view, crossed, served>>
  BY DEF Handle, Abandon, Ghosts
<1>3. pc' \in [Request -> Place] /\ answer' \in [Request -> Answer]
  BY DEF Handle, Abandon, Reply, Goto, TypeOK, Place, Answer
<1>4. record' \in Record /\ step' \in StepStatus
  <2> HIDE DEF moved
  <2>1. CASE ~moved.ok \/ mine.status \in Final \/ mine.owner # OwnerOf[r]
    BY <2>1, <1>1 DEF Handle, Abandon, TypeOK, moved
  <2>2. CASE ~(~moved.ok \/ mine.status \in Final \/ mine.owner # OwnerOf[r])
    <3>1. /\ record' = [record EXCEPT !.status = "failed", !.kept = FALSE,
                                      !.owner = NoOwner, !.lease = Never]
          /\ step' = moved.row
      BY <2>2 DEF Handle, moved
    <3>2. [record EXCEPT !.status = "failed", !.kept = FALSE,
                         !.owner = NoOwner, !.lease = Never] \in Record
      BY DEF TypeOK, Record, CallStatus, Never
    <3> QED BY <3>1, <3>2, <1>1
  <2> QED BY <2>1, <2>2
<1> QED BY <1>2, <1>3, <1>4 DEF TypeOK

(* A new lease runs out at a time of the clock. *)
LEMMA UntilType == ASSUME TypeOK PROVE Until \in Nat
  BY TimeAssumption DEF Until, TypeOK

(* Every claim that takes the call leaves a typed record. *)
LEMMA LeasedType ==
    ASSUME TypeOK, NEW r \in Request, NEW rec \in Record
    PROVE  Leased(rec, r) \in Record
<1>1. Until \in Nat
  BY UntilType
<1>2. OwnerOf[r] \in Owner
  BY RequestsAssumption
<1> QED BY <1>1, <1>2 DEF Leased, Record, CallStatus

(* Every variable of the ledger keeps its type. *)
THEOREM TypeCorrect == Spec => []TypeOK
<1> USE RequestsAssumption, TimeAssumption
<1>1. Init => TypeOK
  BY DEF Init, TypeOK, NoRecord, Record, CallStatus, Place, Answer, Never,
         StepStatus, RunStatus
<1>2. TypeOK /\ [Next]_vars => TypeOK'
  <2> SUFFICES ASSUME TypeOK, [Next]_vars PROVE TypeOK'
    OBVIOUS
  <2> USE StepTargets
  <2>1. CASE UNCHANGED vars
    BY <2>1 DEF vars, TypeOK
  <2>2. CASE Tick
    BY <2>2 DEF Tick, Ghosts, TypeOK
  <2>3. CASE Rest
    BY <2>3 DEF Rest, vars, TypeOK
  <2>4. ASSUME NEW r \in Request, RequestStep(r) PROVE TypeOK'
    <3> USE <2>4
    <3>1. CASE RecordedOutcome(r) \/ ClaimReplay(r)
      BY <3>1 DEF RecordedOutcome, ClaimReplay, Replay, Reply, Goto, Ghosts,
                  TypeOK, Place, Answer
    <3>2. CASE Admit(r) \/ Refuse(r) \/ Vanish(r)
      BY <3>2 DEF Admit, Refuse, Vanish, Reply, Goto, Ghosts, TypeOK, Place,
                  Answer
    <3>3. ASSUME NEW rec \in Record, NEW s \in StepStatus, Claimed(r, rec, s),
                 crossed' \in {crossed, {}}
          PROVE  TypeOK'
      BY <3>3 DEF Claimed, Cache, Goto, TypeOK, Place
    <3>4. CASE ClaimNew(r)
      <4>1. NoRecord \in Record
        BY DEF NoRecord, Record, CallStatus, Never
      <4> QED BY <3>3, <3>4, <4>1, LeasedType DEF ClaimNew
    <3>5. CASE ClaimApproved(r) \/ ClaimHeld(r) \/ ClaimExpired(r)
      BY <3>3, <3>5, LeasedType DEF ClaimApproved, ClaimHeld, ClaimExpired,
                                    TypeOK
    <3>6. CASE ClaimFailed(r)
      <4>1. [Leased(record, r) EXCEPT !.outbound = FALSE, !.kept = FALSE]
              \in Record
        BY LeasedType DEF Record, TypeOK
      <4> QED BY <3>3, <3>6, <4>1 DEF ClaimFailed
    <3>7. CASE ClaimInDoubt(r)
      BY <3>7 DEF ClaimInDoubt, Reply, Goto, Ghosts, TypeOK, Record,
                  CallStatus, Place, Answer, Never
    <3>8. CASE ClaimRefused(r)
      BY <3>8 DEF ClaimRefused, Reply, Goto, Ghosts, TypeOK, Place, Answer
    <3>9. CASE MarkRunning(r)
      <4>1. Marked(record) \in Record /\ Marked(view[r].rec) \in Record
        <5>1. record \in Record /\ view[r].rec \in Record
          BY DEF TypeOK
        <5> QED BY <5>1, UntilType DEF Marked, Record, CallStatus
      <4>2. view[r].step \in StepStatus
        BY DEF TypeOK
      <4>3. PICK m : /\ m.row \in StepStatus /\ m.seen \in StepStatus
                     /\ \/ /\ record' = Marked(record)
                           /\ step' = m.row
                           /\ Cache(r, Marked(view[r].rec), m.seen)
                           /\ Goto(r, "marked")
                           /\ UNCHANGED <<now, answer, Ghosts>>
                        \/ Abandon(r, Marked(record), m.row)
        <5> DEFINE m == IF view[r].step \in Startable
                        THEN ConditionalMove(StepTransitions, view[r].step,
                                             step, "running")
                        ELSE [ok |-> TRUE, row |-> step, seen |-> view[r].step]
        <5>1. m.row \in StepStatus /\ m.seen \in StepStatus
          BY <4>2, ConditionalMoveType DEF TypeOK
        <5>2. \/ /\ record' = Marked(record)
                 /\ step' = m.row
                 /\ Cache(r, Marked(view[r].rec), m.seen)
                 /\ Goto(r, "marked")
                 /\ UNCHANGED <<now, answer, Ghosts>>
              \/ Abandon(r, Marked(record), m.row)
          BY <3>9 DEF MarkRunning
        <5> QED BY <5>1, <5>2
      <4>4. CASE Abandon(r, Marked(record), m.row)
        BY <4>1, <4>3, <4>4 DEF Abandon, Reply, Goto, Ghosts, TypeOK, Place, Answer
      <4>5. CASE /\ record' = Marked(record)
                 /\ step' = m.row
                 /\ Cache(r, Marked(view[r].rec), m.seen)
                 /\ Goto(r, "marked")
                 /\ UNCHANGED <<now, answer, Ghosts>>
        BY <4>1, <4>3, <4>5 DEF Cache, Goto, Ghosts, TypeOK, Place
      <4> QED BY <4>3, <4>4, <4>5
    <3>10. CASE AlreadyRunning(r) \/ CallTool(r) \/ ToolAnswers(r)
      BY <3>10 DEF AlreadyRunning, CallTool, ToolAnswers, Goto, Ghosts, TypeOK,
                   Place
    <3>11. CASE RenewLease(r)
      <4>1. /\ [record EXCEPT !.lease = Until] \in Record
            /\ [view[r].rec EXCEPT !.lease = Until] \in Record
        <5>1. record \in Record /\ view[r].rec \in Record
          BY DEF TypeOK
        <5> QED BY <5>1, UntilType DEF Record
      <4> HIDE DEF Record
      <4> QED BY <3>11, <4>1 DEF RenewLease, Goto, Ghosts, TypeOK, Place
    <3>12. CASE LeaseLost(r)
      BY <3>12, HandleType DEF LeaseLost, TypeOK
    <3>13. CASE RaiseBeforeCall(r) \/ Fail(r)
      BY <3>13, HandleType DEF RaiseBeforeCall, Fail, TypeOK
    <3>14. CASE Complete(r) \/ StorageFails(r)
      <4> DEFINE m == ConditionalMove(StepTransitions, view[r].step, step,
                                      Outcome(r))
      <4>1. Outcome(r) \in {"succeeded", "failed"}
        BY DEF Outcome
      <4>2. m.row \in StepStatus /\ m.seen \in StepStatus
        BY <4>1, ConditionalMoveType DEF TypeOK
      <4>3. view[r].rec \in Record /\ record \in Record
        BY DEF TypeOK
      <4>4. /\ Finished(record, r) \in Record
            /\ [record EXCEPT !.status = Outcome(r)] \in Record
            /\ [view[r].rec EXCEPT !.status = Outcome(r)] \in Record
        BY <4>1, <4>3 DEF Finished, Record, CallStatus, Never
      <4> HIDE DEF m
      <4>5. CASE Handle(r, view[r].rec, record, m.seen, m.row)
        BY <4>2, <4>3, <4>5, HandleType
      <4>6. CASE Handle(r, [view[r].rec EXCEPT !.status = Outcome(r)],
                        [record EXCEPT !.status = Outcome(r)], m.seen, m.row)
        BY <4>2, <4>4, <4>6, HandleType
      <4>7. CASE /\ record' = Finished(record, r)
                 /\ step' = m.row
                 /\ Reply(r, IF Outcome(r) = "succeeded" THEN "success"
                             ELSE "failure")
                 /\ UNCHANGED <<now, view, Ghosts>>
        BY <4>2, <4>4, <4>7 DEF Reply, Goto, Ghosts, TypeOK, Place, Answer
      <4> QED BY <3>14, <4>5, <4>6, <4>7 DEF Complete, StorageFails, m
    <3>15. CASE PrepareWaitingApproval(r) \/ RejectApproval(r)
      <4>1. CASE PrepareWaitingApproval(r)
        <5>1. record' \in Record /\ step' \in StepStatus
          <6>1. [NoRecord EXCEPT !.status = "waiting_approval"] \in Record
            BY DEF NoRecord, Record, CallStatus, Never
          <6>2. record \in Record /\ step \in StepStatus /\ "waiting_approval" \in StepStatus
            BY DEF TypeOK, StepStatus, RunStatus
          <6> QED BY <4>1, <6>1, <6>2 DEF PrepareWaitingApproval
        <5> QED BY <4>1, <5>1 DEF PrepareWaitingApproval, Reply, Goto, Ghosts, TypeOK, Place, Answer
      <4>2. CASE RejectApproval(r)
        <5>1. record' \in Record /\ step' \in StepStatus
          <6>1. record \in Record /\ step \in StepStatus /\ "canceled" \in StepStatus
            BY DEF TypeOK, StepStatus, RunStatus
          <6>2. [record EXCEPT !.status = "rejected"] \in Record
            BY <6>1 DEF Record, CallStatus
          <6> QED BY <4>2, <6>1, <6>2 DEF RejectApproval
        <5> QED BY <4>2, <5>1 DEF RejectApproval, Reply, Goto, Ghosts, TypeOK, Place, Answer
      <4> QED BY <3>15, <4>1, <4>2
    <3> QED BY <3>1, <3>2, <3>4, <3>5, <3>6, <3>7, <3>8, <3>9, <3>10, <3>11,
               <3>12, <3>13, <3>14, <3>15 DEF RequestStep, Invoke
  <2> QED BY <2>1, <2>2, <2>3, <2>4 DEF Next
<1> QED BY <1>1, <1>2, PTL DEF Spec

-----------------------------------------------------------------------------
(* One holder: at-most-once for requests with lease owners of their own.   *)

(* What a conditional update from a step cached as about to run, or as     *)
(* running, tells of the row it met.                                       *)
LEMMA StartingMove ==
    ASSUME NEW seen \in {"preparing", "waiting_approval"}, NEW row \in StepStatus,
           ConditionalMove(StepTransitions, seen, row, "running").ok
    PROVE  LET m == ConditionalMove(StepTransitions, seen, row, "running")
           IN  m.row = "running" /\ m.seen = "running" /\ row \in {seen, "running"}
  BY DEF ConditionalMove

LEMMA EndingMove ==
    ASSUME NEW row \in StepStatus, NEW target \in Final
    PROVE  LET m == ConditionalMove(StepTransitions, "running", row, target)
           IN  /\ m.ok <=> row \in {"running", target}
               /\ m.ok => m.row = target /\ m.seen = target
               /\ ~m.ok => m.row = row /\ m.seen = row
<1>1. target \in StepTransitions["running"] /\ target # "running"
  BY DEF StepTransitions, RunTransitions, StepStatus, RunStatus, Unsuccessful, Final
<1> QED BY <1>1 DEF ConditionalMove

LEMMA FailingMove ==
    ASSUME NEW row \in {"running", "succeeded", "failed", "paused"}
    PROVE  LET m == ConditionalMove(StepTransitions, row, row, "failed")
           IN  /\ m.ok <=> row \in {"running", "failed"}
               /\ m.ok => m.row = "failed"
<1>1. /\ "failed" \in StepTransitions["running"]
      /\ "failed" \notin StepTransitions["succeeded"]
      /\ "failed" \notin StepTransitions["paused"]
  BY DEF StepTransitions, RunTransitions, StepStatus, RunStatus, Unsuccessful
<1> QED BY <1>1 DEF ConditionalMove

(* A request that works on the call ends, leaving the row and the step as  *)
(* they are or both in the same final status.                              *)
Ends(r) ==
    /\ pc' = [pc EXCEPT ![r] = "done"]
    /\ UNCHANGED <<view, crossed>>
    /\ \/ UNCHANGED <<record, step>>
       \/ /\ pc[r] \in Working
          /\ record.status \in {"running", record'.status}
          /\ record.status = "succeeded" => record' = record
          /\ record'.status \in Final /\ step' = record'.status
          /\ record'.owner = NoOwner /\ record'.lease = Never
          /\ record'.status = "succeeded" => record'.kept

LEMMA EndsKeepsOneHolder ==
    ASSUME TypeOK, OneHolder, NEW r \in Request, Ends(r)
    PROVE  OneHolder'
<1> USE DEF TypeOK, Ends
<1>1. \A q \in Request : /\ CachedCopy(q)' /\ Progress(q)'
                         /\ Holding(q)' => Holding(q)
  BY DEF OneHolder, CachedCopy, Progress, Started, Holding, Working, Final
<1>2. RowAndStep' /\ RowColumns'
  BY DEF OneHolder, RowAndStep, RowColumns, Final, Active
<1>3. \A q \in Request :
        (Holding(q) /\ record.status = "running" => record.owner = OwnerOf[q])'
  BY <1>1 DEF OneHolder, Final
<1> QED BY <1>1, <1>2, <1>3 DEF OneHolder

(* What the row and the step may be while somebody works on the call. *)
LEMMA AtWork ==
    ASSUME TypeOK, OneHolder, NEW r \in Request, pc[r] \in Working
    PROVE  /\ view[r].step = "running"
           /\ record.status \in {"running", "in_doubt", "succeeded", "failed"}
           /\ record.status = "in_doubt" => step = "paused"
           /\ record.status # "in_doubt" => step = record.status
  BY DEF OneHolder, CachedCopy, Progress, Started, RowAndStep, Final

(* The exception path of a service caller either changes nothing or fails  *)
(* the call, and only a call that was running or had failed.               *)
LEMMA HandleEnds ==
    ASSUME TypeOK, OneHolder, Node = {}, NEW r \in Request,
           pc[r] \in Working, NEW mine, NEW mark,
           NEW seen, NEW s,
           \/ s = step /\ seen \in {"running", step}
           \/ s = seen /\ s \in Final /\ step \in {"running", s},
           Handle(r, mine, mark, seen, s)
    PROVE  Ends(r)
<1> DEFINE m == ConditionalMove(StepTransitions, seen, s, "failed")
<1>1. step \in {"running", "succeeded", "failed", "paused"}
  BY AtWork
<1>2. m.ok => m.row = "failed" /\ step \in {"running", "failed"}
  <2>1. CASE seen = s
    <3>1. s \in {"running", "succeeded", "failed", "paused"}
      BY <1>1 DEF Final
    <3> QED BY <1>1, <2>1, <3>1, FailingMove
  <2>2. CASE seen = "running" /\ s = step
    BY <2>2, EndingMove DEF TypeOK, Final
  <2> QED BY <2>1, <2>2
<1> HIDE DEF m
<1>3. CASE ~m.ok \/ mine.status \in Final \/ mine.owner # OwnerOf[r]
  BY <1>3 DEF Handle, m, Abandon, Reply, Goto, Ghosts, Ends
<1>4. CASE ~(~m.ok \/ mine.status \in Final \/ mine.owner # OwnerOf[r])
  <2>1. record.status \in {"running", "failed"}
    BY <1>2, <1>4, AtWork
  <2>2. /\ record' = [record EXCEPT !.status = "failed", !.kept = FALSE,
                                    !.owner = NoOwner, !.lease = Never]
        /\ step' = "failed"
        /\ pc' = [pc EXCEPT ![r] = "done"] /\ UNCHANGED <<view, crossed>>
    BY <1>2, <1>4 DEF Handle, m, Reply, Goto, Ghosts
  <2> QED BY <2>1, <2>2 DEF Ends, Final, TypeOK, Record
<1> QED BY <1>3, <1>4

(* Whatever a request does with the tool's answer, it ends that way. *)
LEMMA AnswerEnds ==
    ASSUME TypeOK, OneHolder, Node = {}, NEW r \in Request,
           Complete(r) \/ StorageFails(r)
    PROVE  Ends(r)
<1> DEFINE m == ConditionalMove(StepTransitions, view[r].step, step, Outcome(r))
<1>1. pc[r] \in Working /\ Outcome(r) \in Final
  BY DEF Complete, StorageFails, Working, Outcome, Final
<1>2. view[r].step = "running" /\ step \in StepStatus
  BY <1>1, AtWork DEF TypeOK
<1>3. /\ m.ok <=> step \in {"running", Outcome(r)}
      /\ m.ok => m.row = Outcome(r) /\ m.seen = Outcome(r)
      /\ ~m.ok => m.row = step /\ m.seen = step
  BY <1>1, <1>2, EndingMove
<1>4. \/ m.row = step /\ m.seen \in {"running", step}
      \/ m.row = m.seen /\ m.row \in Final /\ step \in {"running", m.row}
  BY <1>1, <1>3
<1> HIDE DEF m
<1>5. CASE \E mine, mark : Handle(r, mine, mark, m.seen, m.row)
  BY <1>1, <1>4, <1>5, HandleEnds
<1>6. CASE /\ m.ok /\ record' = Finished(record, r) /\ step' = m.row
           /\ pc' = [pc EXCEPT ![r] = "done"] /\ UNCHANGED <<view, crossed>>
  <2>1. record.status \in {"running", Outcome(r)}
    BY <1>1, <1>3, <1>6, AtWork DEF Final
  <2>2. record \in Record
    BY DEF TypeOK
  <2>3. /\ record'.status = Outcome(r) /\ record'.owner = NoOwner
        /\ record'.lease = Never /\ record'.kept = TRUE
        /\ record'.outbound = record.outbound
    BY <1>6, <2>2 DEF Finished, Record
  <2>4. record.status = "succeeded" => record' = record
    <3> SUFFICES ASSUME record.status = "succeeded" PROVE record' = record
      OBVIOUS
    <3>1. /\ Outcome(r) = record.status /\ NoOwner = record.owner
          /\ Never = record.lease /\ TRUE = record.kept
      BY <2>1, <2>2 DEF OneHolder, RowColumns, Record
    <3> QED BY <1>6, <2>2, <3>1 DEF Finished, Record
  <2> QED BY <1>1, <1>3, <1>6, <2>1, <2>3, <2>4 DEF Ends, Final
<1> QED BY <1>5, <1>6 DEF Complete, StorageFails, Reply, Goto, Ghosts, m

(* So do the other ways out. *)
LEMMA RaiseEnds ==
    ASSUME TypeOK, OneHolder, Node = {}, NEW r \in Request,
           LeaseLost(r) \/ RaiseBeforeCall(r) \/ Fail(r)
    PROVE  Ends(r)
<1>1. pc[r] \in Working
  BY DEF LeaseLost, RaiseBeforeCall, Fail, Working
<1>2. CASE LeaseLost(r)
  BY <1>1, <1>2, HandleEnds DEF LeaseLost
<1>3. CASE RaiseBeforeCall(r) \/ Fail(r)
  <2>1. Handle(r, view[r].rec, record, "running", step)
    BY <1>1, <1>3, AtWork DEF RaiseBeforeCall, Fail
  <2> QED BY <1>1, <2>1, HandleEnds
<1> QED BY <1>2, <1>3

(* A claim gives the call to one request that does not yet hold it, and    *)
(* only while nobody does. *)
LEMMA ClaimKeepsOneHolder ==
    ASSUME TypeOK, OneHolder, FailureRetrier = {}, NEW r \in Request,
           ClaimNew(r) \/ ClaimApproved(r) \/ ClaimHeld(r) \/ ClaimExpired(r)
    PROVE  OneHolder'
<1> USE DEF TypeOK
<1>1. /\ pc[r] = "admitted" /\ pc' = [pc EXCEPT ![r] = "claimed"]
      /\ view' = [view EXCEPT ![r] = [rec |-> record', step |-> step']]
      /\ crossed' = crossed
  BY DEF ClaimNew, ClaimApproved, ClaimHeld, ClaimExpired, Claimed, Cache, Goto
<1>2. CASE ClaimHeld(r)
  <2>1. record' = record /\ step' = step /\ record.status \in Active
    BY <1>2 DEF ClaimHeld, Claimed, Holds
  <2>2. \A q \in Request : CachedCopy(q)' /\ Progress(q)'
    BY <1>1, <2>1 DEF OneHolder, CachedCopy, Progress, Started,
                             RowAndStep, Working, Active, Final
  <2>3. RowAndStep' /\ RowColumns'
    BY <2>1 DEF OneHolder, RowAndStep, RowColumns
  <2>4. \A q \in Request : Holding(q)' => Holding(q)
    BY <1>1 DEF Holding, Working
  <2> QED BY <2>1, <2>2, <2>3, <2>4 DEF OneHolder
<1>3. CASE ClaimNew(r) \/ ClaimApproved(r) \/ ClaimExpired(r)
  <2>1. /\ record.status \in {"absent", "waiting_approval", "claimed"}
        /\ record'.status = "claimed" /\ record'.outbound = FALSE
        /\ record'.lease = Until
        /\ step' \in {"preparing", "waiting_approval"}
    BY <1>3 DEF ClaimNew, ClaimApproved, ClaimExpired, Claimed, Leased, NoRecord,
                OneHolder, RowAndStep, RowColumns, Record, Active
  <2>2. \A q \in Request : pc[q] \notin Working /\ q \notin crossed
    BY <2>1 DEF OneHolder, Progress, Started, Final
  <2>3. \A q \in Request : CachedCopy(q)' /\ Progress(q)' /\ ~Holding(q)'
    BY <1>1, <2>1, <2>2 DEF OneHolder, CachedCopy, Progress, Started, Holding, Working
  <2>4. Until # Never
    BY UntilType DEF Never
  <2>5. RowAndStep' /\ RowColumns'
    BY <2>1, <2>4 DEF RowAndStep, RowColumns, Active, Final
  <2> QED BY <2>3, <2>5 DEF OneHolder
<1> QED BY <1>2, <1>3

(* Marking the call running starts nobody but the request that claimed it, *)
(* and its stale copy stops it from reviving a call that ended.            *)
LEMMA MarkKeepsOneHolder ==
    ASSUME TypeOK, OneHolder, Node = {}, NEW r \in Request, MarkRunning(r)
    PROVE  OneHolder'
<1> USE DEF TypeOK
<1>1. /\ pc[r] = "claimed" /\ view[r].rec.status = "claimed"
      /\ view[r].step \in {"preparing", "waiting_approval"}
      /\ view[r].step \in Startable
  BY DEF MarkRunning, OneHolder, CachedCopy, Startable
<1> DEFINE m == ConditionalMove(StepTransitions, view[r].step, step, "running")
<1>2. CASE ~m.ok
  <2>1. Abandon(r, Marked(record), m.row)
    BY <1>1, <1>2 DEF MarkRunning
  <2>2. Ends(r)
    BY <2>1 DEF Abandon, Reply, Goto, Ghosts, Ends
  <2> QED BY <2>2, EndsKeepsOneHolder
<1>3. CASE m.ok
  <2>1. m.row = "running" /\ m.seen = "running"
        /\ step \in {"preparing", "waiting_approval", "running"}
    BY <1>1, <1>3, StartingMove
  <2>2. record.status \in Active
    BY <1>1, <2>1 DEF OneHolder, Progress, Started, RowAndStep, Active,
                             Final, Record, CallStatus
  <2>3. /\ record' = Marked(record) /\ step' = "running"
        /\ view' = [view EXCEPT ![r] = [rec |-> Marked(view[r].rec),
                                        step |-> "running"]]
        /\ pc' = [pc EXCEPT ![r] = "marked"] /\ crossed' = crossed
    BY <1>1, <1>3, <2>1 DEF MarkRunning, Cache, Goto, Ghosts
  <2>4. /\ record'.status = "running" /\ record'.outbound = TRUE
        /\ record'.lease = Until /\ record'.owner = record.owner
    BY <2>3 DEF Marked, Record
  <2>5. \A q \in Request : CachedCopy(q)' /\ Progress(q)'
    BY <2>3, <2>4 DEF OneHolder, CachedCopy, Progress, Started, Working
  <2>6. Until # Never
    BY UntilType DEF Never
  <2>7. RowAndStep' /\ RowColumns'
    BY <2>3, <2>4, <2>6 DEF RowAndStep, RowColumns, Active, Final
  <2>8. \A q \in Request :
          Holding(q)' => Holding(q) /\ record.status = "running"
    BY <2>2, <2>3 DEF OneHolder, Progress, Started, Holding, Working, Active, Final
  <2> QED BY <2>4, <2>5, <2>7, <2>8 DEF OneHolder
<1> QED BY <1>2, <1>3

(* Renewing the lease is what makes a request the holder: the row is still *)
(* its own, and no other request can hold it. *)
LEMMA RenewKeepsOneHolder ==
    ASSUME TypeOK, OneHolder, ServiceCallers, NEW r \in Request, RenewLease(r)
    PROVE  OneHolder'
<1> USE DEF TypeOK
<1>1. /\ pc[r] = "marked" /\ pc' = [pc EXCEPT ![r] = "leased"]
      /\ step' = step /\ crossed' = crossed
      /\ \A q \in Request : view'[q].step = view[q].step
      /\ \A q \in Request \ {r} : view'[q] = view[q]
  BY DEF RenewLease, Goto, Ghosts, Record
<1>2. /\ record'.status = record.status /\ record'.owner = record.owner
      /\ record'.outbound = record.outbound /\ record'.lease = Until
      /\ record.owner = OwnerOf[r] /\ record.status \in Active
  BY DEF RenewLease, Record
<1>3. record.status = "running"
  BY <1>1, <1>2 DEF OneHolder, Progress, Started, Working, Active, Final
<1>4. Until # Never
  BY UntilType DEF Never
<1>5. \A q \in Request : CachedCopy(q)' /\ Progress(q)'
  BY <1>1, <1>2 DEF OneHolder, CachedCopy, Progress, Started, Working
<1>6. RowAndStep' /\ RowColumns'
  BY <1>1, <1>2, <1>3, <1>4 DEF OneHolder, RowAndStep, RowColumns, Active, Final
<1>7. \A q \in Request : Holding(q) => q = r
  BY <1>2, <1>3 DEF OneHolder, ServiceCallers
<1>8. \A q \in Request : Holding(q)' => q = r
  BY <1>1, <1>7 DEF Holding, Working
<1> QED BY <1>2, <1>5, <1>6, <1>8 DEF OneHolder

(* The inductive step, and with it that neither a recorded success nor a   *)
(* call in doubt is written over. *)
Kept == record.status \in {"succeeded", "in_doubt"} => record' = record

LEMMA StepKeepsOneHolder ==
    ASSUME TypeOK, OneHolder, ServiceCallers, [Next]_vars
    PROVE  OneHolder' /\ Kept
<1> USE DEF TypeOK
<1>a. FailureRetrier = {} /\ Node = {}
  BY DEF ServiceCallers
<1>s. ASSUME record' = record, step' = step, crossed' = crossed, view' = view,
             pc' = pc \/ \E r \in Request : \E place \in {"admitted", "done", "gone"} :
                            pc' = [pc EXCEPT ![r] = place]
      PROVE  OneHolder' /\ Kept
  <2>1. \A q \in Request : /\ CachedCopy(q)' /\ Progress(q)'
                           /\ Holding(q)' => Holding(q)
    BY <1>s DEF OneHolder, CachedCopy, Progress, Started, Holding, Working
  <2>2. RowAndStep' /\ RowColumns'
    BY <1>s DEF OneHolder, RowAndStep, RowColumns
  <2> QED BY <1>s, <2>1, <2>2 DEF OneHolder, Kept
<1>1. CASE UNCHANGED vars \/ Tick \/ Rest
  BY <1>1, <1>s DEF vars, Tick, Rest, Ghosts
<1>2. ASSUME NEW r \in Request, RequestStep(r) PROVE OneHolder' /\ Kept
  <2> USE <1>2
  <2>1. CASE \/ RecordedOutcome(r) \/ Admit(r) \/ Refuse(r) \/ ClaimReplay(r)
             \/ ClaimRefused(r) \/ Vanish(r)
    BY <1>s, <2>1 DEF RecordedOutcome, Admit, Refuse, ClaimReplay, ClaimRefused,
                      Vanish, Replay, Reply, Goto, Ghosts
  <2>2. CASE ClaimNew(r) \/ ClaimApproved(r) \/ ClaimHeld(r) \/ ClaimExpired(r)
    <3>1. Kept
      BY <2>2 DEF ClaimNew, ClaimApproved, ClaimHeld, ClaimExpired, Claimed,
                  Holds, Active, Kept
    <3> QED BY <1>a, <2>2, <3>1, ClaimKeepsOneHolder
  <2>3. CASE ClaimFailed(r)
    BY <1>a, <2>3 DEF ClaimFailed
  <2>4. CASE ClaimInDoubt(r)
    <3>1. /\ record.status = "running" /\ step = "running"
          /\ pc[r] = "admitted" /\ pc' = [pc EXCEPT ![r] = "done"]
          /\ record' = [record EXCEPT !.status = "in_doubt", !.owner = NoOwner,
                                      !.lease = Never]
          /\ step' = "paused" /\ crossed' = crossed /\ view' = view
      BY <2>4 DEF ClaimInDoubt, Reply, Goto, Ghosts, Active, OneHolder,
                  RowColumns, RowAndStep
    <3>2. \A q \in Request : CachedCopy(q)' /\ Progress(q)'
      BY <3>1 DEF OneHolder, CachedCopy, Progress, Started, Working, Final, Record
    <3>3. RowAndStep' /\ RowColumns'
      BY <3>1 DEF RowAndStep, RowColumns, Active, Final, Record
    <3>4. \A q \in Request : Holding(q)' => Holding(q)
      BY <3>1 DEF Holding, Working
    <3> QED BY <3>1, <3>2, <3>3, <3>4 DEF OneHolder, Kept, Record
  <2>5. CASE MarkRunning(r)
    <3>1. Kept
      <4> SUFFICES ASSUME record.status \in {"succeeded", "in_doubt"}
                   PROVE  record' = record
        BY DEF Kept
      <4> DEFINE m == ConditionalMove(StepTransitions, view[r].step, step,
                                      "running")
      <4>1. /\ pc[r] = "claimed" /\ view[r].step \in Startable
            /\ view[r].step \in {"preparing", "waiting_approval"}
        BY <2>5 DEF MarkRunning, OneHolder, CachedCopy, Startable
      <4>2. step \in {"succeeded", "paused"}
        BY DEF OneHolder, RowAndStep, Final
      <4>3. ~m.ok
        BY <4>1, <4>2, StartingMove
      <4> QED BY <1>a, <2>5, <4>1, <4>3 DEF MarkRunning, Abandon
    <3> QED BY <1>a, <2>5, <3>1, MarkKeepsOneHolder
  <2>6. CASE AlreadyRunning(r)
    <3>1. /\ pc[r] = "claimed" /\ view[r].step = "running"
          /\ pc' = [pc EXCEPT ![r] = "marked"]
          /\ UNCHANGED <<record, step, crossed, view>>
      BY <2>6 DEF AlreadyRunning, OneHolder, CachedCopy, Goto, Ghosts
    <3>2. view[r].rec.status = "running"
      BY <2>6 DEF AlreadyRunning
    <3>3. \A q \in Request : /\ CachedCopy(q)' /\ Progress(q)'
                             /\ Holding(q)' => Holding(q)
      BY <3>1, <3>2 DEF OneHolder, CachedCopy, Progress, Started, Holding, Working
    <3>4. RowAndStep' /\ RowColumns' /\ Kept
      BY <3>1 DEF OneHolder, RowAndStep, RowColumns, Kept
    <3> QED BY <3>1, <3>3, <3>4 DEF OneHolder
  <2>7. CASE RenewLease(r)
    <3>1. Kept
      BY <2>7 DEF RenewLease, Active, Kept
    <3> QED BY <2>7, <3>1, RenewKeepsOneHolder
  <2>8. CASE CallTool(r) \/ ToolAnswers(r)
    <3>1. /\ pc[r] \in {"leased", "outbound"}
          /\ \E place \in Working \ {"marked"} : pc' = [pc EXCEPT ![r] = place]
          /\ crossed' \in {crossed, crossed \cup {r}}
          /\ UNCHANGED <<record, step, view>>
      BY <2>8 DEF CallTool, ToolAnswers, Goto, Working
    <3>2. \A q \in Request : CachedCopy(q)' /\ Progress(q)'
      BY <3>1 DEF OneHolder, CachedCopy, Progress, Started, Working
    <3>3. \A q \in Request : Holding(q)' => Holding(q)
      BY <3>1 DEF Holding, Working
    <3>4. RowAndStep' /\ RowColumns' /\ Kept
      BY <3>1 DEF OneHolder, RowAndStep, RowColumns, Kept
    <3> QED BY <3>1, <3>2, <3>3, <3>4 DEF OneHolder
  <2>9. CASE \/ Complete(r) \/ StorageFails(r) \/ LeaseLost(r)
             \/ RaiseBeforeCall(r) \/ Fail(r)
    <3>1. Ends(r)
      BY <1>a, <2>9, AnswerEnds, RaiseEnds
    <3>2. Kept
      BY <3>1 DEF Ends, Kept, Final
    <3> QED BY <3>1, <3>2, EndsKeepsOneHolder
  <2>10. CASE PrepareWaitingApproval(r) \/ RejectApproval(r)
    <3>1. /\ pc[r] = "new" /\ pc' = [pc EXCEPT ![r] = "done"]
          /\ UNCHANGED <<view, crossed>>
          /\ \/ UNCHANGED <<record, step>>
             \/ /\ record.status = "absent" /\ step' = "waiting_approval"
                /\ record'.status = "waiting_approval" /\ ~record'.outbound
             \/ /\ record.status = "waiting_approval" /\ step' = "canceled"
                /\ record'.status = "rejected"
      BY <2>10 DEF PrepareWaitingApproval, RejectApproval, Reply, Goto, Ghosts,
                   NoRecord, Record
    <3>2. CASE UNCHANGED <<record, step>>
      BY <1>s, <3>1, <3>2
    <3>3. CASE record.status \in {"absent", "waiting_approval"} /\ ~UNCHANGED <<record, step>>
      <4>1. \A q \in Request : /\ pc[q] \notin Working \cup {"claimed"}
                               /\ q \notin crossed
        BY <3>3 DEF OneHolder, Progress, Started, Final
      <4>2. \A q \in Request : CachedCopy(q)' /\ Progress(q)' /\ ~Holding(q)'
        BY <3>1, <4>1 DEF OneHolder, CachedCopy, Progress, Started, Holding, Working
      <4>3. RowAndStep' /\ RowColumns' /\ Kept
        BY <3>1, <3>3 DEF RowAndStep, RowColumns, Kept, Active, Final
      <4> QED BY <4>2, <4>3 DEF OneHolder
    <3> QED BY <3>1, <3>2, <3>3
  <2> QED BY <2>1, <2>2, <2>3, <2>4, <2>5, <2>6, <2>7, <2>8, <2>9, <2>10
          DEF RequestStep, Invoke
<1> QED BY <1>1, <1>2 DEF Next

THEOREM OneHolderHolds ==
    ASSUME ServiceCallers PROVE Spec => []OneHolder
<1>1. Init => OneHolder
  BY DEF Init, OneHolder, CachedCopy, Progress, Started, Holding, Working, RowAndStep,
         RowColumns, NoRecord, Active, Final
<1>2. TypeOK /\ OneHolder /\ [Next]_vars => OneHolder'
  BY StepKeepsOneHolder
<1> QED BY <1>1, <1>2, TypeCorrect, PTL DEF Spec

(* Whatever leases expire and whoever stalls or dies, one request crosses  *)
(* the outbound boundary. *)
THEOREM AtMostOnceHolds ==
    ASSUME ServiceCallers PROVE Spec => []AtMostOnce
<1>1. OneHolder /\ TypeOK => AtMostOnce
  BY DEF OneHolder, Holding, AtMostOnce, TypeOK
<1> QED BY <1>1, OneHolderHolds, TypeCorrect, PTL

(* A recorded success is never written over, nor is a call in doubt. *)
THEOREM OutcomeStays ==
    ASSUME ServiceCallers PROVE Spec => OutcomeIsFinal
<1>1. /\ TypeOK /\ OneHolder /\ [Next]_vars
      => [record.status \in {"succeeded", "in_doubt"} => record' = record]_vars
  BY StepKeepsOneHolder DEF Kept
<1> QED BY <1>1, OneHolderHolds, TypeCorrect, PTL DEF Spec, OutcomeIsFinal

(* An ended call and its step have ended the same way. *)
THEOREM StepAgreesHolds ==
    ASSUME ServiceCallers PROVE Spec => []StepAgrees
<1>1. OneHolder => StepAgrees
  BY DEF OneHolder, RowAndStep, StepAgrees
<1> QED BY <1>1, OneHolderHolds, PTL

-----------------------------------------------------------------------------
(* A success was served, whichever request wrote the record it is read     *)
(* from: here no assumption is made on the callers.                        *)

Unserved ==
    /\ record.status # "succeeded"
    /\ \A r \in Request : pc[r] # "tool_succeeded" /\ answer[r] \notin {"success", "replay_success"}

ServedInv == served # {} \/ Unserved

(* A request that goes somewhere and is told no success leaves it so.      *)
LEMMA UnservedReply ==
    ASSUME TypeOK, Unserved, NEW r \in Request, NEW place \in Place \ {"tool_succeeded"},
           NEW a \in Answer \ {"success", "replay_success"},
           Goto(r, place), answer' \in {answer, [answer EXCEPT ![r] = a]},
           record'.status # "succeeded"
    PROVE  Unserved'
BY DEF TypeOK, Unserved, Goto

LEMMA UnservedHandle ==
    ASSUME TypeOK, Unserved, NEW r \in Request, NEW mine, NEW mark, NEW seen, NEW s,
           mark.status # "succeeded", Handle(r, mine, mark, seen, s)
    PROVE  Unserved'
<1>1. record'.status # "succeeded"
  BY DEF Handle, Abandon, TypeOK, Record, Unserved
<1>2. Reply(r, "error")
  BY DEF Handle, Abandon
<1>. QED BY <1>1, <1>2, UnservedReply DEF Reply, Place, Answer

LEMMA ServedStep ==
    ASSUME TypeOK, ServedInv, [Next]_vars
    PROVE  ServedInv'
<1>1. CASE served # {}
  <2>1. served \subseteq served'
    <3>1. ASSUME NEW r \in Request, RequestStep(r) PROVE served \subseteq served'
      BY <3>1 DEF RequestStep, Invoke, Handle, Abandon, Claimed, Ghosts, RecordedOutcome, Admit, Refuse,
         ClaimNew, ClaimApproved, ClaimHeld, ClaimFailed, ClaimReplay, ClaimExpired, ClaimInDoubt,
         ClaimRefused, MarkRunning, AlreadyRunning, RenewLease, LeaseLost, RaiseBeforeCall,
         CallTool, ToolAnswers, Complete, StorageFails, Fail, Vanish,
         PrepareWaitingApproval, RejectApproval
    <3>. QED BY <3>1 DEF Next, Tick, Rest, vars, Ghosts
  <2>. QED BY <1>1, <2>1 DEF ServedInv
<1>. SUFFICES ASSUME Unserved PROVE ServedInv'
  BY <1>1 DEF ServedInv
<1>2. CASE UNCHANGED vars \/ Tick \/ Rest
  BY <1>2 DEF vars, Tick, Rest, Ghosts, ServedInv, Unserved
<1>3. ASSUME NEW r \in Request, RequestStep(r) PROVE ServedInv'
  <2>1. CASE RecordedOutcome(r) \/ ClaimReplay(r)
    <3>1. record.status = "failed" /\ UNCHANGED record
      BY <2>1 DEF RecordedOutcome, ClaimReplay, Replayed, Final, Unserved
    <3>2. Reply(r, "replay_failure")
      BY <2>1, <3>1 DEF RecordedOutcome, ClaimReplay, Replay
    <3>. QED BY <3>1, <3>2, UnservedReply DEF Reply, Place, Answer, ServedInv, Unserved
  <2>2. CASE Admit(r) \/ Refuse(r) \/ Vanish(r)
    <3>1. UNCHANGED record /\ \E place \in {"admitted", "done", "gone"} : Goto(r, place)
      BY <2>2 DEF Admit, Refuse, Vanish, Reply
    <3>2. answer' \in {answer, [answer EXCEPT ![r] = "error"]}
      BY <2>2 DEF Admit, Refuse, Vanish, Reply
    <3>. QED BY <3>1, <3>2, UnservedReply DEF Place, Answer, ServedInv, Unserved
  <2>3. CASE ClaimNew(r) \/ ClaimApproved(r) \/ ClaimHeld(r) \/ ClaimFailed(r) \/ ClaimExpired(r)
    <3>1. Goto(r, "claimed") /\ UNCHANGED answer
      BY <2>3 DEF ClaimNew, ClaimApproved, ClaimHeld, ClaimFailed, ClaimExpired, Claimed
    <3>2. record'.status # "succeeded"
      BY <2>3 DEF ClaimNew, ClaimApproved, ClaimHeld, ClaimFailed, ClaimExpired, Claimed, Leased,
                  NoRecord, TypeOK, Record, Unserved
    <3>. QED BY <3>1, <3>2, UnservedReply DEF Place, Answer, ServedInv
  <2>4. CASE ClaimInDoubt(r) \/ ClaimRefused(r)
    <3>1. record'.status # "succeeded"
      BY <2>4 DEF ClaimInDoubt, ClaimRefused, TypeOK, Record, Unserved
    <3>2. Reply(r, "in_doubt") \/ Reply(r, "in_flight")
      BY <2>4 DEF ClaimInDoubt, ClaimRefused
    <3>. QED BY <3>1, <3>2, UnservedReply DEF Reply, Place, Answer, ServedInv
  <2>5. CASE MarkRunning(r)
    <3>1. record'.status # "succeeded"
      BY <2>5 DEF MarkRunning, Abandon, Marked, TypeOK, Record, Unserved
    <3>2. (Goto(r, "marked") /\ UNCHANGED answer) \/ Reply(r, "error")
      BY <2>5 DEF MarkRunning, Abandon
    <3>. QED BY <3>1, <3>2, UnservedReply DEF Reply, Place, Answer, ServedInv
  <2>6. CASE AlreadyRunning(r) \/ RenewLease(r) \/ CallTool(r)
    <3>1. record'.status # "succeeded"
      BY <2>6 DEF AlreadyRunning, RenewLease, CallTool, TypeOK, Record, Unserved
    <3>2. UNCHANGED answer /\ \E place \in {"marked", "leased", "outbound"} : Goto(r, place)
      BY <2>6 DEF AlreadyRunning, RenewLease, CallTool
    <3>. QED BY <3>1, <3>2, UnservedReply DEF Place, Answer, ServedInv
  <2>7. CASE LeaseLost(r) \/ RaiseBeforeCall(r) \/ Fail(r)
    <3>1. \E mine, seen : Handle(r, mine, record, seen, step)
      BY <2>7 DEF LeaseLost, RaiseBeforeCall, Fail
    <3>. QED BY <3>1, UnservedHandle DEF ServedInv, Unserved
  <2>8. CASE ToolAnswers(r)
    <3>1. CASE served' = served \cup {r}
      BY <3>1 DEF ServedInv
    <3>2. CASE UNCHANGED <<record, answer>> /\ \E place \in {"tool_failed", "raised"} : Goto(r, place)
      <4>1. record'.status # "succeeded"
        BY <3>2 DEF Unserved
      <4>2. "error" \in Answer \ {"success", "replay_success"} /\ {"tool_failed", "raised"} \subseteq Place \ {"tool_succeeded"}
        BY DEF Answer, Place
      <4>3. Unserved'
        BY <3>2, <4>1, <4>2, UnservedReply
      <4>. QED BY <4>3 DEF ServedInv
    <3>. QED BY <2>8, <3>1, <3>2 DEF ToolAnswers
  <2>9. CASE Complete(r) \/ StorageFails(r)
    <3>1. pc[r] = "tool_failed" /\ Outcome(r) = "failed"
      BY <2>9 DEF Complete, StorageFails, Outcome, Unserved
    <3>2. CASE record' = Finished(record, r) /\ Reply(r, "failure")
      <4>1. record'.status # "succeeded"
        BY <3>1, <3>2 DEF Finished, TypeOK, Record
      <4>. QED BY <3>2, <4>1, UnservedReply DEF Reply, Place, Answer, ServedInv
    <3>3. CASE \E mine, seen, s : Handle(r, mine, record, seen, s)
      BY <3>3, UnservedHandle DEF ServedInv, Unserved
    <3>4. CASE \E mine, seen, s : Handle(r, mine, [record EXCEPT !.status = "failed"], seen, s)
      <4>1. [record EXCEPT !.status = "failed"].status # "succeeded"
        BY DEF TypeOK, Record
      <4>. QED BY <3>4, <4>1, UnservedHandle DEF ServedInv
    <3>. QED BY <2>9, <3>1, <3>2, <3>3, <3>4 DEF Complete, StorageFails
  <2>10. CASE PrepareWaitingApproval(r) \/ RejectApproval(r)
    <3>1. record'.status # "succeeded"
      BY <2>10 DEF PrepareWaitingApproval, RejectApproval, NoRecord, TypeOK, Record, Unserved
    <3>2. Reply(r, "waiting") \/ Reply(r, "conflict") \/ Reply(r, "rejected")
      BY <2>10 DEF PrepareWaitingApproval, RejectApproval
    <3>. QED BY <3>1, <3>2, UnservedReply DEF Reply, Place, Answer, ServedInv
  <2>. QED BY <1>3, <2>1, <2>2, <2>3, <2>4, <2>5, <2>6, <2>7, <2>8, <2>9, <2>10
           DEF RequestStep, Invoke
<1>. QED BY <1>2, <1>3 DEF Next

(* Nobody is told of a success the tool did not report (ledger.py), for    *)
(* callers of every kind: workflow nodes, retries, several under one lease *)
(* owner.                                                                  *)
THEOREM SuccessWasServedHolds == Spec => []SuccessWasServed
<1>1. Init => ServedInv
  BY DEF Init, NoRecord, ServedInv, Unserved
<1>2. TypeOK /\ ServedInv /\ [Next]_vars => ServedInv'
  BY ServedStep
<1>3. ServedInv => SuccessWasServed
  BY DEF ServedInv, Unserved, SuccessWasServed
<1>. QED BY <1>1, <1>2, <1>3, TypeCorrect, PTL DEF Spec

-----------------------------------------------------------------------------
(* The invocation service. *)

(* Every step of the service is a step of the ledger, or none. *)
LEMMA ServiceStepIsLedgerStep == [ServiceNext]_allVars => [Next]_vars
<1> SUFFICES ASSUME [ServiceNext]_allVars PROVE [Next]_vars
  OBVIOUS
<1>1. CASE UNCHANGED allVars
  BY <1>1 DEF allVars
<1>2. CASE Clock
  BY <1>2 DEF Clock, Next
<1>3. CASE Decide \/ Quiet
  BY <1>3 DEF Decide, Quiet, allVars
<1>4. ASSUME NEW r \in Request, ServiceStep(r) PROVE [Next]_vars
  <2>1. CASE \/ Start(r) \/ QuotaRefused(r) \/ CallUngated(r) \/ RunWaits(r)
             \/ OpenApproval(r) \/ FindRejected(r) \/ FindUndecided(r)
             \/ FindDecided(r) \/ FindStarted(r) \/ ResumeRun(r) \/ CancelRun(r)
    BY <2>1 DEF Start, QuotaRefused, CallUngated, RunWaits, OpenApproval,
                FindRejected, FindUndecided, FindDecided, FindStarted,
                ResumeRun, CancelRun
  <2>2. CASE \/ FinishRun(r) \/ LeaveRun(r) \/ SettleRun(r) \/ WaitAgain(r)
             \/ FailRun(r) \/ DieInService(r)
    BY <2>2 DEF FinishRun, LeaveRun, SettleRun, WaitAgain, FailRun, DieInService
  <2>3. CASE Prepare(r) \/ Reject(r) \/ InGateway(r) \/ DieInGateway(r)
    <3>1. RequestStep(r)
      BY <2>3 DEF Prepare, Reject, InGateway, DieInGateway, RequestStep
    <3> QED BY <3>1 DEF Next
  <2> QED BY <1>4, <2>1, <2>2, <2>3 DEF ServiceStep
<1> QED BY <1>1, <1>2, <1>3, <1>4 DEF ServiceNext

(* So what is proved of the ledger holds where the service drives it. *)
LEMMA OnTheLedger == ServiceSpec => Spec
<1>1. ServiceInit => Init
  BY DEF ServiceInit
<1> QED BY <1>1, ServiceStepIsLedgerStep, PTL DEF ServiceSpec, Spec

(* So a key's call goes out at most once, whoever repeats it. *)
THEOREM KeySentOnce ==
    ASSUME ServiceCallers PROVE ServiceSpec => []AtMostOnce
  BY OnTheLedger, AtMostOnceHolds, PTL

(* The variables of the service the approval argument is about keep their  *)
(* shape. *)
Shape ==
    /\ stage \in [Request -> Stage]
    /\ told \in [Request -> {"none", "waiting", "rejected", "result", "error"}]

LEMMA ShapeHolds == ServiceSpec => []Shape
<1>1. ServiceInit => Shape
  BY DEF ServiceInit, Shape, Stage
<1>2. Shape /\ [ServiceNext]_allVars => Shape'
  <2> SUFFICES ASSUME Shape, [ServiceNext]_allVars PROVE Shape'
    OBVIOUS
  <2> USE DEF Shape, Stage, To, Tell
  <2>1. CASE UNCHANGED allVars \/ Clock \/ Decide \/ Quiet
    BY <2>1 DEF allVars, serviceVars, Clock, Decide, Quiet
  <2>2. ASSUME NEW r \in Request, ServiceStep(r) PROVE Shape'
    <3>1. CASE \/ Start(r) \/ QuotaRefused(r) \/ CallUngated(r) \/ RunWaits(r)
               \/ OpenApproval(r) \/ FindRejected(r) \/ FindUndecided(r)
               \/ FindDecided(r) \/ FindStarted(r) \/ ResumeRun(r)
               \/ CancelRun(r) \/ Prepare(r)
      BY <3>1 DEF Start, QuotaRefused, CallUngated, RunWaits, OpenApproval,
                  FindRejected, FindUndecided, FindDecided, FindStarted,
                  ResumeRun, CancelRun, Prepare
    <3>2. CASE \/ FinishRun(r) \/ LeaveRun(r) \/ WaitAgain(r)
               \/ FailRun(r) \/ DieInService(r) \/ DieInGateway(r)
               \/ Reject(r) \/ InGateway(r)
      BY <3>2 DEF FinishRun, LeaveRun, WaitAgain, FailRun, DieInService,
                  DieInGateway, Reject, InGateway, serviceVars
    <3>3. CASE SettleRun(r)
      <4>1. /\ \E s \in {"over", "returning", "failing"} : To(r, s)
            /\ told' \in {told, [told EXCEPT ![r] = "error"]}
        BY <3>3 DEF SettleRun
      <4> QED BY <4>1
    <3> QED BY <2>2, <3>1, <3>2, <3>3 DEF ServiceStep
  <2> QED BY <2>1, <2>2 DEF ServiceNext
<1> QED BY <1>1, <1>2, PTL DEF ServiceSpec

(* Decisions, waiting calls and requests agree at every step. *)
LEMMA ApprovalHolds == ServiceSpec => []Approval
<1>1. ServiceInit => Approval
  BY DEF ServiceInit, Init, NoRecord, Approval
<1>2. TypeOK /\ Shape /\ Approval /\ [ServiceNext]_allVars => Approval'
  <2> SUFFICES ASSUME TypeOK, Shape, Approval, [ServiceNext]_allVars PROVE Approval'
    OBVIOUS
  <2> USE StarterAssumption DEF Shape, To, Tell
  <2>1. CASE UNCHANGED allVars \/ Quiet
    BY <2>1 DEF Quiet, allVars, vars, serviceVars, Approval
  <2>2. CASE Clock
    BY <2>2 DEF Clock, Tick, Ghosts, serviceVars, Approval
  <2>3. CASE Decide
    <3>1. decision = "pending" /\ UNCHANGED <<record, gated, stage>>
      BY <2>3 DEF Decide, vars
    <3> QED BY <3>1 DEF Approval
  <2>4. ASSUME NEW r \in Request, ServiceStep(r) PROVE Approval'
    <3>1. CASE \/ Start(r) \/ QuotaRefused(r) \/ RunWaits(r)
               \/ FindRejected(r) \/ FindUndecided(r)
               \/ FindDecided(r) \/ CancelRun(r)
      BY <3>1 DEF Start, QuotaRefused, RunWaits, FindRejected, FindUndecided,
                  FindDecided, CancelRun, vars, Approval
    <3>2. CASE CallUngated(r) \/ FindStarted(r) \/ ResumeRun(r) \/ OpenApproval(r)
      BY <3>2 DEF CallUngated, FindStarted, ResumeRun, OpenApproval, vars, Approval
    <3>3. CASE \/ FinishRun(r) \/ LeaveRun(r) \/ WaitAgain(r) \/ FailRun(r)
               \/ DieInService(r)
      BY <3>3 DEF FinishRun, LeaveRun, WaitAgain, FailRun, DieInService,
                  Returned, vars, Approval
    <3>4. CASE SettleRun(r)
      <4>1. /\ UNCHANGED <<record, gated, decision>> /\ stage[r] = "called"
            /\ \E s \in {"over", "returning", "failing"} :
                 stage' = [stage EXCEPT ![r] = s]
        BY <3>4 DEF SettleRun, Returned, vars
      <4> QED BY <4>1 DEF Approval
    <3>5. CASE Prepare(r)
      <4>1. /\ record'.status \in {record.status, "waiting_approval"}
            /\ stage[r] = "started" /\ stage' = [stage EXCEPT ![r] = "prepared"]
            /\ UNCHANGED <<gated, decision>>
        BY <3>5 DEF Prepare, PrepareWaitingApproval, NoRecord
      <4> QED BY <4>1 DEF Approval
    <3>6. CASE Reject(r)
      <4>1. /\ \/ record' = record
               \/ record' = [record EXCEPT !.status = "rejected"]
            /\ stage[r] = "rejecting"
            /\ \E s \in {"canceling", "over"} : stage' = [stage EXCEPT ![r] = s]
            /\ UNCHANGED <<gated, decision>>
        BY <3>6 DEF Reject, RejectApproval
      <4>2. record'.status \in {record.status, "rejected"}
        BY <4>1 DEF TypeOK, Record
      <4> QED BY <4>1, <4>2 DEF Approval
    <3>7. CASE InGateway(r)
      BY <3>7 DEF InGateway, serviceVars, Approval
    <3>8. CASE DieInGateway(r)
      BY <3>8 DEF DieInGateway, Vanish, Approval
    <3> QED BY <2>4, <3>1, <3>2, <3>3, <3>4, <3>5, <3>6, <3>7, <3>8
            DEF ServiceStep
  <2> QED BY <2>1, <2>2, <2>3, <2>4 DEF ServiceNext
<1> QED BY <1>1, <1>2, ShapeHolds, OnTheLedger, TypeCorrect, PTL
           DEF ServiceSpec

(* A gated call goes out only once it is approved. *)
THEOREM OnlyApprovedHolds ==
    ASSUME ServiceCallers PROVE ServiceSpec => []OnlyApprovedRuns
<1>1. Approval /\ OneHolder /\ TypeOK => OnlyApprovedRuns
  BY DEF Approval, OneHolder, Progress, Started, Final, TypeOK, OnlyApprovedRuns
<1> QED BY <1>1, ApprovalHolds, OnTheLedger, OneHolderHolds, TypeCorrect, PTL

-----------------------------------------------------------------------------
(* What the run and the answers tell of the call.  First what the gateway  *)
(* leaves behind.                                                          *)

(* What a request was told of the call's outcome is its status. *)
AnswerTrue(r) ==
    /\ answer[r] \in {"success", "replay_success", "replay_empty"} => record.status = "succeeded"
    /\ answer[r] \in {"failure", "replay_failure"} => record.status = "failed"

(* A record is nobody's that has not claimed it, and a request that ended  *)
(* does not leave a record of its own behind that may still be claimed: a  *)
(* claim it did not mark running was not its own any more.                 *)
LeftBehind(r) ==
    /\ pc[r] \in {"new", "admitted"} => record.owner # OwnerOf[r]
    /\ pc[r] = "claimed" /\ record.status = "claimed" => view[r].step = step
    /\ pc[r] = "done" /\ record.owner = OwnerOf[r] => record.status # "claimed"

GatewayInv == \A r \in Request : AnswerTrue(r) /\ LeftBehind(r)

(* The call can no longer succeed: it has ended otherwise, or it is marked *)
(* running for a request that is over.                                     *)
Lost ==
    \/ record.status \in {"failed", "rejected", "in_doubt"}
    \/ record.status = "running" /\ \E q \in Request : pc[q] = "done" /\ record.owner = OwnerOf[q]

(* No approval of the call was opened, and none will be. *)
Undecidable == decision = "none" /\ stage[Starter] \in {"failing", "over", "dead"}

(* The steps of the service are taken by those they are for. *)
Staffed ==
    /\ \A r \in Request : stage[r] \in {"approved", "rejecting", "canceling", "returning"} => r # Starter
    /\ gated => stage[Starter] # "called"
    /\ decision # "none" \/ stage[Starter] \in {"prepared", "opening"} => record.status # "absent"

RunInv ==
    /\ Staffed
    /\ \A r \in Request : stage[r] = "canceling" => record.status = "rejected"
    /\ run = "succeeded" => record.status = "succeeded"
    /\ run = "canceled" => record.status = "rejected"
    /\ gated /\ (run = "failed" \/ \E r \in Request : stage[r] = "failing") => Lost \/ Undecidable
    /\ \A r \in Request : /\ told[r] = "rejected" => record.status = "rejected"
                          /\ told[r] = "result" => record.status \in Final

(* How a call ended stays, and so does its record. *)
Lasting ==
    /\ record.status \in {"succeeded", "failed", "rejected", "in_doubt"} => record'.status = record.status
    /\ record.status # "absent" => record'.status # "absent"

Leaves == GatewayInv' /\ Lasting /\ (Lost => Lost')

(* A request that is told something while the record stays. *)
LEMMA ReplyLeaves ==
    ASSUME TypeOK, GatewayInv, NEW r \in Request, NEW place \in {"admitted", "done", "gone"}, NEW a \in Answer,
           UNCHANGED <<record, step, view>>, pc' = [pc EXCEPT ![r] = place],
           pc[r] # "done", place = "gone" \/ pc[r] \in {"new", "admitted"},
           answer' \in {answer, [answer EXCEPT ![r] = a]},
           a \in {"success", "replay_success", "replay_empty"} => record.status = "succeeded",
           a \in {"failure", "replay_failure"} => record.status = "failed"
    PROVE  Leaves
<1>1. \A q \in Request : AnswerTrue(q)'
  BY DEF TypeOK, GatewayInv, AnswerTrue
<1>2. \A q \in Request : LeftBehind(q)'
  BY DEF TypeOK, GatewayInv, LeftBehind
<1>3. Lost => Lost'
  BY DEF TypeOK, Lost
<1>. QED BY <1>1, <1>2, <1>3 DEF Leaves, GatewayInv, Lasting

(* A claim is of a record that nobody has been told of. *)
LEMMA ClaimLeaves ==
    ASSUME TypeOK, OneHolder, ServiceCallers, GatewayInv, NEW r \in Request,
           ClaimNew(r) \/ ClaimApproved(r) \/ ClaimHeld(r) \/ ClaimExpired(r)
    PROVE  Leaves
<1>1. ~ClaimHeld(r)
  BY DEF ClaimHeld, Holds, GatewayInv, LeftBehind
<1>2. /\ pc[r] = "admitted" /\ pc' = [pc EXCEPT ![r] = "claimed"] /\ UNCHANGED answer
      /\ view' = [view EXCEPT ![r] = [rec |-> record', step |-> step']]
  BY DEF ClaimNew, ClaimApproved, ClaimHeld, ClaimExpired, Claimed, Cache, Goto
<1>3. /\ record.status \in {"absent", "waiting_approval", "claimed"}
      /\ record'.status = "claimed" /\ record'.owner = OwnerOf[r]
      /\ record.status = "claimed" => step' = step
  BY <1>1 DEF ClaimNew, ClaimApproved, ClaimExpired, Claimed, Leased, NoRecord,
              TypeOK, OneHolder, RowColumns, Record, Active
<1>4. \A q \in Request : AnswerTrue(q)'
  BY <1>2, <1>3 DEF GatewayInv, AnswerTrue
<1>5. \A q \in Request : pc[q] = "claimed" => record.status = "claimed"
  BY <1>3 DEF OneHolder, Progress
<1>6. ASSUME NEW q \in Request PROVE LeftBehind(q)'
  <2>1. CASE q = r
    BY <1>2, <2>1 DEF TypeOK, LeftBehind
  <2>2. CASE q # r
    <3>1. pc'[q] = pc[q] /\ view'[q] = view[q] /\ OwnerOf[q] # record'.owner
      BY <1>2, <1>3, <2>2 DEF TypeOK, ServiceCallers
    <3>. QED BY <1>3, <1>5, <3>1 DEF GatewayInv, LeftBehind
  <2>. QED BY <2>1, <2>2
<1>. QED BY <1>3, <1>4, <1>6 DEF Leaves, GatewayInv, Lasting, Lost

(* A request that does not get to mark its claim running had lost it. *)
LEMMA MarkLeaves ==
    ASSUME TypeOK, OneHolder, ServiceCallers, GatewayInv, NEW r \in Request, MarkRunning(r)
    PROVE  Leaves
<1>. DEFINE m == ConditionalMove(StepTransitions, view[r].step, step, "running")
<1>1. /\ pc[r] = "claimed" /\ view[r].rec.status = "claimed"
      /\ view[r].step \in {"preparing", "waiting_approval"} /\ view[r].step \in Startable
  BY DEF MarkRunning, OneHolder, CachedCopy, Startable
<1>2. CASE ~m.ok
  <2>1. Abandon(r, Marked(record), m.row)
    BY <1>1, <1>2 DEF MarkRunning
  <2>2. /\ UNCHANGED <<record, step, view>> /\ pc' = [pc EXCEPT ![r] = "done"]
        /\ answer' = [answer EXCEPT ![r] = "error"]
    BY <2>1 DEF Abandon, Reply, Goto, Ghosts, ServiceCallers
  <2>3. view[r].step # step
    <3>1. "running" \in StepTransitions[view[r].step]
      BY <1>1 DEF StepTransitions, RunTransitions, StepStatus, RunStatus, Unsuccessful
    <3>. QED BY <1>2, <3>1 DEF ConditionalMove
  <2>4. record.status # "claimed"
    BY <1>1, <2>3 DEF GatewayInv, LeftBehind
  <2>5. \A q \in Request : AnswerTrue(q)' /\ LeftBehind(q)'
    BY <2>2, <2>4 DEF TypeOK, GatewayInv, AnswerTrue, LeftBehind
  <2>6. Lost => Lost'
    BY <1>1, <2>2 DEF TypeOK, Lost
  <2>. QED BY <2>2, <2>5, <2>6 DEF Leaves, GatewayInv, Lasting
<1>3. CASE m.ok
  <2>1. m.row = "running" /\ step \in {"preparing", "waiting_approval", "running"}
    BY <1>1, <1>3, StartingMove DEF TypeOK
  <2>2. record.status \in Active
    BY <1>1, <2>1 DEF TypeOK, OneHolder, Progress, RowAndStep, Active, Final, Record, CallStatus
  <2>3. /\ record' = Marked(record) /\ pc' = [pc EXCEPT ![r] = "marked"] /\ UNCHANGED answer
    BY <1>1, <1>3 DEF MarkRunning, Goto, Ghosts
  <2>4. record'.status = "running" /\ record'.owner = record.owner
    BY <2>3 DEF Marked, TypeOK, Record
  <2>5. \A q \in Request : AnswerTrue(q)' /\ LeftBehind(q)'
    BY <1>1, <2>2, <2>3, <2>4 DEF TypeOK, GatewayInv, AnswerTrue, LeftBehind, Active
  <2>6. Lost => Lost'
    BY <1>1, <2>2, <2>3, <2>4 DEF TypeOK, Lost, Active
  <2>. QED BY <2>2, <2>4, <2>5, <2>6 DEF Leaves, GatewayInv, Lasting, Active
<1>. QED BY <1>2, <1>3

(* What a request does while it works on the call, short of ending. *)
LEMMA WorkLeaves ==
    ASSUME TypeOK, GatewayInv, NEW r \in Request, NEW place \in Working,
           pc[r] \in Working \cup {"claimed"}, pc' = [pc EXCEPT ![r] = place],
           record'.status = record.status, record'.owner = record.owner, UNCHANGED <<step, answer>>,
           \A q \in Request : view'[q].step = view[q].step
    PROVE  Leaves
<1>1. \A q \in Request : AnswerTrue(q)' /\ LeftBehind(q)'
  BY DEF TypeOK, GatewayInv, AnswerTrue, LeftBehind, Working
<1>2. Lost => Lost'
  BY DEF TypeOK, Lost, Working
<1>. QED BY <1>1, <1>2 DEF Leaves, GatewayInv, Lasting

(* Only the request the tool reported a success to records one, and it is  *)
(* told what it recorded. *)
LEMMA EndsTold ==
    ASSUME TypeOK, OneHolder, Node = {}, NEW r \in Request,
           \/ Complete(r) \/ StorageFails(r)
           \/ LeaseLost(r) \/ RaiseBeforeCall(r) \/ Fail(r)
    PROVE  /\ Ends(r)
           /\ pc[r] = "tool_succeeded" \/ record' = record \/ record'.status = "failed"
           /\ \E a \in Answer :
                /\ answer' = [answer EXCEPT ![r] = a]
                /\ a = "error" \/ (a = "success" /\ record'.status = "succeeded")
                   \/ (a = "failure" /\ record'.status = "failed")
<1>1. Ends(r)
  BY AnswerEnds, RaiseEnds
<1>2. CASE \E mine, mark, seen, s : Handle(r, mine, mark, seen, s)
  <2>1. record' = record \/ record'.status = "failed"
    BY <1>2 DEF Handle, Abandon, TypeOK, Record
  <2>2. answer' = [answer EXCEPT ![r] = "error"] /\ "error" \in Answer
    BY <1>2 DEF Handle, Abandon, Reply, Answer
  <2>. QED BY <1>1, <2>1, <2>2
<1>3. CASE /\ record' = Finished(record, r) /\ pc[r] \in {"tool_succeeded", "tool_failed"}
           /\ Reply(r, IF Outcome(r) = "succeeded" THEN "success" ELSE "failure")
  <2>1. record'.status = Outcome(r) /\ Outcome(r) = IF pc[r] = "tool_succeeded" THEN "succeeded" ELSE "failed"
    BY <1>3 DEF Finished, TypeOK, Record, Outcome
  <2>. QED BY <1>1, <1>3, <2>1 DEF Reply, Answer
<1>. QED BY <1>2, <1>3 DEF Complete, StorageFails, LeaseLost, RaiseBeforeCall, Fail

LEMMA EndsLeaves ==
    ASSUME TypeOK, OneHolder, ServiceCallers, GatewayInv, NEW r \in Request,
           \/ Complete(r) \/ StorageFails(r)
           \/ LeaseLost(r) \/ RaiseBeforeCall(r) \/ Fail(r)
    PROVE  Leaves
<1>. Node = {}
  BY DEF ServiceCallers
<1>1. /\ pc' = [pc EXCEPT ![r] = "done"] /\ UNCHANGED view
      /\ \/ UNCHANGED <<record, step>>
         \/ /\ record.status \in {"running", record'.status}
            /\ record'.status \in Final /\ record'.owner = NoOwner
  BY EndsTold DEF Ends
<1>2. pc[r] = "tool_succeeded" \/ record' = record \/ record'.status = "failed"
  BY EndsTold
<1>3. PICK a \in Answer :
         /\ answer' = [answer EXCEPT ![r] = a]
         /\ a = "error" \/ (a = "success" /\ record'.status = "succeeded")
            \/ (a = "failure" /\ record'.status = "failed")
  BY EndsTold
<1>4. pc[r] \in Working
  BY DEF Complete, StorageFails, LeaseLost, RaiseBeforeCall, Fail, Working
<1>5. record.status \in {"running", "in_doubt"} \cup Final
  BY <1>4 DEF OneHolder, Progress, Started
<1>6. Lasting
  BY <1>1 DEF Lasting, Final
<1>7. \A q \in Request : AnswerTrue(q)'
  BY <1>3, <1>6 DEF TypeOK, GatewayInv, AnswerTrue, Lasting
<1>8. ASSUME NEW q \in Request PROVE LeftBehind(q)'
  <2>1. OwnerOf[q] # NoOwner
    BY RequestsAssumption
  <2>2. record'.status # "claimed"
    BY <1>1, <1>5 DEF Final
  <2>3. pc'[q] \in {"new", "admitted"} => pc[q] = pc'[q]
    BY <1>1 DEF TypeOK
  <2>. QED BY <1>1, <2>1, <2>2, <2>3 DEF GatewayInv, LeftBehind
<1>9. ASSUME Lost PROVE Lost'
  <2>1. CASE record' = record
    BY <1>1, <1>4, <1>9, <2>1 DEF TypeOK, Lost, Working
  <2>2. CASE record'.status = "failed"
    BY <2>2 DEF Lost
  <2>3. CASE pc[r] = "tool_succeeded" /\ record.status = "running"
    <3>1. PICK q \in Request : pc[q] = "done" /\ record.owner = OwnerOf[q]
      BY <1>9, <2>3 DEF Lost
    <3>2. record.owner = OwnerOf[r]
      BY <2>3 DEF OneHolder, Holding, Working
    <3>. QED BY <2>3, <3>1, <3>2 DEF ServiceCallers
  <2>4. CASE record.status # "running"
    BY <1>1, <1>9, <2>1, <2>4 DEF Lost
  <2>. QED BY <1>2, <2>1, <2>2, <2>3, <2>4
<1>. QED BY <1>6, <1>7, <1>8, <1>9 DEF Leaves, GatewayInv

LEMMA GatewayStep ==
    ASSUME TypeOK, OneHolder, ServiceCallers, GatewayInv, [Next]_vars
    PROVE  Leaves
<1>1. CASE UNCHANGED vars \/ Tick \/ Rest
  <2>1. UNCHANGED <<record, step, view, pc, answer>>
    BY <1>1 DEF vars, Tick, Rest, Ghosts
  <2>. QED BY <2>1 DEF Leaves, GatewayInv, AnswerTrue, LeftBehind, Lasting, Lost
<1>2. ASSUME NEW r \in Request, RequestStep(r) PROVE Leaves
  <2>1. CASE RecordedOutcome(r) \/ ClaimReplay(r)
    <3>1. /\ record.status \in Final /\ pc[r] \in {"new", "admitted"}
          /\ UNCHANGED <<record, step, view>>
          /\ \E a \in {"replay_empty", "replay_success", "replay_failure"} :
                Reply(r, a) /\ (a = "replay_failure" <=> record.status # "succeeded")
      BY <2>1 DEF RecordedOutcome, ClaimReplay, Replayed, Replay
    <3>. QED BY <3>1, ReplyLeaves DEF Reply, Goto, Answer, Final
  <2>2. CASE Admit(r) \/ Refuse(r) \/ Vanish(r) \/ ClaimRefused(r)
    <3>1. UNCHANGED <<record, step, view>>
      BY <2>2 DEF Admit, Refuse, Vanish, ClaimRefused
    <3>2. CASE Admit(r) \/ Vanish(r)
      <4>1. /\ UNCHANGED answer /\ pc[r] # "done"
            /\ \E place \in {"admitted", "gone"} :
                    pc' = [pc EXCEPT ![r] = place] /\ (place = "gone" \/ pc[r] = "new")
        BY <3>2 DEF Admit, Vanish, Goto
      <4>2. "none" \in Answer
        BY DEF Answer
      <4>. QED BY <3>1, <4>1, <4>2, ReplyLeaves
    <3>3. CASE Refuse(r) \/ ClaimRefused(r)
      <4>1. /\ pc[r] \in {"new", "admitted"}
            /\ \E a \in {"error", "in_doubt", "in_flight"} : Reply(r, a)
        BY <3>3 DEF Refuse, ClaimRefused
      <4>. QED BY <3>1, <4>1, ReplyLeaves DEF Reply, Goto, Answer
    <3>. QED BY <2>2, <3>2, <3>3
  <2>3. CASE ClaimNew(r) \/ ClaimApproved(r) \/ ClaimHeld(r) \/ ClaimExpired(r)
    BY <2>3, ClaimLeaves
  <2>4. CASE ClaimFailed(r)
    BY <2>4 DEF ClaimFailed, ServiceCallers
  <2>5. CASE ClaimInDoubt(r)
    <3>1. /\ record.status \in Active /\ pc[r] = "admitted" /\ UNCHANGED view
          /\ record' = [record EXCEPT !.status = "in_doubt", !.owner = NoOwner, !.lease = Never]
          /\ Reply(r, "in_doubt")
      BY <2>5 DEF ClaimInDoubt
    <3>2. record'.status = "in_doubt" /\ record'.owner = NoOwner
      BY <3>1 DEF TypeOK, Record
    <3>3. \A q \in Request : OwnerOf[q] # NoOwner
      BY RequestsAssumption
    <3>4. \A q \in Request : AnswerTrue(q)' /\ LeftBehind(q)'
      BY <3>1, <3>2, <3>3 DEF Reply, Goto, TypeOK, GatewayInv, AnswerTrue, LeftBehind, Active
    <3>. QED BY <3>1, <3>2, <3>4 DEF Leaves, GatewayInv, Lasting, Lost, Active
  <2>6. CASE MarkRunning(r)
    BY <2>6, MarkLeaves
  <2>7. CASE AlreadyRunning(r) \/ RenewLease(r) \/ CallTool(r) \/ ToolAnswers(r)
    <3>1. /\ pc[r] \in Working \cup {"claimed"} /\ UNCHANGED <<step, answer>>
          /\ \E place \in Working : pc' = [pc EXCEPT ![r] = place]
      BY <2>7 DEF AlreadyRunning, RenewLease, CallTool, ToolAnswers, Working, Goto
    <3>2. record'.status = record.status /\ record'.owner = record.owner
      BY <2>7 DEF AlreadyRunning, RenewLease, CallTool, ToolAnswers, TypeOK, Record
    <3>3. \A q \in Request : view'[q].step = view[q].step
      BY <2>7 DEF AlreadyRunning, RenewLease, CallTool, ToolAnswers, TypeOK, Record
    <3>. QED BY <3>1, <3>2, <3>3, WorkLeaves
  <2>8. CASE \/ Complete(r) \/ StorageFails(r)
             \/ LeaseLost(r) \/ RaiseBeforeCall(r) \/ Fail(r)
    BY <2>8, EndsLeaves
  <2>9. CASE PrepareWaitingApproval(r) \/ RejectApproval(r)
    <3>1. /\ pc[r] = "new" /\ UNCHANGED view
          /\ \E a \in {"waiting", "conflict", "rejected"} : Reply(r, a)
      BY <2>9 DEF PrepareWaitingApproval, RejectApproval
    <3>2. CASE UNCHANGED <<record, step>>
      BY <3>1, <3>2, ReplyLeaves DEF Reply, Goto, Answer
    <3>3. CASE ~UNCHANGED <<record, step>>
      <4>1. /\ record.status \in {"absent", "waiting_approval"}
            /\ record'.status \in {"waiting_approval", "rejected"}
            /\ record'.owner \in {record.owner, NoOwner}
        BY <2>9, <3>3 DEF PrepareWaitingApproval, RejectApproval, NoRecord, TypeOK, Record
      <4>2. \A q \in Request : OwnerOf[q] # NoOwner
        BY RequestsAssumption
      <4>3. \A q \in Request : AnswerTrue(q)' /\ LeftBehind(q)'
        BY <3>1, <4>1, <4>2 DEF Reply, Goto, TypeOK, GatewayInv, AnswerTrue, LeftBehind
      <4>. QED BY <4>1, <4>3 DEF Leaves, GatewayInv, Lasting, Lost
    <3>. QED BY <3>2, <3>3
  <2>. QED BY <1>2, <2>1, <2>2, <2>3, <2>4, <2>5, <2>6, <2>7, <2>8, <2>9 DEF RequestStep, Invoke
<1>. QED BY <1>1, <1>2 DEF Next

LEMMA GatewayHolds ==
    ASSUME ServiceCallers PROVE Spec => []GatewayInv
<1>1. Init => GatewayInv
  BY RequestsAssumption DEF Init, NoRecord, GatewayInv, AnswerTrue, LeftBehind
<1>2. TypeOK /\ OneHolder /\ GatewayInv /\ [Next]_vars => GatewayInv'
  BY GatewayStep DEF Leaves
<1>. QED BY <1>1, <1>2, TypeCorrect, OneHolderHolds, PTL DEF Spec

(* What a step of request r, that takes it to s, owes the invariant. *)
LEMMA RunFrom ==
    ASSUME Shape, RunInv, Lasting, Lost => Lost', UNCHANGED gated,
           NEW r \in Request, NEW s \in Stage, stage' = [stage EXCEPT ![r] = s],
           s \in {"approved", "rejecting", "canceling", "returning"} => r # Starter,
           s = "called" => ~gated \/ r # Starter,
           s \in {"prepared", "opening"} => record'.status # "absent",
           s = "canceling" => record'.status = "rejected",
           s = "failing" /\ gated => Lost' \/ Undecidable',
           Undecidable => Undecidable',
           decision' # "none" => decision # "none" \/ record.status # "absent",
           run' = "succeeded" => run = run' \/ record'.status = "succeeded",
           run' = "canceled" => run = run' \/ record'.status = "rejected",
           run' = "failed" /\ gated => run = run' \/ Lost' \/ Undecidable',
           NEW a \in {"none", "waiting", "rejected", "result", "error"},
           told' \in {told, [told EXCEPT ![r] = a]},
           a = "rejected" => record'.status = "rejected",
           a = "result" => record'.status \in Final
    PROVE  RunInv'
<1>1. \A q \in Request : stage'[q] = IF q = r THEN s ELSE stage[q]
  BY DEF Shape
<1>2. Starter \in Request
  BY StarterAssumption
<1>3. Staffed'
  BY <1>1, <1>2 DEF RunInv, Staffed, Lasting
<1>4. \A q \in Request : stage'[q] = "canceling" => record'.status = "rejected"
  BY <1>1 DEF RunInv, Lasting
<1>5. /\ run' = "succeeded" => record'.status = "succeeded"
      /\ run' = "canceled" => record'.status = "rejected"
  BY DEF RunInv, Lasting
<1>6. gated /\ (run' = "failed" \/ \E q \in Request : stage'[q] = "failing") => Lost' \/ Undecidable'
  BY <1>1 DEF RunInv
<1>7. \A q \in Request : /\ told'[q] = "rejected" => record'.status = "rejected"
                         /\ told'[q] = "result" => record'.status \in Final
  BY DEF Shape, RunInv, Lasting, Final
<1>. QED BY <1>3, <1>4, <1>5, <1>6, <1>7 DEF RunInv

LEMMA MovesRow ==
    ASSUME NEW table, NEW seen, NEW row, NEW target
    PROVE  ConditionalMove(table, seen, row, target).row \in {row, target}
BY DEF ConditionalMove

(* A request that is to fail the run knows that the call cannot succeed    *)
(* any more. *)
LEMMA SettledIsLost ==
    ASSUME TypeOK, GatewayInv, Approval, RunInv, NEW r \in Request, SettleRun(r), gated,
           stage' = [stage EXCEPT ![r] = "failing"], Shape
    PROVE  Lost
<1>1. stage[r] = "called" /\ pc[r] = "done" /\ r # Starter
  BY DEF SettleRun, Returned, RunInv, Staffed
<1>2. record.status \notin {"waiting_approval", "succeeded"} /\ ~(record.status \in Active /\ record.owner # OwnerOf[r])
  <2>1. stage'[r] = "failing"
    BY DEF Shape
  <2>. QED BY <1>1, <2>1 DEF SettleRun, Tell, To, Shape, ResumedElsewhere
<1>3. decision = "approved"
  BY <1>1 DEF Approval
<1>4. record.status # "absent"
  BY <1>3 DEF RunInv, Staffed
<1>5. record.owner = OwnerOf[r] => record.status # "claimed"
  BY <1>1 DEF GatewayInv, LeftBehind
<1>. QED BY <1>1, <1>2, <1>4, <1>5 DEF TypeOK, Record, CallStatus, Active, Lost

LEMMA RunStep ==
    ASSUME TypeOK, OneHolder, ServiceCallers, GatewayInv, Shape, Approval, RunInv,
           [ServiceNext]_allVars
    PROVE  RunInv'
<1>. USE StarterAssumption
<1>1. Lasting /\ (Lost => Lost')
  BY ServiceStepIsLedgerStep, GatewayStep DEF Leaves
<1>2. UNCHANGED gated
  BY DEF ServiceNext, Clock, Decide, Quiet, ServiceStep, allVars, serviceVars,
         Start, QuotaRefused, CallUngated, Prepare, RunWaits, OpenApproval, FindRejected, FindUndecided,
         FindDecided, FindStarted, ResumeRun, Reject, CancelRun, InGateway, FinishRun, LeaveRun, SettleRun,
         WaitAgain, FailRun, DieInGateway, DieInService
<1>3. CASE UNCHANGED serviceVars
  <2>1. UNCHANGED <<run, decision, stage, told>>
    BY <1>3 DEF serviceVars
  <2>2. Undecidable' <=> Undecidable
    BY <2>1 DEF Undecidable
  <2>. QED BY <1>1, <1>2, <2>1, <2>2 DEF RunInv, Staffed, Lasting, Final
<1>4. CASE Decide
  <2>1. decision = "pending" /\ UNCHANGED <<run, stage, told>>
    BY <1>4 DEF Decide
  <2>2. ~Undecidable
    BY <2>1 DEF Undecidable
  <2>. QED BY <1>1, <1>2, <2>1, <2>2 DEF RunInv, Staffed, Lasting, Final
<1>5. ASSUME NEW r \in Request, ServiceStep(r), ~UNCHANGED serviceVars PROVE RunInv'
  <2>1. CASE Start(r) \/ QuotaRefused(r) \/ CallUngated(r) \/ Prepare(r) \/ RunWaits(r)
    <3>1. PICK s \in {"started", "failing", "called", "prepared", "opening"} :
             /\ stage' = [stage EXCEPT ![r] = s] /\ UNCHANGED <<decision, told>>
             /\ s = "called" => ~gated
             /\ s # "started" => stage[r] \in {"started", "prepared"}
             /\ s = "started" => r = Starter /\ stage[r] = "idle"
             /\ s = "opening" => stage[r] = "prepared"
             /\ s = "prepared" => PrepareWaitingApproval(r)
             /\ run' \in {run, "running", "waiting_approval"}
      BY <2>1, MovesRow DEF Start, QuotaRefused, CallUngated, Prepare, RunWaits, To
    <3>2. r = Starter /\ ~Undecidable /\ (s = "failing" => decision = "none")
      BY <3>1 DEF Approval, Undecidable
    <3>3. s = "failing" => Undecidable'
      BY <3>1, <3>2 DEF Shape, Undecidable
    <3>4. s \in {"prepared", "opening"} => record'.status # "absent"
      BY <1>1, <3>1, <3>2 DEF PrepareWaitingApproval, NoRecord, RunInv, Staffed, Lasting
    <3>. QED BY <1>1, <1>2, <3>1, <3>2, <3>3, <3>4, RunFrom DEF Stage
  <2>2. CASE OpenApproval(r)
    <3>1. PICK s \in {"failing", "over"}, a \in {"none", "waiting"} :
             /\ stage' = [stage EXCEPT ![r] = s] /\ told' \in {told, [told EXCEPT ![r] = a]}
             /\ s = "failing" => decision' = decision
             /\ stage[r] = "opening" /\ UNCHANGED run
      BY <2>2 DEF OpenApproval, Tell, To
    <3>2. r = Starter /\ decision = "none" /\ ~Undecidable /\ record.status # "absent"
      BY <3>1 DEF Approval, Undecidable, RunInv, Staffed
    <3>3. s = "failing" => Undecidable'
      BY <3>1, <3>2 DEF Shape, Undecidable
    <3>. QED BY <1>1, <1>2, <3>1, <3>2, <3>3, RunFrom DEF Stage
  <2>3. CASE FindRejected(r) \/ FindUndecided(r) \/ FindDecided(r) \/ FindStarted(r) \/ ResumeRun(r)
    <3>1. PICK s \in {"over", "approved", "rejecting", "called"}, a \in {"none", "waiting", "rejected", "error"} :
             /\ stage' = [stage EXCEPT ![r] = s] /\ told' \in {told, [told EXCEPT ![r] = a]}
             /\ r # Starter \/ stage[r] = "approved"
             /\ a = "rejected" => record.status = "rejected"
             /\ UNCHANGED decision /\ run' \in {run, "running"}
      BY <2>3, MovesRow DEF FindRejected, FindUndecided, FindDecided, FindStarted, ResumeRun, Tell, To, MoveRun
    <3>2. r # Starter
      BY <3>1 DEF RunInv, Staffed
    <3>3. Undecidable => Undecidable'
      BY <3>1, <3>2 DEF Shape, Undecidable
    <3>4. a = "rejected" => record'.status = "rejected"
      BY <1>1, <3>1 DEF Lasting
    <3>. QED BY <1>1, <1>2, <3>1, <3>2, <3>3, <3>4, RunFrom DEF Stage
  <2>4. CASE Reject(r)
    <3>1. PICK s \in {"over", "canceling"}, a \in {"none", "error"} :
             /\ stage' = [stage EXCEPT ![r] = s] /\ told' \in {told, [told EXCEPT ![r] = a]}
             /\ stage[r] = "rejecting" /\ UNCHANGED <<decision, run>>
             /\ s = "canceling" => RejectApproval(r) /\ record.status = "waiting_approval"
      BY <2>4 DEF Reject, Tell, To
    <3>2. r # Starter
      BY <3>1 DEF RunInv, Staffed
    <3>3. Undecidable => Undecidable'
      BY <3>1, <3>2 DEF Shape, Undecidable
    <3>4. s = "canceling" => record'.status = "rejected"
      BY <3>1 DEF RejectApproval, TypeOK, Record
    <3>. QED BY <1>1, <1>2, <3>1, <3>2, <3>3, <3>4, RunFrom DEF Stage
  <2>5. CASE CancelRun(r)
    <3>1. PICK a \in {"rejected", "error"} :
             /\ stage' = [stage EXCEPT ![r] = "over"] /\ told' = [told EXCEPT ![r] = a]
             /\ stage[r] = "canceling" /\ UNCHANGED decision /\ run' \in {run, "canceled"}
      BY <2>5, MovesRow DEF CancelRun, Tell, To, MoveRun
    <3>2. record'.status = "rejected"
      BY <1>1, <3>1 DEF RunInv, Lasting
    <3>3. Undecidable => Undecidable'
      BY <3>1 DEF Shape, Undecidable
    <3>. QED BY <1>1, <1>2, <3>1, <3>2, <3>3, RunFrom DEF Stage
  <2>6. CASE FinishRun(r) \/ LeaveRun(r)
    <3>1. PICK a \in {"result", "error"} :
             /\ stage' = [stage EXCEPT ![r] = "over"] /\ told' = [told EXCEPT ![r] = a]
             /\ stage[r] = "called" /\ UNCHANGED <<decision, record, vars>>
             /\ a = "result" => answer[r] \in {"success", "failure", "replay_success", "replay_failure", "replay_empty"}
             /\ run' = run \/ (run' = "succeeded" /\ answer[r] = "success")
                \/ (run' = "failed" /\ answer[r] = "failure")
      BY <2>6, MovesRow DEF FinishRun, LeaveRun, Returned, Tell, To, vars
    <3>2. Undecidable => Undecidable'
      BY <3>1 DEF Shape, Undecidable
    <3>3. AnswerTrue(r)
      BY DEF GatewayInv
    <3>4. /\ a = "result" => record'.status \in Final
          /\ run' = run \/ (run' = "succeeded" /\ record'.status = "succeeded")
                        \/ (run' = "failed" /\ record.status = "failed")
      BY <3>1, <3>3 DEF AnswerTrue, Final
    <3>5. record.status = "failed" => Lost'
      BY <1>1 DEF Lost
    <3>. QED BY <1>1, <1>2, <3>1, <3>2, <3>4, <3>5, RunFrom DEF Stage
  <2>7. CASE SettleRun(r)
    <3>1. PICK s \in {"over", "returning", "failing"}, a \in {"none", "error"} :
             /\ stage' = [stage EXCEPT ![r] = s] /\ told' \in {told, [told EXCEPT ![r] = a]}
             /\ stage[r] = "called" /\ UNCHANGED <<decision, run>>
             /\ s = "returning" => r # Starter
      BY <2>7 DEF SettleRun, Returned, Tell, To
    <3>2. Undecidable => Undecidable'
      BY <3>1 DEF Shape, Undecidable
    <3>3. s = "failing" /\ gated => Lost'
      BY <1>1, <2>7, <3>1, SettledIsLost
    <3>. QED BY <1>1, <1>2, <3>1, <3>2, <3>3, RunFrom DEF Stage
  <2>8. CASE WaitAgain(r) \/ FailRun(r)
    <3>1. /\ stage' = [stage EXCEPT ![r] = "over"] /\ told' = [told EXCEPT ![r] = "error"]
          /\ stage[r] \in {"returning", "failing"} /\ UNCHANGED decision
          /\ run' \in {run, "waiting_approval"} \/ (run' = "failed" /\ stage[r] = "failing")
      BY <2>8, MovesRow DEF WaitAgain, FailRun, Tell, To, MoveRun
    <3>2. Undecidable => Undecidable'
      BY <3>1 DEF Shape, Undecidable
    <3>3. stage[r] = "failing" /\ gated => Lost' \/ Undecidable'
      BY <1>1, <3>2 DEF RunInv
    <3>. QED BY <1>1, <1>2, <3>1, <3>2, <3>3, RunFrom DEF Stage
  <2>9. CASE DieInGateway(r) \/ DieInService(r)
    <3>1. stage' = [stage EXCEPT ![r] = "dead"] /\ UNCHANGED <<decision, run, told>>
      BY <2>9 DEF DieInGateway, DieInService, To
    <3>2. Undecidable => Undecidable'
      BY <3>1 DEF Shape, Undecidable
    <3>. QED BY <1>1, <1>2, <3>1, <3>2, RunFrom DEF Stage
  <2>10. CASE InGateway(r)
    BY <1>5, <2>10 DEF InGateway
  <2>. QED BY <1>5, <2>1, <2>2, <2>3, <2>4, <2>5, <2>6, <2>7, <2>8, <2>9, <2>10 DEF ServiceStep
<1>6. Clock \/ Quiet \/ UNCHANGED allVars => UNCHANGED serviceVars
  BY DEF Clock, Quiet, allVars, serviceVars
<1>. QED BY <1>3, <1>4, <1>5, <1>6 DEF ServiceNext

(* The run and every answer tell what became of the call, for any number   *)
(* of requests that repeat its key, whoever of them dies or is overtaken:  *)
(* a run that succeeded has a call that did, a canceled one a rejected     *)
(* call, an approved call that succeeds is never told a failed run, and    *)
(* what a caller was told of a rejection or a result stays true            *)
(* (invocation.py).                                                        *)
THEOREM RunTellsOutcomeHolds ==
    ASSUME ServiceCallers PROVE ServiceSpec => []RunTellsOutcome
<1>1. ServiceInit => RunInv
  BY StarterAssumption DEF ServiceInit, Init, NoRecord, RunInv, Staffed
<1>2. TypeOK /\ OneHolder /\ GatewayInv /\ Shape /\ Approval /\ RunInv /\ [ServiceNext]_allVars => RunInv'
  BY RunStep
<1>3. Approval /\ RunInv => RunTellsOutcome
  <2>1. Approval /\ gated /\ Undecidable => record.status # "succeeded"
    BY DEF Approval, Undecidable
  <2>2. Lost => record.status # "succeeded"
    BY DEF Lost
  <2>. QED BY <2>1, <2>2 DEF RunInv, RunTellsOutcome
<1>. QED BY <1>1, <1>2, <1>3, OnTheLedger, TypeCorrect, OneHolderHolds, GatewayHolds,
            ShapeHolds, ApprovalHolds, PTL DEF ServiceSpec

-----------------------------------------------------------------------------
(* Calls to models: ModelCalls, for any runs, processes and budget.  First *)
(* where the cost of each call is, then where its hold is and what all of  *)
(* them together leave of the budget.                                      *)

LedgerType ==
    /\ ended \subseteq Runs /\ late \subseteq ended
    /\ phase \in [Runs -> Phases] /\ call \in [Runs -> 0..MaxCalls]
    /\ staged \in [Runs -> SUBSET Calls] /\ noted \subseteq Calls
    /\ charges \in [Calls -> 0..2]
    /\ answered \subseteq Calls

Newest(c) == c[2] = call[c[1]]
Unanswered == {"checked", "admitted", "open", "asked"}
Unrecorded == Unanswered \cup {"flowing", "answered"}

(* No cost of the call has been committed, but by the reaper of its job.   *)
Unpaid(c) == charges[c] = 0 \/ (c[1] \in late /\ charges[c] = 1)

(* Where a run is, and what it flushed. *)
RunCalls(r) ==
    /\ \A c \in staged[r] : c[1] = r
    /\ phase[r] \in {"over", "gone"} => staged[r] = {}
    /\ phase[r] \notin {"idle", "over", "gone"} => call[r] # 0
    /\ kind[r] = "image" => call[r] <= 1
    /\ phase[r] = "flowing" => kind[r] = "stream"
    /\ r \in late => kind[r] = "image"
    /\ r \in ended => \/ phase[r] \in {"over", "gone"}
                      \/ kind[r] = "image" /\ phase[r] \in {"open", "asked", "answered", "closing"}

(* A cost that may still be written was not paid before. *)
PaidOnce(c) ==
    /\ c[2] > call[c[1]] => c \notin staged[c[1]] /\ charges[c] = 0 /\ c \notin answered
    /\ Newest(c) /\ phase[c[1]] \in Unrecorded => c \notin staged[c[1]] /\ Unpaid(c)
    /\ c \in staged[c[1]] => Unpaid(c)
    /\ charges[c] <= 1 \/ c[1] \in late

(* The step of an image call says what it asks for until its cost is       *)
(* committed or its job was reaped; a job reaped before that says nothing. *)
NotedWhile(c) ==
    /\ c \in noted =>
        /\ kind[c[1]] = "image" /\ Newest(c) /\ c[1] \notin ended
        /\ charges[c] = 0 /\ phase[c[1]] \in {"asked", "answered", "closing", "gone"}
    /\ kind[c[1]] = "image" /\ Newest(c) /\ phase[c[1]] \in {"asked", "answered"} =>
        \/ c \in noted
        \/ c[1] \in ended /\ (charges[c] >= 1 \/ c \in forgiven)

(* What was served is charged, or about to be, or nobody can charge it.    *)
PaidFor(c) ==
    /\ Newest(c) /\ phase[c[1]] \in Unanswered => c \notin answered
    /\ c \in answered =>
        \/ charges[c] >= 1 \/ c \in forgiven \/ c \in staged[c[1]] \/ c \in noted
        \/ Newest(c) /\ phase[c[1]] \in {"flowing", "answered"}
    /\ c \in answered \cap noted /\ phase[c[1]] = "closing" => c \in staged[c[1]]

ChargeInv ==
    /\ LedgerType
    /\ \A r \in Runs : RunCalls(r)
    /\ \A c \in Calls : PaidOnce(c) /\ NotedWhile(c) /\ PaidFor(c)

LEMMA CallIs ==
    ASSUME LedgerType, NEW c \in Calls
    PROVE  /\ c = <<c[1], c[2]>> /\ c[1] \in Runs /\ c[2] \in 1..MaxCalls
           /\ c = Current(c[1]) <=> Newest(c)
           /\ \A r \in Runs : c = Current(r) <=> c[1] = r /\ Newest(c)
           /\ \A r \in Runs : Current(r)[1] = r /\ Current(r)[2] = call[r]
BY DEF Calls, Current, Newest

(* A step of one run keeps the invariant if it keeps it for that run.      *)
OthersKept(r) ==
    /\ kind' = kind
    /\ \A q \in Runs \ {r} :
        /\ phase'[q] = phase[q] /\ call'[q] = call[q] /\ staged'[q] = staged[q]
        /\ q \in ended' <=> q \in ended
        /\ q \in late' <=> q \in late
    /\ \A c \in Calls : c[1] # r =>
        /\ charges'[c] = charges[c]
        /\ c \in noted' <=> c \in noted
        /\ c \in answered' <=> c \in answered
        /\ c \in forgiven' <=> c \in forgiven

CallInv(c) == PaidOnce(c) /\ NotedWhile(c) /\ PaidFor(c)

LEMMA OneRunSteps ==
    ASSUME ChargeInv, NEW r \in Runs, OthersKept(r), LedgerType', RunCalls(r)',
           \A c \in Calls : c[1] = r => CallInv(c)'
    PROVE  ChargeInv'
<1>1. ASSUME NEW q \in Runs, q # r PROVE RunCalls(q)'
  BY <1>1 DEF OthersKept, RunCalls, ChargeInv
<1>2. ASSUME NEW c \in Calls, c[1] # r PROVE CallInv(c)'
  <2>1. CallInv(c) /\ c[1] \in Runs
    BY CallIs DEF ChargeInv, CallInv
  <2>2. /\ kind' = kind /\ phase'[c[1]] = phase[c[1]] /\ call'[c[1]] = call[c[1]]
        /\ staged'[c[1]] = staged[c[1]] /\ charges'[c] = charges[c]
        /\ c[1] \in ended' <=> c[1] \in ended
        /\ c[1] \in late' <=> c[1] \in late
        /\ c \in noted' <=> c \in noted
        /\ c \in answered' <=> c \in answered
        /\ c \in forgiven' <=> c \in forgiven
    BY <1>2, <2>1 DEF OthersKept
  <2>3. PaidOnce(c)'
    BY <2>1, <2>2 DEF CallInv, PaidOnce, Unpaid, Newest
  <2>4. NotedWhile(c)'
    BY <2>1, <2>2 DEF CallInv, NotedWhile, Newest
  <2>5. PaidFor(c)'
    BY <2>1, <2>2 DEF CallInv, PaidFor, Newest
  <2>. QED BY <2>3, <2>4, <2>5 DEF CallInv
<1>. QED BY <1>1, <1>2 DEF ChargeInv, CallInv

(* What the invariant says of a run and its newest call. *)
LEMMA OwnCall ==
    ASSUME ChargeInv, NEW r \in Runs, NEW c \in Calls, c[1] = r
    PROVE  /\ CallInv(c) /\ RunCalls(r) /\ c[2] \in Nat /\ call[r] \in Nat /\ charges[c] \in 0..2
           /\ c = Current(r) <=> Newest(c)
           /\ staged[r] \subseteq Calls
BY CallIs DEF ChargeInv, CallInv, LedgerType

(* Steps that only move the run on. *)
MovesOn(r, p) ==
    \/ phase[r] = "checked" /\ p \in {"idle", "admitted"}
    \/ phase[r] = "open" /\ p = "open"
    \/ phase[r] \in {"open", "asked"} /\ kind[r] # "image" /\ p = "idle"
    \/ phase[r] \in {"open", "asked"} /\ kind[r] = "image" /\ p = "closing"
    \/ phase[r] = "open" /\ kind[r] # "image" /\ p = "asked"
    \/ phase[r] = "answered" /\ kind[r] = "image" /\ Current(r) \notin noted /\ p = "closing"

ledger == <<kind, ended, call, staged, noted, charges, answered, forgiven, late>>

LEMMA MoveOn ==
    ASSUME ChargeInv, NEW r \in Runs, NEW p \in Phases, MovesOn(r, p),
           phase' = [phase EXCEPT ![r] = p], UNCHANGED ledger
    PROVE  ChargeInv'
<1>. USE DEF ledger
<1>1. LedgerType'
  BY DEF ChargeInv, LedgerType
<1>2. phase'[r] = p /\ OthersKept(r)
  BY DEF ChargeInv, LedgerType, OthersKept
<1>3. RunCalls(r)'
  BY <1>2 DEF ChargeInv, RunCalls, MovesOn
<1>4. ASSUME NEW c \in Calls, c[1] = r PROVE CallInv(c)'
  <2>1. /\ CallInv(c) /\ RunCalls(r) /\ c[2] \in Nat /\ call[r] \in Nat /\ charges[c] \in 0..2
        /\ c = Current(r) <=> Newest(c)
    BY <1>4, OwnCall
  <2>2. PaidOnce(c)'
    BY <1>2, <1>4, <2>1 DEF CallInv, PaidOnce, Unpaid, Unrecorded, Unanswered, Newest, MovesOn
  <2>3. NotedWhile(c)'
    BY <1>2, <1>4, <2>1 DEF CallInv, NotedWhile, Newest, MovesOn
  <2>4. PaidFor(c)'
    BY <1>2, <1>4, <2>1 DEF CallInv, PaidFor, NotedWhile, Unanswered, Newest, MovesOn
  <2>. QED BY <2>2, <2>3, <2>4 DEF CallInv
<1>. QED BY <1>1, <1>2, <1>3, <1>4, OneRunSteps

(* A call begins: what is said of the calls before stays.                  *)
LEMMA BeginCall ==
    ASSUME ChargeInv, NEW r \in Runs, Begins(r), NEW p \in {"idle", "checked"},
           call' = [call EXCEPT ![r] = @ + 1], phase' = [phase EXCEPT ![r] = p],
           UNCHANGED <<kind, ended, staged, noted, charges, answered, forgiven, late>>
    PROVE  ChargeInv'
<1>0. /\ call[r] \in Nat /\ call[r] + 1 \in 0..MaxCalls /\ phase[r] = "idle"
      /\ kind[r] = "image" => call[r] = 0
  BY CallAssumption DEF ChargeInv, LedgerType, Begins, Limit
<1>1. LedgerType'
  BY <1>0 DEF ChargeInv, LedgerType, Phases
<1>2. phase'[r] = p /\ call'[r] = call[r] + 1 /\ OthersKept(r)
  BY DEF ChargeInv, LedgerType, OthersKept
<1>3. RunCalls(r)'
  BY <1>0, <1>2 DEF ChargeInv, RunCalls
<1>4. ASSUME NEW c \in Calls, c[1] = r PROVE CallInv(c)'
  <2>1. /\ CallInv(c) /\ RunCalls(r) /\ c[2] \in Nat /\ charges[c] \in 0..2
    BY <1>4, OwnCall
  <2>2. Newest(c)' => c[2] > call[r] /\ ~Newest(c)
    BY <1>0, <1>2, <1>4, <2>1 DEF Newest
  <2>3. c[2] > call'[r] => c[2] > call[r]
    BY <1>0, <1>2, <2>1
  <2>4. PaidOnce(c)'
    BY <1>2, <1>4, <2>1, <2>2, <2>3 DEF CallInv, PaidOnce, Unpaid
  <2>5. c \notin noted
    BY <1>0, <1>4, <2>1 DEF CallInv, NotedWhile
  <2>6. NotedWhile(c)'
    BY <1>2, <1>4, <2>5 DEF NotedWhile
  <2>7. PaidFor(c)'
    BY <1>0, <1>2, <1>4, <2>1, <2>2, <2>5 DEF CallInv, PaidOnce, PaidFor, Newest
  <2>. QED BY <2>4, <2>6, <2>7 DEF CallInv
<1>. QED BY <1>1, <1>2, <1>3, <1>4, OneRunSteps

(* A commit: what was flushed is charged.                                  *)
LEMMA CommitPays ==
    ASSUME ChargeInv, NEW r \in Runs, NEW flushed, NEW holds, NEW p \in Phases,
           Commit(r, flushed, holds), phase' = [phase EXCEPT ![r] = p],
           \/ phase[r] = "admitted" /\ p = "open" /\ flushed = staged[r] /\ ended' = ended /\ noted' = noted
           \/ /\ phase[r] = "flowing" /\ p = "idle" /\ flushed = staged[r] \cup {Current(r)}
              /\ ended' = ended /\ noted' = noted
           \/ /\ phase[r] \in {"idle", "closing"} /\ p = "over" /\ flushed = staged[r]
              /\ ended' = ended \cup {r} /\ noted' = noted \ {Current(r)},
           UNCHANGED <<kind, call, answered, forgiven, late>>
    PROVE  ChargeInv'
<1>. USE DEF Commit
<1>t. LedgerType /\ \A c \in Calls : CallInv(c) /\ c[1] \in Runs
  BY CallIs DEF ChargeInv, CallInv
<1>o. \A c \in flushed : c[1] = r
  BY <1>t DEF ChargeInv, RunCalls, Current
<1>f. \A c \in Calls : c \in flushed <=> \/ c \in staged[r]
                                         \/ phase[r] = "flowing" /\ c = Current(r)
  OBVIOUS
<1>u. \A c \in flushed \cap Calls : charges[c] \in {0, 1} /\ (c[1] \in late \/ charges[c] = 0)
  <2>. SUFFICES ASSUME NEW c \in flushed \cap Calls
                PROVE  charges[c] \in {0, 1} /\ (c[1] \in late \/ charges[c] = 0)
    OBVIOUS
  <2>1. CallInv(c) /\ (c = Current(r) <=> Newest(c))
    BY <1>o, OwnCall
  <2>. QED BY <1>f, <1>o, <2>1 DEF CallInv, PaidOnce, Unpaid, Unrecorded
<1>c. /\ \A c \in Calls : charges'[c] = IF c \in flushed THEN charges[c] + 1 ELSE charges[c]
      /\ staged'[r] = {} /\ phase'[r] = p
  BY <1>t DEF LedgerType
<1>1. LedgerType'
  <2>1. charges' \in [Calls -> 0..2]
    <3>1. \A c \in Calls : charges[c] + (IF c \in flushed THEN 1 ELSE 0) \in 0..2
      BY <1>t, <1>u DEF LedgerType
    <3>. QED BY <3>1
  <2>. QED BY <1>t, <2>1 DEF LedgerType
<1>2. OthersKept(r)
  <2>1. \A c \in Calls : c[1] # r => charges'[c] = charges[c] /\ c # Current(r)
    BY <1>o, <1>c DEF Current
  <2>. QED BY <1>t, <2>1 DEF LedgerType, OthersKept
<1>3. RunCalls(r)'
  BY <1>c DEF ChargeInv, RunCalls
<1>4. ASSUME NEW c \in Calls, c[1] = r PROVE CallInv(c)'
  <2>1. /\ CallInv(c) /\ RunCalls(r) /\ c[2] \in Nat /\ call[r] \in Nat /\ charges[c] \in 0..2
        /\ c = Current(r) <=> Newest(c)
    BY <1>4, OwnCall
  <2>2. /\ charges'[c] = IF c \in flushed THEN charges[c] + 1 ELSE charges[c]
        /\ c \notin staged'[r] /\ c \in flushed <=> c \in staged[r] \/ (phase[r] = "flowing" /\ Newest(c))
        /\ Newest(c)' <=> Newest(c)
    BY <1>4, <1>c, <1>f, <2>1 DEF Newest
  <2>3. PaidOnce(c)'
    BY <1>4, <1>c, <1>u, <2>1, <2>2 DEF CallInv, PaidOnce, Unpaid, Unrecorded, Unanswered, Newest
  <2>4. NotedWhile(c)'
    BY <1>4, <1>c, <2>1, <2>2 DEF CallInv, NotedWhile
  <2>5. PaidFor(c)'
    BY <1>4, <1>c, <2>1, <2>2 DEF CallInv, PaidFor, NotedWhile, Unanswered
  <2>. QED BY <2>3, <2>4, <2>5 DEF CallInv
<1>. QED BY <1>1, <1>2, <1>c, <1>3, <1>4, OneRunSteps

LEMMA CurrentIs ==
    ASSUME ChargeInv, NEW r \in Runs, phase[r] \notin {"idle", "over", "gone"}
    PROVE  Current(r) \in Calls
BY DEF ChargeInv, LedgerType, RunCalls, Current, Calls

(* The cost of the newest call is flushed. *)
LEMMA RecordStages ==
    ASSUME ChargeInv, NEW r \in Runs, NEW p \in Phases,
           staged' = [staged EXCEPT ![r] = @ \cup {Current(r)}], phase' = [phase EXCEPT ![r] = p],
           \/ phase[r] \in {"asked", "answered"} /\ kind[r] = "image" /\ p = "closing"
           \/ phase[r] = "answered" /\ kind[r] = "chat" /\ p = "idle",
           UNCHANGED <<kind, ended, call, noted, charges, answered, forgiven, late>>
    PROVE  ChargeInv'
<1>1. LedgerType'
  BY CurrentIs DEF ChargeInv, LedgerType
<1>2. phase'[r] = p /\ staged'[r] = staged[r] \cup {Current(r)} /\ OthersKept(r)
  BY DEF ChargeInv, LedgerType, OthersKept
<1>3. RunCalls(r)'
  BY <1>2 DEF ChargeInv, RunCalls, Current
<1>4. ASSUME NEW c \in Calls, c[1] = r PROVE CallInv(c)'
  <2>1. /\ CallInv(c) /\ RunCalls(r) /\ c[2] \in Nat /\ call[r] \in Nat /\ charges[c] \in 0..2
        /\ c = Current(r) <=> Newest(c)
    BY <1>4, OwnCall
  <2>2. c \in staged'[r] <=> c \in staged[r] \/ Newest(c)
    BY <1>2, <2>1
  <2>3. PaidOnce(c)'
    BY <1>2, <1>4, <2>1, <2>2 DEF CallInv, PaidOnce, Unpaid, Unrecorded, Unanswered, Newest
  <2>4. NotedWhile(c)'
    BY <1>2, <1>4, <2>1 DEF CallInv, NotedWhile, Newest
  <2>5. PaidFor(c)'
    BY <1>2, <1>4, <2>1, <2>2 DEF CallInv, PaidFor, NotedWhile, Unanswered, Newest
  <2>. QED BY <2>3, <2>4, <2>5 DEF CallInv
<1>. QED BY <1>1, <1>2, <1>3, <1>4, OneRunSteps

(* The provider is asked for images, and the step says so unless it has    *)
(* been failed.                                                            *)
LEMMA AskNotes ==
    ASSUME ChargeInv, NEW r \in Runs, AskForImages(r)
    PROVE  ChargeInv'
<1>. USE DEF AskForImages, historyVars
<1>1. LedgerType'
  BY CurrentIs DEF ChargeInv, LedgerType, Phases
<1>2. /\ phase[r] = "open" /\ kind[r] = "image" /\ phase'[r] = "asked" /\ OthersKept(r)
      /\ UNCHANGED <<kind, ended, call, staged, charges, answered, late>>
  BY DEF ChargeInv, LedgerType, OthersKept, Current
<1>3. RunCalls(r)'
  BY <1>2 DEF ChargeInv, RunCalls
<1>4. ASSUME NEW c \in Calls, c[1] = r PROVE CallInv(c)'
  <2>1. /\ CallInv(c) /\ RunCalls(r) /\ c[2] \in Nat /\ call[r] \in Nat /\ charges[c] \in 0..2
        /\ c = Current(r) <=> Newest(c)
    BY <1>4, OwnCall
  <2>2. c \notin noted
    BY <1>2, <1>4, <2>1 DEF CallInv, NotedWhile
  <2>3. /\ r \in ended => ~(c \in noted') /\ (c \in forgiven' <=> c \in forgiven \/ Newest(c))
        /\ r \notin ended => (c \in noted' <=> Newest(c)) /\ (c \in forgiven' <=> c \in forgiven)
    BY <2>1, <2>2
  <2>4. r \notin ended => r \notin late
    BY DEF ChargeInv, LedgerType
  <2>. HIDE DEF AskForImages
  <2>5. PaidOnce(c)'
    BY <1>2, <1>4, <2>1 DEF CallInv, PaidOnce, Unpaid, Unrecorded, Unanswered, Newest
  <2>6. NotedWhile(c)'
    BY <1>2, <1>4, <2>1, <2>3, <2>4
       DEF CallInv, NotedWhile, PaidOnce, Unpaid, Unrecorded, Unanswered, Newest
  <2>7. PaidFor(c)'
    BY <1>2, <1>4, <2>1, <2>2, <2>3 DEF CallInv, PaidFor, Unanswered, Newest
  <2>. QED BY <2>5, <2>6, <2>7 DEF CallInv
<1>. QED BY <1>1, <1>2, <1>3, <1>4, OneRunSteps

LEMMA AnswerCounts ==
    ASSUME ChargeInv, NEW r \in Runs, ProviderAnswers(r)
    PROVE  ChargeInv'
<1>. USE DEF ProviderAnswers, ledgerVars
<1>1. LedgerType'
  BY CurrentIs DEF ChargeInv, LedgerType, Phases
<1>2. /\ phase[r] = "asked" /\ phase'[r] \in {"flowing", "answered"} /\ OthersKept(r)
      /\ phase'[r] = "flowing" <=> kind[r] = "stream"
  BY DEF ChargeInv, LedgerType, OthersKept, Current
<1>3. RunCalls(r)'
  BY <1>2 DEF ChargeInv, RunCalls
<1>4. ASSUME NEW c \in Calls, c[1] = r PROVE CallInv(c)'
  <2>1. /\ CallInv(c) /\ RunCalls(r) /\ c[2] \in Nat /\ call[r] \in Nat /\ charges[c] \in 0..2
        /\ c = Current(r) <=> Newest(c)
    BY <1>4, OwnCall
  <2>2. c \in answered' <=> c \in answered \/ Newest(c)
    BY <2>1
  <2>3. PaidOnce(c)'
    BY <1>2, <1>4, <2>1, <2>2 DEF CallInv, PaidOnce, Unpaid, Unrecorded, Unanswered, Newest
  <2>4. NotedWhile(c)'
    BY <1>2, <1>4, <2>1 DEF CallInv, NotedWhile, Newest
  <2>5. PaidFor(c)'
    BY <1>2, <1>4, <2>1, <2>2 DEF CallInv, PaidFor, Unanswered, Newest
  <2>. QED BY <2>3, <2>4, <2>5 DEF CallInv
<1>. QED BY <1>1, <1>2, <1>3, <1>4, OneRunSteps

(* A session rolls back: what it had flushed and what it was about to      *)
(* flush nobody charges, unless the step says what was asked for.          *)
Drops(r, p) ==
    \/ phase[r] = "idle" /\ p = "idle"
    \/ phase[r] = "answered" /\ kind[r] = "chat" /\ p = "idle"
    \/ phase[r] = "flowing" /\ p = "idle"
    \/ p = "gone"

LEMMA CallDropped ==
    ASSUME ChargeInv, NEW r \in Runs, NEW p, Drops(r, p), NEW c \in Calls, c[1] = r,
           phase'[r] = p, staged'[r] = {}, c \in Forfeits(r) => c \in forgiven',
           c \in forgiven => c \in forgiven',
           UNCHANGED <<kind, ended, call, noted, charges, answered, late>>
    PROVE  CallInv(c)'
<1>1. /\ CallInv(c) /\ RunCalls(r) /\ c[2] \in Nat /\ call[r] \in Nat /\ charges[c] \in 0..2
      /\ c = Current(r) <=> Newest(c)
  BY OwnCall
<1>2. PaidOnce(c)'
  BY <1>1 DEF CallInv, PaidOnce, Unpaid, Unrecorded, Unanswered, Drops
<1>3. NotedWhile(c)'
  BY <1>1 DEF CallInv, NotedWhile, Newest, Drops
<1>4. PaidFor(c)'
  <2>1. c \in answered => charges[c] >= 1 \/ c \in forgiven' \/ c \in noted
    BY <1>1 DEF CallInv, PaidFor, Forfeits
  <2>2. ~(Newest(c)' /\ phase'[r] \in Unanswered) /\ phase'[r] # "closing"
    BY DEF Drops, Unanswered
  <2>. QED BY <2>1, <2>2 DEF PaidFor
<1>. QED BY <1>2, <1>3, <1>4 DEF CallInv

LEMMA RollbackForgives ==
    ASSUME ChargeInv, NEW r \in Runs, NEW p \in Phases, Rollback(r), Drops(r, p),
           phase' = [phase EXCEPT ![r] = p],
           UNCHANGED <<kind, ended, call, noted, charges, answered, late>>
    PROVE  ChargeInv'
<1>1. LedgerType'
  BY DEF ChargeInv, LedgerType, Rollback
<1>2. phase'[r] = p /\ staged'[r] = {}
  BY DEF ChargeInv, LedgerType, Rollback
<1>3. OthersKept(r)
  <2>1. \A c \in Forfeits(r) : c[1] = r
    BY DEF Forfeits, ChargeInv, RunCalls, Current
  <2>. QED BY <2>1 DEF Rollback, ChargeInv, LedgerType, OthersKept
<1>4. RunCalls(r)'
  BY <1>2 DEF ChargeInv, RunCalls, Drops
<1>5. ASSUME NEW c \in Calls, c[1] = r PROVE CallInv(c)'
  BY <1>2, <1>5, CallDropped DEF Rollback
<1>. QED BY <1>1, <1>3, <1>4, <1>5, OneRunSteps

(* A process is lost with all its runs. *)
LEMMA CrashForgives ==
    ASSUME ChargeInv, NEW w \in Processes, Crash(w)
    PROVE  ChargeInv'
<1>. DEFINE lost == {r \in Runs : Home[r] = w /\ Busy(r)}
<1>1. /\ phase' = [r \in Runs |-> IF r \in lost THEN "gone" ELSE phase[r]]
      /\ staged' = [r \in Runs |-> IF r \in lost THEN {} ELSE staged[r]]
      /\ forgiven' = forgiven \cup UNION {Forfeits(r) : r \in lost}
      /\ UNCHANGED <<kind, ended, call, noted, charges, answered, late>>
      /\ lost \subseteq Runs
  BY DEF Crash
<1>. HIDE DEF lost
<1>2. LedgerType'
  BY <1>1 DEF ChargeInv, LedgerType, Phases
<1>3. ASSUME NEW r \in Runs PROVE RunCalls(r)'
  BY <1>1 DEF ChargeInv, RunCalls
<1>4. ASSUME NEW c \in Calls PROVE CallInv(c)'
  <2>1. c[1] \in Runs /\ CallInv(c)
    BY CallIs DEF ChargeInv, CallInv
  <2>2. CASE c[1] \in lost
    <3>1. phase'[c[1]] = "gone" /\ staged'[c[1]] = {}
      BY <1>1, <2>2
    <3>2. c \in Forfeits(c[1]) => c \in forgiven'
      BY <1>1, <2>2
    <3>3. Drops(c[1], "gone")
      BY DEF Drops
    <3>4. c \in forgiven => c \in forgiven'
      BY <1>1
    <3>. QED BY <1>1, <2>1, <3>1, <3>2, <3>3, <3>4, CallDropped
  <2>3. CASE c[1] \notin lost
    <3>1. phase'[c[1]] = phase[c[1]] /\ staged'[c[1]] = staged[c[1]]
      BY <1>1, <2>1, <2>3
    <3>2. c \in forgiven => c \in forgiven'
      BY <1>1
    <3>. QED BY <1>1, <2>1, <3>1, <3>2
             DEF CallInv, PaidOnce, Unpaid, NotedWhile, PaidFor, Newest
  <2>. QED BY <2>2, <2>3
<1>. QED BY <1>2, <1>3, <1>4 DEF ChargeInv, CallInv

(* The reaper charges what is noted and not charged. *)
LEMMA ReaperCharges ==
    ASSUME ChargeInv, NEW r \in Runs, FailLost(r),
           \/ phase[r] = "gone" /\ late' = late
           \/ phase[r] \in {"open", "asked", "answered"} /\ late' = late \cup {r}
    PROVE  ChargeInv'
<1>. USE DEF FailLost
<1>t. LedgerType /\ r \notin ended /\ r \notin late /\ kind[r] = "image"
  BY DEF ChargeInv, LedgerType
<1>n. /\ \A c \in noted : charges[c] = 0 /\ Newest(c)
      /\ \A c \in Calls : c[1] = r /\ Newest(c) <=> c = Current(r)
  BY <1>t, CallIs DEF ChargeInv, NotedWhile, LedgerType
<1>c. \A c \in Calls : charges'[c] = IF c \in noted /\ c = Current(r) THEN 1 ELSE charges[c]
  BY <1>n, <1>t DEF LedgerType
<1>1. LedgerType'
  BY <1>t DEF LedgerType
<1>2. OthersKept(r)
  BY <1>c, <1>n, <1>t DEF LedgerType, OthersKept
<1>3. RunCalls(r)'
  BY <1>t DEF ChargeInv, RunCalls
<1>4. ASSUME NEW c \in Calls, c[1] = r PROVE CallInv(c)'
  <2>1. /\ CallInv(c) /\ RunCalls(r) /\ c[2] \in Nat /\ call[r] \in Nat /\ charges[c] \in 0..2
        /\ c = Current(r) <=> Newest(c)
    BY <1>4, OwnCall
  <2>2. /\ c \in noted => Newest(c) /\ charges[c] = 0
        /\ c \notin noted' /\ charges'[c] = IF c \in noted THEN 1 ELSE charges[c]
    BY <1>c, <1>n, <2>1
  <2>3. PaidOnce(c)'
    BY <1>4, <1>t, <2>1, <2>2 DEF CallInv, PaidOnce, Unpaid, Unrecorded, Unanswered, Newest, RunCalls
  <2>4. NotedWhile(c)'
    BY <1>4, <1>t, <2>1, <2>2 DEF CallInv, NotedWhile, Newest
  <2>5. PaidFor(c)'
    BY <1>4, <1>t, <2>1, <2>2 DEF CallInv, PaidFor, Newest
  <2>. QED BY <2>3, <2>4, <2>5 DEF CallInv
<1>. QED BY <1>1, <1>2, <1>3, <1>4, OneRunSteps

(* The cost of images lost where the caller waits for them: the run is     *)
(* closed with it.                                                         *)
LEMMA ImageCostLost ==
    ASSUME ChargeInv, NEW r \in Runs, LoseImageCost(r)
    PROVE  ChargeInv'
<1>. USE DEF LoseImageCost
<1>t. /\ LedgerType /\ RunCalls(r) /\ Current(r) \in Calls
      /\ phase[r] = "answered" /\ kind[r] = "image"
  BY CurrentIs DEF ChargeInv
<1>u. UNCHANGED <<kind, call, staged, charges, answered, late>>
  BY DEF holdVars
<1>1. LedgerType'
  BY <1>t, <1>u DEF LedgerType, Phases
<1>2. phase'[r] = "over" /\ OthersKept(r)
  BY <1>t, <1>u DEF LedgerType, OthersKept, Current
<1>e. staged[r] = {}
  <2>. SUFFICES ASSUME NEW c \in staged[r] PROVE FALSE
    OBVIOUS
  <2>1. c \in Calls /\ c[1] = r /\ c[2] \in 1..MaxCalls
    BY <1>t, CallIs DEF LedgerType, RunCalls
  <2>2. call[r] = 1 /\ ~Newest(c) /\ ~(c[2] > call[r])
    <3>1. CallInv(c) /\ call[r] \in Nat
      BY <2>1, OwnCall
    <3>2. call[r] = 1
      BY <1>t, <3>1 DEF RunCalls
    <3>. QED BY <1>t, <2>1, <3>1, <3>2 DEF CallInv, PaidOnce, Unrecorded
  <2>. QED BY <2>1, <2>2, CallAssumption DEF Newest
<1>3. RunCalls(r)'
  BY <1>t, <1>u, <1>2, <1>e DEF RunCalls
<1>4. ASSUME NEW c \in Calls, c[1] = r PROVE CallInv(c)'
  <2>1. /\ CallInv(c) /\ c[2] \in Nat /\ call[r] \in Nat /\ charges[c] \in 0..2
        /\ c = Current(r) <=> Newest(c)
    BY <1>4, OwnCall
  <2>2. /\ c \in noted' <=> c \in noted /\ ~Newest(c)
        /\ c \in forgiven' <=> c \in forgiven \/ Newest(c)
        /\ Newest(c)' <=> Newest(c)
    BY <1>u, <2>1 DEF Newest
  <2>. HIDE DEF LoseImageCost
  <2>3. PaidOnce(c)'
    BY <1>2, <1>4, <1>u, <2>1, <2>2 DEF CallInv, PaidOnce, Unpaid, Unrecorded, Unanswered
  <2>4. NotedWhile(c)'
    BY <1>2, <1>4, <1>u, <2>1, <2>2 DEF CallInv, NotedWhile
  <2>5. PaidFor(c)'
    BY <1>2, <1>4, <1>u, <2>1, <2>2 DEF CallInv, PaidFor, NotedWhile, Unanswered
  <2>. QED BY <2>3, <2>4, <2>5 DEF CallInv
<1>. QED BY <1>1, <1>2, <1>3, <1>4, OneRunSteps

LEMMA InitCharges == CallInit => ChargeInv
<1>. SUFFICES ASSUME CallInit PROVE ChargeInv
  OBVIOUS
<1>1. /\ phase = [r \in Runs |-> "idle"] /\ call = [r \in Runs |-> 0]
      /\ staged = [r \in Runs |-> {}] /\ charges = [c \in Calls |-> 0]
      /\ ended = {} /\ noted = {} /\ answered = {} /\ late = {}
  BY DEF CallInit
<1>2. LedgerType
  BY <1>1, CallAssumption DEF LedgerType, Phases
<1>3. \A r \in Runs : RunCalls(r)
  BY <1>1 DEF RunCalls
<1>4. ASSUME NEW c \in Calls PROVE CallInv(c)
  <2>1. c[1] \in Runs
    BY <1>2, CallIs
  <2>. QED BY <1>1, <2>1 DEF CallInv, PaidOnce, NotedWhile, PaidFor, Unpaid, Unanswered, Unrecorded
<1>. QED BY <1>2, <1>3, <1>4 DEF ChargeInv, CallInv

LEMMA ChargeStep == ChargeInv /\ [CallNext]_callVars => ChargeInv'
<1>. SUFFICES ASSUME ChargeInv, [CallNext]_callVars PROVE ChargeInv'
  OBVIOUS
<1>. USE DEF ledgerVars, historyVars, holdVars
<1>p. /\ {"idle", "checked", "admitted", "open", "asked", "closing", "over", "gone"} \subseteq Phases
      /\ \A r \in Runs : phase = [phase EXCEPT ![r] = phase[r]] /\ phase[r] \in Phases
  BY DEF Phases, ChargeInv, LedgerType
<1>k. CASE UNCHANGED <<ledger, phase>>
  BY <1>k DEF ledger, ChargeInv, LedgerType, RunCalls, PaidOnce, NotedWhile, PaidFor, Unpaid, Newest
<1>m. ASSUME NEW r \in Runs, NEW p \in Phases, MovesOn(r, p),
             phase' = [phase EXCEPT ![r] = p], UNCHANGED ledger
      PROVE  ChargeInv'
  BY <1>m, MoveOn
<1>1. ASSUME NEW r \in Runs, CheckRefused(r) \/ Check(r) PROVE ChargeInv'
  <2>1. Begins(r) /\ \E p \in {"idle", "checked"} : phase' = [phase EXCEPT ![r] = p]
    BY <1>1, <1>p DEF CheckRefused, Check, Begins
  <2>. QED BY <1>1, <2>1, BeginCall DEF CheckRefused, Check
<1>2. ASSUME NEW r \in Runs, Acquire(r) \/ AcquireLocally(r) PROVE ChargeInv'
  <2>1. /\ phase[r] = "checked" /\ UNCHANGED ledger
        /\ \E p \in {"idle", "admitted"} : phase' = [phase EXCEPT ![r] = p]
    BY <1>2 DEF Acquire, AcquireLocally, Hold, ledger
  <2>. QED BY <1>m, <1>p, <2>1 DEF MovesOn
<1>3. ASSUME NEW r \in Runs, OpenStep(r) PROVE ChargeInv'
  <2>1. phase[r] = "admitted" /\ phase' = [phase EXCEPT ![r] = "open"]
    BY <1>3 DEF OpenStep
  <2>. QED BY <1>3, <1>p, <2>1, CommitPays DEF OpenStep
<1>4. ASSUME NEW r \in Runs, RefuseUnpriced(r) \/ FailBeforeAsking(r) \/ Ask(r) \/ ProviderFails(r)
      PROVE  ChargeInv'
  <2>1. /\ UNCHANGED ledger
        /\ \E p \in {"idle", "closing", "asked", phase[r]} :
              phase' = [phase EXCEPT ![r] = p] /\ MovesOn(r, p)
    BY <1>4, <1>p DEF RefuseUnpriced, FailBeforeAsking, Ask, ProviderFails, CallFails, MovesOn, ledger
  <2>. QED BY <1>m, <1>p, <2>1
<1>5. ASSUME NEW r \in Runs, ImageTimesOut(r) \/ RecordChat(r) PROVE ChargeInv'
  BY <1>5, <1>p, RecordStages DEF ImageTimesOut, RecordChat, RecordCost, CallFails
<1>6. ASSUME NEW r \in Runs, RecordImages(r) PROVE ChargeInv'
  <2>1. CASE Current(r) \in noted
    BY <1>6, <1>p, <2>1, RecordStages DEF RecordImages, RecordCost
  <2>2. CASE Current(r) \notin noted
    BY <1>6, <1>m, <1>p, <2>2 DEF RecordImages, MovesOn, ledger
  <2>. QED BY <2>1, <2>2
<1>7. ASSUME NEW r \in Runs, SettleStream(r) PROVE ChargeInv'
  BY <1>7, <1>p, CommitPays DEF SettleStream
<1>8. ASSUME NEW r \in Runs, NEW saw \in BOOLEAN, EndRun(r, saw) PROVE ChargeInv'
  BY <1>8, <1>p, CommitPays DEF EndRun
<1>9. ASSUME NEW r \in Runs, Step(r) PROVE ChargeInv'
  BY <1>1, <1>2, <1>3, <1>4, <1>5, <1>6, <1>7, <1>8, <1>9, AskNotes, AnswerCounts DEF Step
<1>10. ASSUME NEW r \in Runs, CallerRollsBack(r) \/ LoseCost(r) \/ Cancel(r) PROVE ChargeInv'
  <2>1. \E p \in {"idle", "gone"} : phase' = [phase EXCEPT ![r] = p] /\ Drops(r, p)
    BY <1>10, <1>p DEF CallerRollsBack, LoseCost, Cancel, Drops
  <2>2. Rollback(r) /\ UNCHANGED <<kind, ended, call, noted, charges, answered, late>>
    BY <1>10 DEF CallerRollsBack, LoseCost, Cancel
  <2>. QED BY <1>p, <2>1, <2>2, RollbackForgives
<1>11. ASSUME NEW r \in Runs, Reap(r) \/ ReapAlive(r) PROVE ChargeInv'
  BY <1>11, ReaperCharges DEF Reap, ReapAlive
<1>12. ASSUME NEW w \in Processes, Crash(w) PROVE ChargeInv'
  BY <1>12, CrashForgives
<1>13. RedisChanges \/ UNCHANGED callVars => UNCHANGED <<ledger, phase>>
  BY DEF RedisChanges, callVars, ledger
<1>14. \A t \in Tokens : Release(t) => UNCHANGED <<ledger, phase>>
  BY DEF Release, ledger
<1>15. \A c \in Calls, where \in {"redis", "local"} : Expire(c, where) => UNCHANGED <<ledger, phase>>
  BY DEF Expire, ledger
<1>. QED BY <1>k, <1>9, <1>10, <1>11, <1>12, <1>13, <1>14, <1>15, ImageCostLost DEF CallNext

(* The calls Owed names, one by one. *)
InHand == {"admitted", "open", "asked", "flowing", "answered"}
Owes(c) ==
    \/ c \in noted
    \/ c \in staged[c[1]]
    \/ Newest(c) /\ phase[c[1]] \in InHand

LEMMA OwedIs == ChargeInv => \A c \in Calls : c \in Owed <=> Owes(c)
<1>. SUFFICES ASSUME ChargeInv, NEW c \in Calls PROVE c \in Owed <=> Owes(c)
  OBVIOUS
<1>. DEFINE busy == {q \in Runs : phase[q] \in {"admitted", "open", "asked", "flowing", "answered"}}
            inHand == {Current(r) : r \in busy}
            flushed == UNION {staged[r] : r \in Runs}
<1>1. Owed = (noted \cup flushed) \cup inHand
  BY ZenonT(60) DEF Owed
<1>2. c[1] \in Runs /\ \A r \in Runs : c = Current(r) <=> c[1] = r /\ Newest(c)
  BY CallIs DEF ChargeInv
<1>3. c \in flushed <=> c \in staged[c[1]]
  BY <1>2 DEF ChargeInv, RunCalls
<1>4. c \in inHand <=> Newest(c) /\ phase[c[1]] \in InHand
  <2>1. c \in inHand <=> \E r \in busy : c = Current(r)
    OBVIOUS
  <2>2. \A r : r \in busy <=> r \in Runs /\ phase[r] \in InHand
    BY DEF InHand
  <2>. HIDE DEF busy, inHand
  <2>. QED BY <1>2, <2>1, <2>2
<1>. HIDE DEF flushed, inHand
<1>. QED BY <1>1, <1>3, <1>4 DEF Owes

(* A call is charged once: never twice, but by a job that outlives its     *)
(* reaping, and once its run has gone on not less, unless its session lost *)
(* the cost or its step was failed before it said what it asks for:        *)
(* whatever fails, is cancelled, crashes or is reaped meanwhile, for any   *)
(* runs and calls.                                                         *)
THEOREM ChargedOnceHolds == CallSpec => []ChargedOnce
<1>1. ChargeInv => ChargedOnce
  <2>. SUFFICES ASSUME ChargeInv PROVE ChargedOnce
    OBVIOUS
  <2>1. \A c \in Calls : charges[c] <= 1 \/ c[1] \in late
    BY DEF ChargeInv, PaidOnce
  <2>2. ASSUME NEW c \in answered \ (Owed \cup forgiven) PROVE charges[c] >= 1
    <3>1. c \in Calls /\ LedgerType
      BY DEF ChargeInv, LedgerType
    <3>2. c[1] \in Runs /\ PaidFor(c) /\ (Newest(c) => c = Current(c[1]))
      BY <3>1, CallIs DEF ChargeInv
    <3>3. ~Owes(c)
      BY <2>2, <3>1, OwedIs
    <3>. QED BY <3>2, <3>3 DEF PaidFor, Owes, InHand
  <2>. QED BY <2>1, <2>2 DEF ChargedOnce
<1>. QED BY <1>1, InitCharges, ChargeStep, PTL DEF CallSpec

-----------------------------------------------------------------------------
(* The limit of the budget *)

(* A call that was charged or may be, and that the budget saw in time: the *)
(* limit is kept for these.  Of them the ones not yet charged must be held *)
(* where every process sees it.                                            *)
Counts(c) == c \notin tainted /\ Owes(c) /\ charges[c] = 0
Taken == {c \in Calls \ tainted : charges[c] >= 1 \/ Owes(c)}

(* The call was admitted or refused; it is never admitted again.           *)
Begun(c) == c[2] < call[c[1]] \/ (Newest(c) /\ phase[c[1]] # "checked")

HoldType ==
    /\ room \in [Runs -> {Unbounded} \cup 0..Amount]
    /\ pending \in [Runs -> Seq(Tokens)]
    /\ settled \in [Runs -> SUBSET Tokens]
    /\ releasing \subseteq Tokens
    /\ redis \subseteq Calls /\ local \subseteq Calls
    /\ tainted \subseteq Calls

(* The holds of a session are of its own calls, and those it settled are   *)
(* of calls it has flushed or that are over.                               *)
SessionHolds(r) ==
    /\ \A i \in 1..Len(pending[r]) : pending[r][i][1][1] = r /\ Begun(pending[r][i][1])
    /\ \A t \in settled[r] :
        /\ t[1][1] = r /\ Begun(t[1])
        /\ Counts(t[1]) => t[1] \in staged[r]
    /\ phase[r] = "open" => staged[r] = {}

(* What is released nothing needs any more, and what counts is held. *)
HeldWhileNeeded ==
    /\ \A t \in releasing : Begun(t[1]) /\ ~Counts(t[1])
    /\ \A c \in Calls : Counts(c) => c \in redis

HoldInv ==
    /\ HoldType
    /\ \A r \in Runs : SessionHolds(r)
    /\ HeldWhileNeeded
    /\ SpentBefore + Cardinality(Taken) <= Amount

(* What becomes of a call in a step that admits none: it is charged only   *)
(* where that was owed, and what is no longer owed stays so.               *)
Fades(c) ==
    /\ c \in tainted => c \in tainted'
    /\ Owes(c)' => Owes(c) \/ c \in tainted'
    /\ charges'[c] >= charges[c]
    /\ charges'[c] > charges[c] => Owes(c)
    /\ Begun(c) => Begun(c)'

LEMMA FadedCounts ==
    ASSUME LedgerType, LedgerType', NEW c \in Calls, Fades(c)
    PROVE  /\ Counts(c)' => Counts(c)
           /\ c \in Taken' => c \in Taken
<1>1. charges[c] \in 0..2 /\ charges'[c] \in 0..2
  BY DEF LedgerType
<1>. QED BY <1>1 DEF Fades, Counts, Taken

LEMMA CallsFinite == IsFiniteSet(Calls)
<1>1. IsFiniteSet(1..MaxCalls)
  BY CallAssumption, FS_Interval
<1>. QED BY <1>1, RunsAssumption, FS_Product DEF Calls

LEMMA TakenFinite == IsFiniteSet(Taken) /\ Cardinality(Taken) \in Nat
<1>1. Taken \in SUBSET Calls
  BY DEF Taken
<1>. QED BY <1>1, CallsFinite, FS_Subset, FS_CardinalityType

LEMMA TakenFades ==
    ASSUME LedgerType, LedgerType', \A c \in Calls : Fades(c),
           SpentBefore + Cardinality(Taken) <= Amount
    PROVE  SpentBefore + Cardinality(Taken') <= Amount
<1>1. Taken' \subseteq Taken
  <2>. SUFFICES ASSUME NEW c \in Taken' PROVE c \in Taken
    OBVIOUS
  <2>1. c \in Calls
    BY DEF Taken
  <2>. QED BY <2>1, FadedCounts
<1>2. Cardinality(Taken') <= Cardinality(Taken) /\ IsFiniteSet(Taken')
  BY <1>1, TakenFinite, FS_Subset
<1>. HIDE DEF Taken
<1>3. Cardinality(Taken') \in Nat
  BY <1>2, FS_CardinalityType
<1>. QED BY <1>2, <1>3, TakenFinite, CallAssumption

(* A step of one run touches the calls and the session of that run.        *)
Apart(r) ==
    /\ \A q \in Runs \ {r} :
        /\ phase'[q] = phase[q] /\ call'[q] = call[q] /\ staged'[q] = staged[q]
        /\ pending'[q] = pending[q] /\ settled'[q] = settled[q]
    /\ \A c \in Calls : c[1] # r =>
        charges'[c] = charges[c] /\ (c \in noted' <=> c \in noted)

LEMMA OthersFade ==
    ASSUME LedgerType, NEW r \in Runs, Apart(r), tainted \subseteq tainted',
           \A c \in Calls : c[1] = r => Fades(c)
    PROVE  \A c \in Calls : Fades(c)
<1>. SUFFICES ASSUME NEW c \in Calls, c[1] # r PROVE Fades(c)
  OBVIOUS
<1>1. c[1] \in Runs \ {r} /\ charges[c] \in 0..2
  BY CallIs DEF LedgerType
<1>2. /\ phase'[c[1]] = phase[c[1]] /\ call'[c[1]] = call[c[1]] /\ staged'[c[1]] = staged[c[1]]
      /\ charges'[c] = charges[c] /\ (c \in noted' <=> c \in noted)
  BY <1>1 DEF Apart
<1>. QED BY <1>1, <1>2 DEF Fades, Owes, Begun, Newest

(* Holds and flushed costs that stay where they are stay in order.         *)
LEMMA SessionKept ==
    ASSUME LedgerType, LedgerType', HoldType, NEW q \in Runs, SessionHolds(q), \A c \in Calls : Fades(c),
           pending'[q] = pending[q], settled'[q] = settled[q], staged'[q] = staged[q],
           phase'[q] = "open" => phase[q] = "open"
    PROVE  SessionHolds(q)'
<1>1. ASSUME NEW i \in 1..Len(pending'[q])
      PROVE  (pending[q][i][1][1] = q /\ Begun(pending[q][i][1]))'
  <2>1. pending[q] \in Seq(Tokens) /\ i \in 1..Len(pending[q])
    BY <1>1 DEF HoldType
  <2>2. pending[q][i] \in Tokens
    BY <2>1
  <2>3. PICK c \in Calls : c = pending[q][i][1]
    BY <2>2 DEF Tokens
  <2>4. c = (pending[q][i][1])' /\ c[1] = q /\ Begun(c)'
    BY <2>1, <2>3 DEF SessionHolds, Fades
  <2>. QED BY <2>4 DEF Begun, Newest
<1>2. ASSUME NEW t \in settled'[q]
      PROVE  t[1][1] = q /\ Begun(t[1])' /\ (Counts(t[1])' => t[1] \in staged'[q])
  <2>1. t \in settled[q] /\ t[1] \in Calls
    BY <1>2 DEF HoldType, Tokens
  <2>2. Fades(t[1]) /\ (Counts(t[1])' => Counts(t[1]))
    BY <2>1, FadedCounts
  <2>. QED BY <2>1, <2>2 DEF SessionHolds, Fades
<1>3. phase'[q] = "open" => staged'[q] = {}
  BY DEF SessionHolds
<1>. QED BY <1>1, <1>2, <1>3 DEF SessionHolds

LEMMA NeedsFade ==
    ASSUME LedgerType, LedgerType', HoldType, HoldType', HeldWhileNeeded, \A c \in Calls : Fades(c),
           redis \subseteq redis',
           \A t \in releasing' \ releasing : Begun(t[1])' /\ ~Counts(t[1])'
    PROVE  HeldWhileNeeded'
<1>1. ASSUME NEW t \in releasing' PROVE Begun(t[1])' /\ ~Counts(t[1])'
  <2>1. CASE t \in releasing
    <3>1. t[1] \in Calls
      BY <2>1 DEF HoldType, Tokens
    <3>2. Fades(t[1]) /\ (Counts(t[1])' => Counts(t[1]))
      BY <3>1, FadedCounts
    <3>. QED BY <2>1, <3>2 DEF HeldWhileNeeded, Fades
  <2>. QED BY <2>1
<1>2. ASSUME NEW c \in Calls, Counts(c)' PROVE c \in redis'
  BY <1>2, FadedCounts DEF HeldWhileNeeded
<1>. QED BY <1>1, <1>2 DEF HeldWhileNeeded

LEMMA OneSession ==
    ASSUME LedgerType, LedgerType', HoldInv, NEW r \in Runs, Apart(r), tainted \subseteq tainted',
           \A c \in Calls : c[1] = r => Fades(c), HoldType', SessionHolds(r)', redis \subseteq redis',
           \A t \in releasing' \ releasing : Begun(t[1])' /\ ~Counts(t[1])'
    PROVE  HoldInv'
<1>1. \A c \in Calls : Fades(c)
  BY OthersFade
<1>2. ASSUME NEW q \in Runs, q # r PROVE SessionHolds(q)'
  BY <1>1, <1>2, SessionKept DEF HoldInv, Apart
<1>3. HeldWhileNeeded'
  BY <1>1, NeedsFade DEF HoldInv
<1>4. (SpentBefore + Cardinality(Taken) <= Amount)'
  BY <1>1, TakenFades DEF HoldInv
<1>. QED BY <1>2, <1>3, <1>4 DEF HoldInv

(* Steps that leave every hold where it is. *)
LEMMA HoldsStay ==
    ASSUME LedgerType, LedgerType', HoldInv, NEW r \in Runs, Apart(r), tainted' = tainted,
           \A c \in Calls : c[1] = r => Fades(c),
           UNCHANGED <<pending, settled, releasing, staged>>, redis \subseteq redis', HoldType',
           phase'[r] = "open" => phase[r] = "open"
    PROVE  HoldInv'
<1>2. \A c \in Calls : Fades(c)
  BY OthersFade
<1>3. SessionHolds(r)'
  BY <1>2, SessionKept DEF HoldInv
<1>. QED BY <1>3, OneSession

(* The calls of a run that moves on without taking a call in hand. *)
LEMMA MoveFades ==
    ASSUME LedgerType, NEW r \in Runs, NEW c \in Calls, c[1] = r,
           call' = call, c \in tainted => c \in tainted',
           phase'[r] # "checked" \/ phase'[r] = phase[r],
           phase'[r] \in InHand => phase[r] \in InHand,
           c \in noted' \/ c \in staged'[r] => Owes(c),
           charges'[c] >= charges[c], charges'[c] > charges[c] => Owes(c)
    PROVE  Fades(c)
BY DEF Fades, Owes, Begun, Newest

LEMMA SpentType ==
    ASSUME LedgerType
    PROVE  /\ Spent \in Nat /\ Spent >= SpentBefore + Cardinality(Charged(1))
           /\ \A n \in Nat : IsFiniteSet(Charged(n)) /\ Cardinality(Charged(n)) \in Nat
           /\ \A r \in Runs : SpendSeenBy(r) \in Nat /\ SpendSeenBy(r) >= Spent
<1>1. \A n \in Nat : IsFiniteSet(Charged(n)) /\ Cardinality(Charged(n)) \in Nat
  <2>. SUFFICES ASSUME NEW n \in Nat PROVE IsFiniteSet(Charged(n)) /\ Cardinality(Charged(n)) \in Nat
    OBVIOUS
  <2>1. Charged(n) \in SUBSET Calls
    BY DEF Charged
  <2>. QED BY <2>1, CallsFinite, FS_Subset, FS_CardinalityType
<1>2. /\ Cardinality(Charged(1)) \in Nat /\ Cardinality(Charged(2)) \in Nat
  BY <1>1
<1>3. Spent \in Nat /\ Spent >= SpentBefore + Cardinality(Charged(1))
  BY <1>2, CallAssumption DEF Spent
<1>4. ASSUME NEW r \in Runs PROVE SpendSeenBy(r) \in Nat /\ SpendSeenBy(r) >= Spent
  <2>1. staged[r] \in SUBSET Calls
    BY DEF LedgerType
  <2>2. Cardinality(staged[r]) \in Nat
    BY <2>1, CallsFinite, FS_Subset, FS_CardinalityType
  <2>. HIDE DEF Spent
  <2>. QED BY <1>3, <2>2 DEF SpendSeenBy
<1>. QED BY <1>1, <1>3, <1>4

(* A call begins. *)
LEMMA CheckHolds ==
    ASSUME ChargeInv, LedgerType', HoldInv, NEW r \in Runs, CheckRefused(r) \/ Check(r)
    PROVE  HoldInv'
<1>t. LedgerType /\ HoldType
  BY DEF ChargeInv, HoldInv
<1>1. /\ phase[r] = "idle" /\ phase'[r] \in {"idle", "checked"}
      /\ call[r] \in Nat /\ call'[r] = call[r] + 1
      /\ UNCHANGED <<ledgerVars, holdVars, tainted>>
  BY <1>t DEF CheckRefused, Check, Begins, LedgerType, historyVars
<1>2. Apart(r)
  BY <1>t DEF Apart, CheckRefused, Check, ledgerVars, holdVars, LedgerType
<1>3. ASSUME NEW c \in Calls, c[1] = r PROVE Fades(c)
  <2>1. c[2] \in Nat /\ charges[c] \in 0..2
    BY <1>t, CallIs DEF LedgerType
  <2>. QED BY <1>1, <1>3, <2>1 DEF Fades, Owes, Begun, Newest, InHand, ledgerVars
<1>4. room' \in [Runs -> {Unbounded} \cup 0..Amount]
  <2>1. CASE CheckRefused(r)
    BY <1>t, <2>1 DEF CheckRefused, HoldType
  <2>2. CASE Check(r)
    <3>1. SpendSeenBy(r) \in Nat /\ SpendSeenBy(r) < Amount /\ Amount \in Nat
      BY <1>t, <2>2, SpentType, CallAssumption DEF Check
    <3>2. HoldCapacity(SpendSeenBy(r)) \in {Unbounded} \cup 0..Amount
      BY <3>1 DEF HoldCapacity
    <3>3. room' = [room EXCEPT ![r] = HoldCapacity(SpendSeenBy(r))]
      BY <2>2 DEF Check
    <3>. QED BY <1>t, <3>2, <3>3 DEF HoldType
  <2>. QED BY <2>1, <2>2
<1>5. HoldType'
  BY <1>t, <1>1, <1>4 DEF HoldType, holdVars
<1>. QED BY <1>t, <1>1, <1>2, <1>3, <1>5, HoldsStay DEF ledgerVars, holdVars

(* The call goes on and leaves the session alone. *)
LEMMA CallGoesOn ==
    ASSUME ChargeInv, LedgerType', HoldInv, NEW r \in Runs,
           FailBeforeAsking(r) \/ Ask(r) \/ AskForImages(r) \/ ProviderAnswers(r) \/ ProviderFails(r)
    PROVE  HoldInv'
<1>t. LedgerType /\ HoldType
  BY DEF ChargeInv, HoldInv
<1>. USE DEF FailBeforeAsking, Ask, AskForImages, ProviderAnswers, ProviderFails, CallFails,
             ledgerVars, historyVars
<1>1. /\ phase[r] \in InHand /\ phase'[r] \notin {"checked", "open"}
      /\ UNCHANGED <<holdVars, tainted, staged, charges, call, room>>
  BY <1>t DEF LedgerType, InHand
<1>2. \A c \in Calls : c \in noted' => c \in noted \/ c = Current(r)
  OBVIOUS
<1>3. Apart(r)
  <2>1. \A c \in Calls : c[1] # r => (c \in noted' <=> c \in noted)
    BY DEF Current
  <2>. QED BY <1>t, <1>1, <2>1 DEF Apart, holdVars, LedgerType
<1>4. ASSUME NEW c \in Calls, c[1] = r PROVE Fades(c)
  <2>1. charges[c] \in 0..2 /\ (c = Current(r) <=> Newest(c))
    BY <1>4, <1>t, CallIs DEF LedgerType
  <2>2. c \in noted' \/ c \in staged'[r] => Owes(c)
    BY <1>1, <1>2, <1>4, <2>1 DEF Owes
  <2>. QED BY <1>t, <1>1, <1>4, <2>1, <2>2, MoveFades
<1>5. HoldType'
  BY <1>t, <1>1 DEF HoldType, holdVars
<1>. QED BY <1>t, <1>1, <1>3, <1>4, <1>5, HoldsStay DEF holdVars

(* The cost of images that is lost is owed no longer. *)
LEMMA LostImagesHold ==
    ASSUME ChargeInv, LedgerType', HoldInv, NEW r \in Runs, LoseImageCost(r)
    PROVE  HoldInv'
<1>t. LedgerType /\ HoldType
  BY DEF ChargeInv, HoldInv
<1>1. /\ phase[r] = "answered" /\ phase' = [phase EXCEPT ![r] = "over"]
      /\ noted' = noted \ {Current(r)}
      /\ UNCHANGED <<call, holdVars, tainted, staged, charges, room>>
  BY DEF LoseImageCost, holdVars
<1>2. Apart(r) /\ phase'[r] = "over"
  BY <1>t, <1>1 DEF Apart, holdVars, LedgerType, Current
<1>3. ASSUME NEW c \in Calls, c[1] = r PROVE Fades(c)
  <2>1. charges[c] \in 0..2
    BY <1>t DEF LedgerType
  <2>. QED BY <1>t, <1>1, <1>2, <1>3, <2>1, MoveFades DEF InHand, Owes
<1>4. HoldType'
  BY <1>t, <1>1 DEF HoldType, holdVars
<1>. QED BY <1>t, <1>1, <1>2, <1>3, <1>4, HoldsStay DEF holdVars

(* The reaper charges what was owed. *)
LEMMA ReaperHolds ==
    ASSUME ChargeInv, LedgerType', HoldInv, NEW r \in Runs, FailLost(r)
    PROVE  HoldInv'
<1>t. LedgerType /\ HoldType
  BY DEF ChargeInv, HoldInv
<1>. USE DEF FailLost
<1>1. UNCHANGED <<phase, call, staged, holdVars, tainted, room>>
  OBVIOUS
<1>2. \A c \in Calls : /\ c \in noted' => c \in noted
                       /\ charges'[c] = IF c \in noted /\ c = Current(r) /\ charges[c] = 0
                                          THEN 1 ELSE charges[c]
  BY <1>t DEF LedgerType
<1>3. Apart(r)
  BY <1>1, <1>2 DEF Apart, Current, holdVars
<1>4. ASSUME NEW c \in Calls, c[1] = r PROVE Fades(c)
  <2>1. charges[c] \in 0..2
    BY <1>t DEF LedgerType
  <2>. QED BY <1>t, <1>1, <1>2, <1>4, <2>1, MoveFades DEF Owes
<1>5. HoldType'
  BY <1>t, <1>1 DEF HoldType, holdVars
<1>. QED BY <1>t, <1>1, <1>3, <1>4, <1>5, HoldsStay DEF holdVars

(* The holds of a session, waiting and settled. *)
HeldBy(r) == settled[r] \cup {pending[r][i] : i \in 1..Len(pending[r])}

LEMMA OwnHolds ==
    ASSUME HoldType, NEW r \in Runs, SessionHolds(r), NEW t \in HeldBy(r)
    PROVE  t \in Tokens /\ t[1] \in Calls /\ t[1][1] = r /\ Begun(t[1])
<1>1. \A i \in 1..Len(pending[r]) : pending[r][i] \in Tokens
  BY DEF HoldType
<1>2. settled[r] \subseteq Tokens
  BY DEF HoldType
<1>3. t \in Tokens
  BY <1>1, <1>2 DEF HeldBy
<1>4. t[1][1] = r /\ Begun(t[1])
  BY DEF HeldBy, SessionHolds
<1>. QED BY <1>3, <1>4 DEF Tokens

LEMMA SettleOne ==
    ASSUME HoldType, NEW r \in Runs
    PROVE  /\ Waiting(r) \in Seq(Tokens) /\ Settled(r) \subseteq Tokens
           /\ {Waiting(r)[i] : i \in 1..Len(Waiting(r))} \subseteq HeldBy(r)
           /\ Settled(r) \subseteq HeldBy(r)
<1>1. pending[r] \in Seq(Tokens) /\ settled[r] \subseteq Tokens
  BY DEF HoldType
<1>2. CASE pending[r] = << >>
  BY <1>1, <1>2 DEF Waiting, Settled, HeldBy
<1>3. CASE pending[r] # << >>
  <2>1. /\ Tail(pending[r]) \in Seq(Tokens) /\ Len(pending[r]) \in Nat \ {0}
        /\ Len(Tail(pending[r])) = Len(pending[r]) - 1
        /\ Head(pending[r]) = pending[r][1] /\ Head(pending[r]) \in Tokens
        /\ \A i \in 1..Len(Tail(pending[r])) : Tail(pending[r])[i] = pending[r][i + 1]
    BY <1>1, <1>3
  <2>2. 1 \in 1..Len(pending[r]) /\ \A i \in 1..Len(Tail(pending[r])) : i + 1 \in 1..Len(pending[r])
    BY <2>1
  <2>. QED BY <1>1, <1>3, <2>1, <2>2 DEF Waiting, Settled, HeldBy
<1>. QED BY <1>2, <1>3

(* A session that settles, releases or drops holds and takes no new one.   *)
LEMMA SessionChanges ==
    ASSUME HoldType, NEW r \in Runs, SessionHolds(r), \A c \in Calls : c[1] = r => Fades(c),
           settled'[r] \subseteq HeldBy(r),
           {pending'[r][i] : i \in 1..Len(pending'[r])} \subseteq HeldBy(r),
           \A t \in settled'[r] : Counts(t[1])' => t[1] \in staged'[r],
           phase'[r] = "open" => staged'[r] = {}
    PROVE  SessionHolds(r)'
<1>1. ASSUME NEW i \in 1..Len(pending'[r])
      PROVE  (pending[r][i][1][1] = r /\ Begun(pending[r][i][1]))'
  <2>1. PICK t \in HeldBy(r) : t = pending'[r][i]
    OBVIOUS
  <2>2. t[1] \in Calls /\ t[1][1] = r /\ Begun(t[1])
    BY OwnHolds
  <2>3. Begun(t[1])'
    BY <2>2 DEF Fades
  <2>. QED BY <2>1, <2>2, <2>3 DEF Begun, Newest
<1>2. ASSUME NEW t \in settled'[r] PROVE t[1][1] = r /\ Begun(t[1])'
  BY OwnHolds DEF Fades
<1>. QED BY <1>1, <1>2 DEF SessionHolds

(* Why a call counts. *)
LEMMA CountsWhere ==
    ASSUME ChargeInv, NEW r \in Runs, NEW c \in Calls, c[1] = r, Counts(c)
    PROVE  c \in staged[r] \/ (c = Current(r) /\ (c \in noted \/ phase[r] \in InHand))
BY OwnCall DEF Counts, Owes, CallInv, NotedWhile

(* A cost is flushed: one hold is settled. *)
LEMMA RecordHolds ==
    ASSUME ChargeInv, LedgerType', HoldInv, NEW r \in Runs, RecordCost(r, Current(r)),
           phase[r] \in {"asked", "answered"}, NEW p \in {"idle", "closing"},
           phase' = [phase EXCEPT ![r] = p],
           UNCHANGED <<call, room, noted, charges, redis, local, releasing, tainted>>
    PROVE  HoldInv'
<1>t. LedgerType /\ HoldType /\ SessionHolds(r)
  BY DEF ChargeInv, HoldInv
<1>1. /\ staged'[r] = staged[r] \cup {Current(r)} /\ phase'[r] = p
      /\ pending'[r] = Waiting(r) /\ settled'[r] = Settled(r)
      /\ phase[r] \in InHand
  BY <1>t DEF RecordCost, LedgerType, HoldType, InHand
<1>2. Apart(r)
  BY <1>t DEF RecordCost, Apart, LedgerType, HoldType
<1>3. ASSUME NEW c \in Calls, c[1] = r PROVE Fades(c)
  <2>1. charges[c] \in 0..2 /\ (c = Current(r) <=> Newest(c))
    BY <1>3, OwnCall
  <2>2. c \in noted' \/ c \in staged'[r] => Owes(c)
    BY <1>1, <1>3, <2>1 DEF Owes
  <2>. QED BY <1>t, <1>1, <1>3, <2>1, <2>2, MoveFades DEF InHand
<1>4. HoldType'
  BY <1>t, SettleOne DEF HoldType, RecordCost
<1>5. \A t \in settled'[r] : Counts(t[1])' => t[1] \in staged'[r]
  <2>. SUFFICES ASSUME NEW t \in settled'[r], Counts(t[1])' PROVE t[1] \in staged'[r]
    OBVIOUS
  <2>1. t[1] \in Calls /\ t[1][1] = r
    BY <1>t, <1>1, SettleOne, OwnHolds
  <2>2. Counts(t[1])
    BY <1>3, <1>t, <2>1, FadedCounts
  <2>. QED BY <1>1, <2>1, <2>2, CountsWhere
<1>6. SessionHolds(r)'
  BY <1>t, <1>1, <1>3, <1>5, SettleOne, SessionChanges
<1>. QED BY <1>t, <1>2, <1>3, <1>4, <1>6, OneSession

(* Images of a run the reaper has ended cost nothing more. *)
LEMMA LateImages ==
    ASSUME ChargeInv, LedgerType', HoldInv, NEW r \in Runs, RecordImages(r), Current(r) \notin noted
    PROVE  HoldInv'
<1>t. LedgerType /\ HoldType
  BY DEF ChargeInv, HoldInv
<1>1. /\ phase[r] = "answered" /\ phase' = [phase EXCEPT ![r] = "closing"]
      /\ UNCHANGED <<call, noted, holdVars, tainted, staged, charges, room>>
  BY DEF RecordImages, holdVars, historyVars
<1>2. Apart(r) /\ phase'[r] = "closing"
  BY <1>t, <1>1 DEF Apart, holdVars, LedgerType
<1>3. ASSUME NEW c \in Calls, c[1] = r PROVE Fades(c)
  <2>1. charges[c] \in 0..2
    BY <1>t DEF LedgerType
  <2>. QED BY <1>t, <1>1, <1>2, <1>3, <2>1, MoveFades DEF InHand, Owes
<1>4. HoldType'
  BY <1>t, <1>1 DEF HoldType, holdVars
<1>. QED BY <1>t, <1>1, <1>2, <1>3, <1>4, HoldsStay DEF holdVars

(* A commit charges what was flushed and releases what was settled. *)
LEMMA CommitHolds ==
    ASSUME ChargeInv, LedgerType', HoldInv, NEW r \in Runs, NEW flushed, NEW holds, NEW p \in Phases,
           Commit(r, flushed, holds), phase' = [phase EXCEPT ![r] = p],
           \/ /\ phase[r] = "admitted" /\ p = "open" /\ flushed = staged[r] /\ noted' = noted
              /\ holds = settled[r] /\ pending' = pending
           \/ /\ phase[r] = "flowing" /\ p = "idle" /\ flushed = staged[r] \cup {Current(r)}
              /\ noted' = noted /\ holds = Settled(r)
              /\ pending' = [pending EXCEPT ![r] = Waiting(r)]
           \/ /\ phase[r] \in {"idle", "closing"} /\ p = "over" /\ flushed = staged[r]
              /\ noted' = noted \ {Current(r)} /\ holds \subseteq HeldBy(r)
              /\ pending' = pending \/ pending' = [pending EXCEPT ![r] = << >>],
           UNCHANGED <<call, room, redis, local, tainted>>
    PROVE  HoldInv'
<1>t. LedgerType /\ HoldType /\ SessionHolds(r)
  BY DEF ChargeInv, HoldInv
<1>o. \A c \in flushed : c[1] = r
  BY DEF ChargeInv, RunCalls, Current
<1>f. \A c \in Calls : c \in flushed <=> \/ c \in staged[r]
                                         \/ phase[r] = "flowing" /\ c = Current(r)
  OBVIOUS
<1>c. /\ \A c \in Calls : charges'[c] = IF c \in flushed THEN charges[c] + 1 ELSE charges[c]
      /\ staged'[r] = {} /\ settled'[r] = {} /\ phase'[r] = p /\ releasing' = releasing \cup holds
  <2>1. \A c \in Calls : charges'[c] = IF c \in flushed THEN charges[c] + 1 ELSE charges[c]
    BY <1>t DEF LedgerType, Commit
  <2>2. staged'[r] = {} /\ settled'[r] = {} /\ phase'[r] = p
    BY <1>t DEF LedgerType, HoldType, Commit
  <2>3. releasing' = releasing \cup holds
    BY DEF Commit
  <2>. QED BY <2>1, <2>2, <2>3
<1>n. \A c \in Calls : c \in noted' => c \in noted /\ (c = Current(r) => phase'[r] # "over")
  BY <1>c
<1>h. /\ holds \subseteq HeldBy(r) /\ pending'[r] \in Seq(Tokens)
      /\ pending' \in [Runs -> Seq(Tokens)]
      /\ {pending'[r][i] : i \in 1..Len(pending'[r])} \subseteq HeldBy(r)
  <2>1. holds \subseteq HeldBy(r)
    BY <1>t, SettleOne DEF HeldBy
  <2>2. CASE pending' = pending
    BY <1>t, <2>1, <2>2 DEF HeldBy, HoldType
  <2>3. CASE pending' = [pending EXCEPT ![r] = Waiting(r)]
    <3>1. pending'[r] = Waiting(r) /\ Waiting(r) \in Seq(Tokens)
      BY <1>t, <2>3, SettleOne DEF HoldType
    <3>. QED BY <1>t, <2>1, <2>3, <3>1, SettleOne DEF HoldType
  <2>4. CASE pending' = [pending EXCEPT ![r] = << >>]
    <3>1. pending'[r] = << >> /\ Len(pending'[r]) = 0 /\ pending'[r] \in Seq(Tokens)
      BY <1>t, <2>4 DEF HoldType
    <3>. QED BY <1>t, <2>1, <2>4, <3>1 DEF HoldType
  <2>. QED BY <2>2, <2>3, <2>4
<1>2. Apart(r)
  <2>1. \A c \in Calls : c[1] # r => charges'[c] = charges[c] /\ c # Current(r)
    BY <1>o, <1>c DEF Current
  <2>2. \A c \in Calls : c[1] # r => (c \in noted' <=> c \in noted)
    BY <2>1
  <2>. QED BY <1>t, <2>1, <2>2 DEF Apart, Commit, LedgerType, HoldType
<1>3. ASSUME NEW c \in Calls, c[1] = r PROVE Fades(c)
  <2>1. charges[c] \in 0..2 /\ (c = Current(r) <=> Newest(c))
    BY <1>3, OwnCall
  <2>2. c \in flushed => Owes(c)
    BY <1>3, <1>f, <2>1 DEF Owes, InHand
  <2>3. /\ charges'[c] >= charges[c]
        /\ charges'[c] > charges[c] => Owes(c)
        /\ c \in noted' \/ c \in staged'[r] => Owes(c)
    BY <1>c, <1>n, <2>1, <2>2 DEF Owes
  <2>4. phase'[r] # "checked" /\ (phase'[r] \in InHand => phase[r] \in InHand)
    BY <1>c DEF InHand
  <2>. QED BY <1>t, <1>3, <2>3, <2>4, MoveFades
<1>4. HoldType'
  <2>1. holds \subseteq Tokens
    BY <1>h, <1>t, OwnHolds
  <2>. QED BY <1>t, <1>h, <2>1 DEF HoldType, Commit
<1>5. \A t \in settled'[r] : Counts(t[1])' => t[1] \in staged'[r]
  BY <1>c
<1>6. SessionHolds(r)'
  BY <1>t, <1>c, <1>h, <1>3, <1>5, SessionChanges
<1>7. ASSUME NEW t \in holds PROVE Begun(t[1])' /\ ~Counts(t[1])'
  <2>1. t[1] \in Calls /\ t[1][1] = r /\ Begun(t[1])
    BY <1>t, <1>h, OwnHolds
  <2>2. Begun(t[1])'
    BY <1>3, <2>1 DEF Fades
  <2>3. ASSUME Counts(t[1])' PROVE FALSE
    <3>1. Counts(t[1]) /\ charges[t[1]] \in 0..2 /\ (t[1] = Current(r) <=> Newest(t[1]))
      BY <1>3, <1>t, <2>1, <2>3, FadedCounts, OwnCall
    <3>2. t[1] \notin flushed
      BY <1>c, <2>1, <2>3, <3>1 DEF Counts
    <3>3. t[1] = Current(r) /\ (t[1] \in noted \/ phase[r] \in InHand)
      BY <1>f, <2>1, <3>1, <3>2, CountsWhere
    <3>4. t[1] \in noted => phase[r] \in {"asked", "answered", "closing", "gone"}
      BY <2>1, OwnCall DEF CallInv, NotedWhile
    <3>5. CASE phase[r] = "admitted"
      BY <1>t, <1>f, <2>1, <3>1, <3>2, <3>5 DEF SessionHolds
    <3>6. CASE phase[r] = "flowing"
      BY <1>f, <2>1, <3>2, <3>3, <3>6
    <3>7. CASE phase[r] \in {"idle", "closing"} /\ p = "over"
      <4>1. ~Owes(t[1])'
        BY <1>c, <1>n, <2>1, <3>3, <3>7 DEF Owes, InHand
      <4>. QED BY <2>3, <4>1 DEF Counts
    <3>. QED BY <3>5, <3>6, <3>7
  <2>. QED BY <2>2, <2>3
<1>. QED BY <1>t, <1>c, <1>2, <1>3, <1>4, <1>6, <1>7, OneSession

(* A session rolls back and gives its settled holds back. *)
LEMMA RollbackHolds ==
    ASSUME ChargeInv, LedgerType', HoldInv, NEW r \in Runs, Rollback(r), NEW p \in {"idle", "gone"},
           phase' = [phase EXCEPT ![r] = p],
           UNCHANGED <<call, room, noted, charges, pending, redis, local>>
    PROVE  HoldInv'
<1>t. LedgerType /\ HoldType /\ SessionHolds(r)
  BY DEF ChargeInv, HoldInv
<1>c. /\ staged'[r] = {} /\ settled'[r] = {} /\ phase'[r] = p /\ releasing' = releasing \cup settled[r]
      /\ tainted' = tainted \cup (staged[r] \cap noted)
  BY <1>t DEF LedgerType, HoldType, Rollback
<1>2. Apart(r)
  BY <1>t DEF Apart, Rollback, LedgerType, HoldType
<1>3. ASSUME NEW c \in Calls, c[1] = r PROVE Fades(c)
  <2>1. charges[c] \in 0..2
    BY <1>t DEF LedgerType
  <2>. QED BY <1>t, <1>c, <1>3, <2>1, MoveFades DEF Owes, InHand
<1>4. HoldType'
  BY <1>t DEF HoldType, LedgerType, Rollback
<1>5. SessionHolds(r)'
  BY <1>t, <1>c, <1>3, SessionChanges DEF HeldBy
<1>6. ASSUME NEW t \in settled[r] PROVE Begun(t[1])' /\ ~Counts(t[1])'
  <2>1. t[1] \in Calls /\ t[1][1] = r /\ Begun(t[1])
    BY <1>t, OwnHolds DEF HeldBy
  <2>2. Begun(t[1])'
    BY <1>3, <2>1 DEF Fades
  <2>3. ASSUME Counts(t[1])' PROVE FALSE
    <3>1. Counts(t[1])
      BY <1>3, <1>t, <2>1, <2>3, FadedCounts
    <3>2. t[1] \in staged[r]
      BY <1>t, <3>1 DEF SessionHolds
    <3>3. t[1] \in noted
      BY <1>c, <2>1, <2>3 DEF Counts, Owes, InHand
    <3>. QED BY <1>c, <2>3, <3>2, <3>3 DEF Counts
  <2>. QED BY <2>2, <2>3
<1>. QED BY <1>t, <1>c, <1>2, <1>3, <1>4, <1>5, <1>6, OneSession

(* A target without a price gives back the last hold taken. *)
LEMMA RefusalHolds ==
    ASSUME ChargeInv, LedgerType', HoldInv, NEW r \in Runs, RefuseUnpriced(r)
    PROVE  HoldInv'
<1>t. LedgerType /\ HoldType /\ SessionHolds(r)
  BY DEF ChargeInv, HoldInv
<1>. USE DEF RefuseUnpriced, ledgerVars
<1>c. /\ phase[r] = "open" /\ phase'[r] \in {"idle", "closing", "open"}
      /\ staged[r] = {} /\ UNCHANGED <<call, staged, noted, charges, settled, redis, local, room>>
      /\ tainted' = tainted \/ tainted' = tainted \cup {Current(r)}
      /\ phase'[r] = "open" => Current(r) \in tainted'
  BY <1>t DEF CallFails, SessionHolds, LedgerType
<1>h. /\ pending' \in [Runs -> Seq(Tokens)] /\ releasing' \subseteq releasing \cup HeldBy(r)
      /\ {pending'[r][i] : i \in 1..Len(pending'[r])} \subseteq HeldBy(r)
  <2>1. CASE pending[r] = << >>
    BY <1>t, <2>1 DEF HoldType, HeldBy
  <2>2. CASE pending[r] # << >>
    <3>1. pending[r] \in Seq(Tokens) /\ Len(pending[r]) \in Nat \ {0}
      BY <1>t, <2>2 DEF HoldType
    <3>2. /\ Front(pending[r]) \in Seq(Tokens) /\ Len(Front(pending[r])) = Len(pending[r]) - 1
          /\ \A i \in 1..(Len(pending[r]) - 1) : Front(pending[r])[i] = pending[r][i]
      BY <3>1 DEF Front
    <3>3. pending' = [pending EXCEPT ![r] = Front(pending[r])]
      BY <2>2
    <3>4. pending'[r] = Front(pending[r]) /\ pending' \in [Runs -> Seq(Tokens)]
      BY <1>t, <3>2, <3>3 DEF HoldType
    <3>5. {pending'[r][i] : i \in 1..Len(pending'[r])} \subseteq HeldBy(r)
      BY <3>1, <3>2, <3>4 DEF HeldBy
    <3>6. Last(pending[r]) \in HeldBy(r)
      BY <3>1 DEF Last, HeldBy
    <3>. QED BY <2>2, <3>4, <3>5, <3>6
  <2>. QED BY <2>1, <2>2
<1>2. Apart(r)
  BY <1>t DEF Apart, CallFails, LedgerType, HoldType
<1>3. ASSUME NEW c \in Calls, c[1] = r PROVE Fades(c)
  <2>1. charges[c] \in 0..2
    BY <1>t DEF LedgerType
  <2>. QED BY <1>t, <1>c, <1>3, <2>1, MoveFades DEF Owes, InHand
<1>4. HoldType'
  <2>1. releasing' \subseteq Tokens
    BY <1>h, <1>t, OwnHolds DEF HoldType
  <2>2. Current(r) \in Calls
    BY <1>c, CurrentIs
  <2>. QED BY <1>t, <1>c, <1>h, <2>1, <2>2 DEF HoldType
<1>5. \A t \in settled'[r] : Counts(t[1])' => t[1] \in staged'[r]
  <2>. SUFFICES ASSUME NEW t \in settled'[r], Counts(t[1])' PROVE FALSE
    OBVIOUS
  <2>1. t \in settled[r] /\ t[1] \in Calls /\ t[1][1] = r
    BY <1>t, <1>c, OwnHolds DEF HeldBy
  <2>2. Counts(t[1])
    BY <1>3, <1>t, <2>1, FadedCounts
  <2>. QED BY <1>t, <1>c, <2>1, <2>2 DEF SessionHolds
<1>6. SessionHolds(r)'
  BY <1>t, <1>c, <1>h, <1>3, <1>5, SessionChanges DEF HeldBy
<1>7. ASSUME NEW t \in HeldBy(r) PROVE Begun(t[1])' /\ ~Counts(t[1])'
  <2>1. t[1] \in Calls /\ t[1][1] = r /\ Begun(t[1])
    BY <1>t, OwnHolds
  <2>2. Begun(t[1])'
    BY <1>3, <2>1 DEF Fades
  <2>3. ASSUME Counts(t[1])' PROVE FALSE
    <3>1. Counts(t[1])
      BY <1>3, <1>t, <2>1, <2>3, FadedCounts
    <3>2. t[1] = Current(r)
      BY <1>c, <2>1, <3>1, CountsWhere
    <3>3. t[1] \notin noted
      BY <1>c, <2>1, OwnCall DEF CallInv, NotedWhile
    <3>4. phase'[r] = "open"
      BY <1>c, <2>1, <2>3, <3>3 DEF Counts, Owes, InHand
    <3>. QED BY <1>c, <2>3, <3>2, <3>4 DEF Counts
  <2>. QED BY <2>2, <2>3
<1>. QED BY <1>t, <1>c, <1>h, <1>2, <1>3, <1>4, <1>6, <1>7, OneSession

(* A refused call leaves nothing behind but, at most, a member in Redis.   *)
LEMMA FullHolds ==
    ASSUME ChargeInv, LedgerType', HoldInv, NEW r \in Runs, phase[r] = "checked",
           phase' = [phase EXCEPT ![r] = "idle"], room' = [room EXCEPT ![r] = Unbounded],
           redis' \in {redis, redis \cup {Current(r)}},
           UNCHANGED <<call, staged, noted, charges, pending, settled, releasing, local, tainted>>
    PROVE  HoldInv'
<1>t. LedgerType /\ HoldType /\ Current(r) \in Calls
  BY CurrentIs DEF ChargeInv, HoldInv
<1>1. Apart(r) /\ phase'[r] = "idle"
  BY <1>t DEF Apart, LedgerType
<1>2. ASSUME NEW c \in Calls, c[1] = r PROVE Fades(c)
  <2>1. charges[c] \in 0..2
    BY <1>t DEF LedgerType
  <2>. QED BY <1>t, <1>1, <1>2, <2>1, MoveFades DEF Owes, InHand
<1>3. HoldType'
  BY <1>t DEF HoldType
<1>. QED BY <1>t, <1>1, <1>2, <1>3, HoldsStay

(* What is spent and what is held, together, is room for what was taken.   *)
LEMMA TakenIsSeen ==
    ASSUME LedgerType, HoldType, HeldWhileNeeded
    PROVE  /\ SpentBefore + Cardinality(Taken) <= Spent + Cardinality(redis)
           /\ Cardinality(redis) \in Nat
<1>1. IsFiniteSet(redis) /\ Cardinality(redis) \in Nat
  BY CallsFinite, FS_Subset, FS_CardinalityType DEF HoldType
<1>2. /\ IsFiniteSet(Charged(1)) /\ Cardinality(Charged(1)) \in Nat
      /\ Spent \in Nat /\ Spent >= SpentBefore + Cardinality(Charged(1))
  BY SpentType
<1>3. Taken \subseteq Charged(1) \cup redis
  <2>. SUFFICES ASSUME NEW c \in Taken, charges[c] < 1 PROVE c \in redis
    BY DEF Taken, Charged, LedgerType
  <2>1. c \in Calls /\ Counts(c)
    BY DEF Taken, Counts, LedgerType
  <2>. QED BY <2>1 DEF HeldWhileNeeded
<1>. HIDE DEF Taken, Charged, Spent
<1>4. /\ IsFiniteSet(Charged(1) \cup redis)
      /\ Cardinality(Charged(1) \cup redis)
            = Cardinality(Charged(1)) + Cardinality(redis) - Cardinality(Charged(1) \cap redis)
  BY <1>1, <1>2, FS_Union
<1>5. Cardinality(Charged(1) \cap redis) \in Nat
  <2>1. IsFiniteSet(Charged(1) \cap redis)
    BY <1>1, FS_Subset
  <2>. QED BY <2>1, FS_CardinalityType
<1>6. Cardinality(Taken) <= Cardinality(Charged(1) \cup redis)
  BY <1>3, <1>4, FS_Subset
<1>7. Cardinality(Taken) \in Nat
  BY TakenFinite
<1>. QED BY <1>1, <1>2, <1>4, <1>5, <1>6, <1>7, CallAssumption

(* A call is admitted: it is tainted, or there was room for it.            *)
LEMMA AdmitHolds ==
    ASSUME ChargeInv, LedgerType', HoldInv, NEW r \in Runs, NEW where \in {"redis", "local"},
           phase[r] = "checked", Hold(r, where), room' = [room EXCEPT ![r] = Unbounded],
           redis' \in {redis, redis \cup {Current(r)}}, local' \in {local, local \cup {Current(r)}},
           tainted' \in {tainted, tainted \cup {Current(r)}},
           Current(r) \in tainted'
              \/ (Current(r) \in redis' /\ Spent + Cardinality(redis) < Amount),
           UNCHANGED <<call, staged, noted, charges, settled, releasing>>
    PROVE  HoldInv'
<1>. DEFINE cur == Current(r)
            t0 == <<cur, where>>
<1>t. LedgerType /\ HoldType /\ SessionHolds(r) /\ HeldWhileNeeded
  BY DEF ChargeInv, HoldInv
<1>c. /\ cur \in Calls /\ t0 \in Tokens /\ cur[1] = r /\ cur[2] = call[r] /\ call[r] \in Nat
      /\ phase'[r] = "admitted"
  <2>1. cur \in Calls
    BY CurrentIs
  <2>. QED BY <1>t, <2>1 DEF LedgerType, Tokens, Hold, Current
<1>p. /\ pending' = [pending EXCEPT ![r] = Append(pending[r], t0)]
      /\ pending[r] \in Seq(Tokens)
      /\ pending'[r] = Append(pending[r], t0)
  <2>1. pending' = [pending EXCEPT ![r] = Append(pending[r], t0)]
    BY DEF Hold
  <2>2. pending \in [Runs -> Seq(Tokens)]
    BY <1>t DEF HoldType
  <2>. HIDE DEF t0
  <2>. QED BY <2>1, <2>2
<1>1. Apart(r)
  BY <1>t DEF Apart, Hold, LedgerType, HoldType
<1>f. ASSUME NEW c \in Calls, c # cur \/ c \in tainted' PROVE Fades(c)
  <2>1. c[1] \in Runs /\ charges[c] \in 0..2 /\ (c[1] = r => (c = cur <=> Newest(c)))
    BY <1>t, CallIs DEF LedgerType
  <2>2. CASE c[1] = r
    BY <1>f, <1>c, <2>1, <2>2 DEF Fades, Owes, Begun, Newest
  <2>3. CASE c[1] # r
    BY <1>1, <2>1, <2>3 DEF Apart, Fades, Owes, Begun, Newest
  <2>. QED BY <2>2, <2>3
<1>b. ASSUME NEW c \in Calls, Begun(c) PROVE Begun(c)' /\ (Counts(c)' => Counts(c))
  <2>1. c # cur
    BY <1>b, <1>c DEF Begun, Newest
  <2>. QED BY <1>b, <1>f, <1>t, <2>1, FadedCounts DEF Fades
<1>2. HoldType'
  <2>1. pending' \in [Runs -> Seq(Tokens)]
    BY <1>t, <1>c, <1>p DEF HoldType
  <2>. QED BY <1>t, <1>c, <2>1 DEF HoldType
<1>3. SessionHolds(r)'
  <2>1. ASSUME NEW i \in 1..Len(pending'[r])
        PROVE  (pending[r][i][1][1] = r /\ Begun(pending[r][i][1]))'
    <3>1. CASE i \in 1..Len(pending[r])
      <4>1. pending'[r][i] = pending[r][i] /\ pending[r][i] \in Tokens
        BY <1>p, <3>1
      <4>2. PICK c \in Calls : c = pending[r][i][1]
        BY <4>1 DEF Tokens
      <4>3. c[1] = r /\ Begun(c)'
        BY <1>b, <1>t, <3>1, <4>2 DEF SessionHolds
      <4>. QED BY <4>1, <4>2, <4>3 DEF Begun, Newest
    <3>2. CASE i = Len(pending[r]) + 1
      <4>1. pending'[r][i] = t0
        BY <1>p, <3>2
      <4>. QED BY <1>c, <4>1 DEF Begun, Newest
    <3>. QED BY <1>p, <3>1, <3>2
  <2>2. ASSUME NEW t \in settled[r]
        PROVE  t[1][1] = r /\ Begun(t[1])' /\ (Counts(t[1])' => t[1] \in staged[r])
    <3>1. t[1] \in Calls
      BY <1>t DEF HoldType, Tokens
    <3>. QED BY <1>b, <1>t, <3>1 DEF SessionHolds
  <2>. QED BY <1>c, <2>1, <2>2 DEF SessionHolds
<1>4. ASSUME NEW q \in Runs, q # r PROVE SessionHolds(q)'
  <2>1. /\ pending'[q] = pending[q] /\ settled'[q] = settled[q] /\ staged'[q] = staged[q]
        /\ phase'[q] = phase[q] /\ SessionHolds(q)
    BY <1>1, <1>4 DEF Apart, HoldInv
  <2>2. ASSUME NEW i \in 1..Len(pending'[q])
        PROVE  (pending[q][i][1][1] = q /\ Begun(pending[q][i][1]))'
    <3>1. pending[q] \in Seq(Tokens) /\ i \in 1..Len(pending[q])
      BY <1>t, <2>1 DEF HoldType
    <3>2. pending[q][i] \in Tokens
      BY <3>1
    <3>3. PICK c \in Calls : c = pending[q][i][1]
      BY <3>2 DEF Tokens
    <3>4. c[1] = q /\ Begun(c)'
      BY <1>b, <2>1, <3>1, <3>3 DEF SessionHolds
    <3>. QED BY <2>1, <3>3, <3>4 DEF Begun, Newest
  <2>3. ASSUME NEW t \in settled[q]
        PROVE  t[1][1] = q /\ Begun(t[1])' /\ (Counts(t[1])' => t[1] \in staged[q])
    <3>1. t[1] \in Calls
      BY <1>t DEF HoldType, Tokens
    <3>. QED BY <1>b, <2>1, <3>1 DEF SessionHolds
  <2>. QED BY <2>1, <2>2, <2>3 DEF SessionHolds
<1>5. HeldWhileNeeded'
  <2>1. ASSUME NEW t \in releasing PROVE Begun(t[1])' /\ ~Counts(t[1])'
    <3>1. t[1] \in Calls
      BY <1>t DEF HoldType, Tokens
    <3>. QED BY <1>b, <1>t, <3>1 DEF HeldWhileNeeded
  <2>2. ASSUME NEW c \in Calls, Counts(c)' PROVE c \in redis'
    <3>1. CASE c # cur \/ c \in tainted'
      BY <1>f, <1>t, <2>2, <3>1, FadedCounts DEF HeldWhileNeeded
    <3>2. CASE c = cur /\ c \notin tainted'
      BY <3>2
    <3>. QED BY <3>1, <3>2
  <2>. QED BY <2>1, <2>2 DEF HeldWhileNeeded
<1>6. (SpentBefore + Cardinality(Taken) <= Amount)'
  <2>1. CASE cur \in tainted'
    <3>1. \A c \in Calls : Fades(c)
      BY <1>f, <2>1
    <3>. QED BY <1>t, <3>1, TakenFades DEF HoldInv
  <2>2. CASE Spent + Cardinality(redis) < Amount
    <3>1. Taken' \subseteq Taken \cup {cur}
      <4>. SUFFICES ASSUME NEW c \in Taken', c # cur PROVE c \in Taken
        OBVIOUS
      <4>1. c \in Calls
        BY DEF Taken
      <4>. QED BY <1>f, <1>t, <4>1, FadedCounts
    <3>. HIDE DEF cur
    <3>2. IsFiniteSet(Taken \cup {cur}) /\ Cardinality(Taken \cup {cur}) <= Cardinality(Taken) + 1
      <4>1. /\ IsFiniteSet(Taken \cup {cur})
            /\ Cardinality(Taken \cup {cur}) = IF cur \in Taken THEN Cardinality(Taken)
                                               ELSE Cardinality(Taken) + 1
        BY TakenFinite, FS_AddElement
      <4>. QED BY <4>1, TakenFinite
    <3>3. IsFiniteSet(Taken') /\ Cardinality(Taken') <= Cardinality(Taken \cup {cur})
      BY <3>1, <3>2, FS_Subset
    <3>4. Cardinality(Taken') \in Nat /\ Cardinality(Taken \cup {cur}) \in Nat
      BY <3>2, <3>3, FS_CardinalityType
    <3>5. /\ SpentBefore + Cardinality(Taken) <= Spent + Cardinality(redis)
          /\ Cardinality(redis) \in Nat /\ Spent \in Nat /\ Cardinality(Taken) \in Nat
      BY <1>t, TakenIsSeen, TakenFinite, SpentType
    <3>. HIDE DEF Taken, Spent
    <3>. QED BY <2>2, <3>2, <3>3, <3>4, <3>5, CallAssumption
  <2>. QED BY <2>1, <2>2
<1>. QED BY <1>2, <1>3, <1>4, <1>5, <1>6 DEF HoldInv

LEMMA AcquireHolds ==
    ASSUME ChargeInv, LedgerType', HoldInv, NEW r \in Runs, Acquire(r) \/ AcquireLocally(r)
    PROVE  HoldInv'
<1>t. LedgerType /\ HoldType /\ HeldWhileNeeded
  BY DEF ChargeInv, HoldInv
<1>1. CASE Acquire(r) /\ Full(room[r], Cardinality(redis))
  BY <1>1, FullHolds DEF Acquire, ledgerVars
<1>2. CASE Acquire(r) /\ ~Full(room[r], Cardinality(redis))
  <2>1. /\ Hold(r, "redis") /\ redis' = redis \cup {Current(r)}
        /\ tainted' = IF Misread(r) /\ NoRoomLeft(r)
                        THEN tainted \cup {Current(r)} ELSE tainted
    BY <1>2 DEF Acquire
  <2>s. /\ SpendSeenBy(r) \in Nat /\ SpendSeenBy(r) >= Spent /\ Spent \in Nat
        /\ Cardinality(redis) \in Nat
    BY <1>t, SpentType, TakenIsSeen
  <2>2. CASE ~(Misread(r) /\ NoRoomLeft(r))
    <3>1. ~(SpendSeenBy(r) + Cardinality(redis) >= Amount)
      <4>1. CASE ~NoRoomLeft(r)
        BY <4>1 DEF NoRoomLeft
      <4>2. CASE ~Misread(r)
        <5>1. room[r] = Amount - SpendSeenBy(r) /\ ~(Cardinality(redis) >= room[r])
          BY <1>2, <4>2 DEF Misread, Full
        <5>. HIDE DEF SpendSeenBy
        <5>. QED BY <2>s, <5>1, CallAssumption
      <4>. QED BY <2>2, <4>1, <4>2
    <3>2. Spent + Cardinality(redis) < Amount
      <4>. HIDE DEF Spent, SpendSeenBy
      <4>. QED BY <2>s, <3>1, CallAssumption
    <3>. QED BY <1>2, <2>1, <2>2, <3>2, AdmitHolds DEF Acquire, ledgerVars
  <2>3. CASE Misread(r) /\ NoRoomLeft(r)
    <3>1. tainted' = tainted \cup {Current(r)}
      BY <2>1, <2>3
    <3>2. Current(r) \in tainted'
      BY <3>1
    <3>. QED BY <1>2, <2>1, <3>1, <3>2, AdmitHolds DEF Acquire, ledgerVars
  <2>. QED BY <2>2, <2>3
<1>3. CASE AcquireLocally(r) /\ Full(room[r], Cardinality(HeldHere(r)))
  BY <1>3, FullHolds DEF AcquireLocally, ledgerVars
<1>4. CASE AcquireLocally(r) /\ ~Full(room[r], Cardinality(HeldHere(r)))
  BY <1>4, AdmitHolds DEF AcquireLocally, ledgerVars
<1>. QED BY <1>1, <1>2, <1>3, <1>4

(* A hold goes, released or expired: nothing that counts needs it.         *)
LEMMA DropHold ==
    ASSUME LedgerType, LedgerType', HoldInv, NEW d \in Calls, ~Counts(d)',
           redis \ {d} \subseteq redis', HoldType', tainted \subseteq tainted',
           releasing' \subseteq releasing,
           UNCHANGED <<phase, call, staged, noted, charges, pending, settled>>
    PROVE  HoldInv'
<1>1. ASSUME NEW c \in Calls PROVE Fades(c)
  <2>1. charges[c] \in 0..2
    BY DEF LedgerType
  <2>. QED BY <2>1 DEF Fades, Owes, Begun, Newest
<1>2. \A q \in Runs : SessionHolds(q)'
  BY <1>1, SessionKept DEF HoldInv
<1>3. HeldWhileNeeded'
  <2>1. ASSUME NEW t \in releasing' PROVE Begun(t[1])' /\ ~Counts(t[1])'
    <3>1. t[1] \in Calls
      BY DEF HoldInv, HoldType, Tokens
    <3>. QED BY <1>1, <3>1, FadedCounts DEF HoldInv, HeldWhileNeeded, Fades
  <2>2. ASSUME NEW c \in Calls, Counts(c)' PROVE c \in redis'
    BY <1>1, <2>2, FadedCounts DEF HoldInv, HeldWhileNeeded
  <2>. QED BY <2>1, <2>2 DEF HeldWhileNeeded
<1>4. (SpentBefore + Cardinality(Taken) <= Amount)'
  BY <1>1, TakenFades DEF HoldInv
<1>. QED BY <1>2, <1>3, <1>4 DEF HoldInv

LEMMA ReleaseHolds ==
    ASSUME ChargeInv, LedgerType', HoldInv, NEW t \in Tokens, Release(t)
    PROVE  HoldInv'
<1>t. LedgerType /\ HoldType /\ HeldWhileNeeded
  BY DEF ChargeInv, HoldInv
<1>1. /\ t[1] \in Calls /\ t \in releasing
      /\ UNCHANGED <<phase, call, staged, noted, charges, pending, settled, tainted, room>>
      /\ redis \ {t[1]} \subseteq redis' /\ redis' \subseteq redis /\ local' \subseteq local
      /\ releasing' \subseteq releasing
  BY DEF Release, Tokens, ledgerVars, historyVars
<1>2. ~Counts(t[1])'
  BY <1>1, <1>t DEF HeldWhileNeeded, Counts, Owes, Newest
<1>3. HoldType'
  BY <1>1, <1>t DEF HoldType
<1>. QED BY <1>t, <1>1, <1>2, <1>3, DropHold

LEMMA ExpireHolds ==
    ASSUME ChargeInv, LedgerType', HoldInv, NEW c \in Calls, NEW where \in {"redis", "local"},
           Expire(c, where)
    PROVE  HoldInv'
<1>t. LedgerType /\ HoldType
  BY DEF ChargeInv, HoldInv
<1>1. /\ UNCHANGED <<phase, call, staged, noted, charges, pending, settled, room, releasing>>
      /\ redis \ {c} \subseteq redis' /\ redis' \subseteq redis /\ local' \subseteq local
      /\ tainted' \in {tainted, tainted \cup {c}} /\ (c \in tainted' \/ c \notin Owed)
  BY DEF Expire, ledgerVars
<1>2. ~Counts(c)'
  <2>1. c \notin Owed => ~Owes(c)
    BY OwedIs
  <2>. QED BY <1>1, <2>1 DEF Counts, Owes, Newest
<1>3. HoldType'
  BY <1>1, <1>t DEF HoldType
<1>. QED BY <1>t, <1>1, <1>2, <1>3, DropHold

(* A lost process takes its sessions with it. *)
LEMMA CrashHolds ==
    ASSUME ChargeInv, LedgerType', HoldInv, NEW w \in Processes, Crash(w)
    PROVE  HoldInv'
<1>. DEFINE lost == {r \in Runs : Home[r] = w /\ Busy(r)}
<1>t. LedgerType /\ HoldType
  BY DEF ChargeInv, HoldInv
<1>1. /\ phase' = [r \in Runs |-> IF r \in lost THEN "gone" ELSE phase[r]]
      /\ staged' = [r \in Runs |-> IF r \in lost THEN {} ELSE staged[r]]
      /\ pending' = [r \in Runs |-> IF Home[r] = w THEN << >> ELSE pending[r]]
      /\ settled' = [r \in Runs |-> IF Home[r] = w THEN {} ELSE settled[r]]
      /\ local' \subseteq local /\ releasing' \subseteq releasing
      /\ UNCHANGED <<call, room, noted, charges, redis, tainted>>
      /\ \A r \in Runs : r \in lost => Home[r] = w
  BY DEF Crash
<1>l. \A r \in Runs : Home[r] = w /\ r \notin lost => phase[r] \in {"over", "gone"}
  BY DEF Busy
<1>. HIDE DEF lost
<1>2. HoldType'
  <2>1. /\ pending' \in [Runs -> Seq(Tokens)] /\ settled' \in [Runs -> SUBSET Tokens]
    BY <1>t, <1>1 DEF HoldType
  <2>. QED BY <1>t, <1>1, <2>1 DEF HoldType
<1>3. ASSUME NEW c \in Calls PROVE Fades(c)
  <2>1. c[1] \in Runs /\ charges[c] \in 0..2
    BY <1>t, CallIs DEF LedgerType
  <2>. QED BY <1>t, <1>1, <2>1, MoveFades DEF Owes, InHand
<1>4. ASSUME NEW q \in Runs PROVE SessionHolds(q)'
  <2>1. CASE Home[q] = w
    <3>1. pending'[q] = << >> /\ settled'[q] = {} /\ phase'[q] \in {"gone", "over"}
      BY <1>1, <1>l, <2>1
    <3>2. Len(pending'[q]) = 0
      BY <3>1
    <3>. QED BY <3>1, <3>2 DEF SessionHolds
  <2>2. CASE Home[q] # w
    <3>1. /\ pending'[q] = pending[q] /\ settled'[q] = settled[q] /\ staged'[q] = staged[q]
          /\ phase'[q] = phase[q]
      BY <1>1, <2>2
    <3>. QED BY <1>t, <1>3, <3>1, SessionKept DEF HoldInv
  <2>. QED BY <2>1, <2>2
<1>5. HeldWhileNeeded'
  BY <1>t, <1>1, <1>2, <1>3, NeedsFade DEF HoldInv
<1>6. (SpentBefore + Cardinality(Taken) <= Amount)'
  BY <1>t, <1>3, TakenFades DEF HoldInv
<1>. QED BY <1>2, <1>4, <1>5, <1>6 DEF HoldInv

LEMMA InitHolds == CallInit => HoldInv
<1>. SUFFICES ASSUME CallInit PROVE HoldInv
  OBVIOUS
<1>1. /\ phase = [r \in Runs |-> "idle"] /\ call = [r \in Runs |-> 0]
      /\ room = [r \in Runs |-> Unbounded]
      /\ staged = [r \in Runs |-> {}] /\ charges = [c \in Calls |-> 0]
      /\ pending = [r \in Runs |-> << >>] /\ settled = [r \in Runs |-> {}]
      /\ noted = {} /\ redis = {} /\ local = {} /\ releasing = {} /\ tainted = {}
  BY DEF CallInit
<1>2. HoldType
  BY <1>1 DEF HoldType
<1>3. ASSUME NEW c \in Calls PROVE ~Owes(c) /\ charges[c] = 0
  <2>1. c[1] \in Runs
    BY DEF Calls
  <2>. QED BY <1>1, <2>1 DEF Owes, InHand
<1>4. ASSUME NEW r \in Runs PROVE SessionHolds(r)
  <2>1. settled[r] = {} /\ Len(pending[r]) = 0 /\ phase[r] = "idle"
    BY <1>1
  <2>. QED BY <2>1 DEF SessionHolds
<1>5. HeldWhileNeeded
  BY <1>1, <1>3 DEF HeldWhileNeeded, Counts
<1>6. Taken = {}
  BY <1>3 DEF Taken
<1>7. SpentBefore + Cardinality(Taken) <= Amount
  BY <1>6, FS_EmptySet, CallAssumption
<1>. QED BY <1>2, <1>4, <1>5, <1>7 DEF HoldInv

LEMMA HoldStep == ChargeInv /\ HoldInv /\ [CallNext]_callVars => HoldInv'
<1>. SUFFICES ASSUME ChargeInv, HoldInv, [CallNext]_callVars PROVE HoldInv'
  OBVIOUS
<1>t. LedgerType' /\ LedgerType
  BY ChargeStep DEF ChargeInv
<1>u. CASE UNCHANGED <<phase, call, room, staged, noted, charges, holdVars, tainted>>
  BY <1>u DEF holdVars, HoldInv, HoldType, SessionHolds, HeldWhileNeeded, Taken, Counts, Owes, Begun,
              Newest
<1>1. ASSUME NEW r \in Runs, OpenStep(r) PROVE HoldInv'
  BY <1>1, <1>t, CommitHolds DEF OpenStep, historyVars, Phases
<1>2. ASSUME NEW r \in Runs, ImageTimesOut(r) \/ RecordChat(r) \/ RecordImages(r) PROVE HoldInv'
  <2>1. CASE RecordImages(r) /\ Current(r) \notin noted
    BY <1>t, <2>1, LateImages
  <2>2. CASE ~(RecordImages(r) /\ Current(r) \notin noted)
    <3>1. /\ RecordCost(r, Current(r)) /\ phase[r] \in {"asked", "answered"}
          /\ UNCHANGED <<call, room, noted, charges, redis, local, releasing, tainted>>
          /\ \E p \in {"idle", "closing"} : phase' = [phase EXCEPT ![r] = p]
      BY <1>2, <2>2 DEF ImageTimesOut, RecordChat, RecordImages, CallFails, historyVars
    <3>. QED BY <1>t, <3>1, RecordHolds
  <2>. QED BY <2>1, <2>2
<1>3. ASSUME NEW r \in Runs, SettleStream(r) PROVE HoldInv'
  BY <1>3, <1>t, CommitHolds DEF SettleStream, historyVars, Phases
<1>4. ASSUME NEW r \in Runs, NEW saw \in BOOLEAN, EndRun(r, saw) PROVE HoldInv'
  <2>. DEFINE holds == IF saw THEN settled[r] \cup ToSet(pending[r]) ELSE settled[r]
  <2>1. holds \subseteq HeldBy(r)
    <3>1. pending[r] \in Seq(Tokens)
      BY DEF HoldInv, HoldType
    <3>. QED BY <3>1 DEF HeldBy, ToSet
  <2>2. /\ phase[r] \in {"idle", "closing"} /\ phase' = [phase EXCEPT ![r] = "over"]
        /\ Commit(r, staged[r], holds) /\ noted' = noted \ {Current(r)}
        /\ pending' = pending \/ pending' = [pending EXCEPT ![r] = << >>]
        /\ UNCHANGED <<call, room, redis, local, tainted>>
    BY <1>4 DEF EndRun, historyVars
  <2>. HIDE DEF holds
  <2>3. "over" \in Phases
    BY DEF Phases
  <2>. QED BY <1>t, <2>1, <2>2, <2>3, CommitHolds
<1>5. ASSUME NEW r \in Runs, Step(r) PROVE HoldInv'
  BY <1>1, <1>2, <1>3, <1>4, <1>5, <1>t, CheckHolds, AcquireHolds, CallGoesOn, RefusalHolds DEF Step
<1>6. ASSUME NEW r \in Runs, CallerRollsBack(r) \/ LoseCost(r) \/ Cancel(r) PROVE HoldInv'
  <2>1. /\ Rollback(r) /\ UNCHANGED <<call, room, noted, charges, pending, redis, local>>
        /\ \E p \in {"idle", "gone"} : phase' = [phase EXCEPT ![r] = p]
    <3>1. CASE CallerRollsBack(r)
      <4>1. phase = [phase EXCEPT ![r] = "idle"]
        BY <1>t, <3>1 DEF CallerRollsBack, LedgerType
      <4>. QED BY <3>1, <4>1 DEF CallerRollsBack
    <3>2. CASE LoseCost(r) \/ Cancel(r)
      BY <3>2 DEF LoseCost, Cancel
    <3>. QED BY <1>6, <3>1, <3>2
  <2>. QED BY <1>t, <2>1, RollbackHolds
<1>7. ASSUME NEW r \in Runs, Reap(r) \/ ReapAlive(r) PROVE HoldInv'
  BY <1>7, <1>t, ReaperHolds DEF Reap, ReapAlive
<1>8. ASSUME RedisChanges \/ UNCHANGED callVars PROVE HoldInv'
  BY <1>8, <1>u DEF RedisChanges, callVars, ledgerVars, historyVars
<1>. QED BY <1>5, <1>6, <1>7, <1>8, <1>t, LostImagesHold, CrashHolds, ReleaseHolds, ExpireHolds
         DEF CallNext

(* The limit of the budget is overshot by no more than the calls it could  *)
(* not see and what reaped jobs charge again, whatever calls, processes    *)
(* and Redis do meanwhile.                                                 *)
THEOREM WithinLimitHolds == CallSpec => []WithinLimit
<1>1. ChargeInv /\ HoldInv => WithinLimit
  <2>. SUFFICES ASSUME ChargeInv, HoldInv PROVE WithinLimit
    OBVIOUS
  <2>t. LedgerType /\ HoldType
    BY DEF ChargeInv, HoldInv
  <2>1. /\ IsFiniteSet(tainted) /\ Cardinality(tainted) \in Nat
        /\ IsFiniteSet(late) /\ Cardinality(late) \in Nat
    <3>1. late \subseteq Runs
      BY <2>t DEF LedgerType
    <3>. QED BY <2>t, <3>1, CallsFinite, RunsAssumption, FS_Subset, FS_CardinalityType DEF HoldType
  <2>2. Cardinality(Charged(1)) <= Cardinality(Taken) + Cardinality(tainted)
    <3>1. Charged(1) \subseteq Taken \cup tainted
      BY DEF Charged, Taken
    <3>. HIDE DEF Charged, Taken
    <3>2. /\ IsFiniteSet(Taken \cup tainted)
          /\ Cardinality(Taken \cup tainted)
                = Cardinality(Taken) + Cardinality(tainted) - Cardinality(Taken \cap tainted)
      BY <2>1, TakenFinite, FS_Union
    <3>3. Cardinality(Taken \cap tainted) \in Nat
      <4>1. IsFiniteSet(Taken \cap tainted)
        BY <2>1, FS_Subset
      <4>. QED BY <4>1, FS_CardinalityType
    <3>4. Cardinality(Charged(1)) <= Cardinality(Taken \cup tainted)
      BY <3>1, <3>2, FS_Subset
    <3>5. Cardinality(Charged(1)) \in Nat
      BY <2>t, SpentType
    <3>. QED BY <2>1, <3>2, <3>3, <3>4, <3>5, TakenFinite
  <2>3. Cardinality(Charged(2)) <= Cardinality(late)
    <3>1. ASSUME NEW c \in Charged(2) PROVE c \in late \X {1}
      <4>1. c \in Calls /\ charges[c] >= 2
        BY <3>1 DEF Charged
      <4>2. /\ PaidOnce(c) /\ charges[c] \in 0..2 /\ c = <<c[1], c[2]>>
            /\ c[1] \in Runs /\ c[2] \in 1..MaxCalls
        BY <2>t, <4>1, CallIs DEF ChargeInv, LedgerType
      <4>3. c[1] \in late /\ ~(c[2] > call[c[1]])
        BY <4>1, <4>2 DEF PaidOnce
      <4>4. call[c[1]] <= 1 /\ call[c[1]] \in Nat
        BY <2>t, <4>2, <4>3 DEF ChargeInv, RunCalls, LedgerType
      <4>5. c[2] = 1
        BY <4>2, <4>3, <4>4, CallAssumption
      <4>. QED BY <4>2, <4>3, <4>5
    <3>2. IsFiniteSet({1}) /\ Cardinality({1}) = 1
      BY FS_Singleton
    <3>3. IsFiniteSet(late \X {1}) /\ Cardinality(late \X {1}) = Cardinality(late) * 1
      BY <2>1, <3>2, FS_Product
    <3>4. Charged(2) \subseteq late \X {1}
      BY <3>1
    <3>. QED BY <2>1, <3>3, <3>4, FS_Subset
  <2>4. SpentBefore + Cardinality(Taken) <= Amount
    BY DEF HoldInv
  <2>5. /\ Cardinality(Charged(1)) \in Nat /\ Cardinality(Charged(2)) \in Nat
        /\ Cardinality(Taken) \in Nat
    BY <2>t, SpentType, TakenFinite
  <2>. HIDE DEF Taken, Charged
  <2>. QED BY <2>1, <2>2, <2>3, <2>4, <2>5, CallAssumption DEF WithinLimit, Spent
<1>. QED BY <1>1, InitCharges, InitHolds, ChargeStep, HoldStep, PTL DEF CallSpec

(* What the two invariants leave out of the types. *)
SettingType == kind \in Mixes /\ redisUp \in BOOLEAN /\ forgiven \subseteq Calls /\ trouble \in 0..MaxTrouble

LEMMA TroubleCounts == trouble \in 0..MaxTrouble /\ Trouble => trouble' \in 0..MaxTrouble
BY CallAssumption DEF Trouble

LEMMA SettingStep ==
    ASSUME LedgerType, \A r \in Runs : RunCalls(r), SettingType, [CallNext]_callVars
    PROVE  SettingType'
<1>. USE DEF SettingType
<1>s. ASSUME NEW r \in Runs, Step(r)
      PROVE  /\ UNCHANGED <<kind, redisUp>> /\ (trouble' = trouble \/ Trouble)
             /\ forgiven' = forgiven \/ AskForImages(r)
  BY <1>s DEF Step, CheckRefused, Check, Acquire, AcquireLocally, OpenStep, RefuseUnpriced,
         FailBeforeAsking, Ask, AskForImages, ProviderAnswers, ProviderFails, ImageTimesOut,
         RecordChat, RecordImages, SettleStream, EndRun, holdVars, historyVars
<1>1. kind' = kind
  BY <1>s DEF CallNext, CallerRollsBack, LoseCost, LoseImageCost, Cancel, Crash, RedisChanges,
         Release, Expire, FailLost, Reap, ReapAlive, callVars
<1>2. redisUp' \in BOOLEAN
  <2>1. redisUp' = redisUp \/ RedisChanges
    BY <1>s DEF CallNext, CallerRollsBack, LoseCost, LoseImageCost, Cancel, Crash, Release, Expire,
           FailLost, Reap, ReapAlive, callVars, holdVars
  <2>. QED BY <2>1 DEF RedisChanges
<1>3. trouble' = trouble \/ Trouble
  BY <1>s DEF CallNext, CallerRollsBack, LoseCost, LoseImageCost, Cancel, Crash, RedisChanges,
         Release, Expire, Reap, ReapAlive, callVars
<1>4. forgiven' \subseteq Calls
  <2>1. ASSUME NEW r \in Runs PROVE Forfeits(r) \subseteq Calls
    <3>1. phase[r] \in {"asked", "answered", "flowing"} => Current(r) \in Calls
      BY DEF LedgerType, RunCalls, Current, Calls
    <3>2. staged[r] \subseteq Calls
      BY DEF LedgerType
    <3>. QED BY <3>1, <3>2 DEF Forfeits
  <2>2. \/ forgiven' = forgiven
        \/ \E r \in Runs : Rollback(r)
        \/ \E w \in Processes : Crash(w)
        \/ \E r \in Runs : AskForImages(r) \/ LoseImageCost(r)
    BY <1>s DEF CallNext, CallerRollsBack, LoseCost, Cancel, RedisChanges, Release, Expire, FailLost,
           Reap, ReapAlive, callVars, historyVars
  <2>3. ASSUME NEW w \in Processes, Crash(w) PROVE forgiven' \subseteq Calls
    <3>. DEFINE lost == {r \in Runs : Home[r] = w /\ Busy(r)}
    <3>1. forgiven' = forgiven \cup UNION {Forfeits(r) : r \in lost}
      BY <2>3 DEF Crash
    <3>2. \A r \in lost : Forfeits(r) \subseteq Calls
      BY <2>1
    <3>. QED BY <3>1, <3>2
  <2>4. ASSUME NEW r \in Runs, AskForImages(r) \/ LoseImageCost(r) PROVE forgiven' \subseteq Calls
    <3>1. Current(r) \in Calls
      BY <2>4 DEF AskForImages, LoseImageCost, LedgerType, RunCalls, Current, Calls
    <3>. QED BY <2>4, <3>1 DEF AskForImages, LoseImageCost
  <2>. QED BY <2>1, <2>2, <2>3, <2>4 DEF Rollback
<1>. QED BY <1>1, <1>2, <1>3, <1>4, TroubleCounts

(* Every variable keeps its type: a capacity is what is left of the amount *)
(* or none, a session holds tokens of calls, a call has two cost rows at   *)
(* most.                                                                   *)
THEOREM CallTypeCorrect == CallSpec => []CallTypeOK
<1>1. CallInit => SettingType
  BY CallAssumption DEF CallInit, SettingType
<1>2. ChargeInv /\ SettingType /\ [CallNext]_callVars => SettingType'
  BY SettingStep DEF ChargeInv
<1>3. ChargeInv /\ HoldInv /\ SettingType => CallTypeOK
  BY DEF ChargeInv, LedgerType, HoldInv, HoldType, SettingType, CallTypeOK
<1>. QED BY <1>1, <1>2, <1>3, InitCharges, InitHolds, ChargeStep, HoldStep, PTL DEF CallSpec

=============================================================================
