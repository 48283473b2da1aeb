------------------------ MODULE InteractionWork_proofs ------------------------
(***************************************************************************)
(* Proofs about an interaction, its workers and the client that follows    *)
(* it.                                                                     *)
(***************************************************************************)
EXTENDS ResponseStream, TLAPS

(***************************************************************************)
(* What a step of an execution leaves alone, and what it does to the row.  *)
(***************************************************************************)

(* An execution moves only itself. *)
LEMMA ExecuteFrame ==
    ASSUME NEW a \in Attempts, Execute(a)
    PROVE  /\ Active(a) /\ UNCHANGED <<setting, attempt, wk, lost, up, cut, api>>
           /\ \/ hb' = hb
              \/ pc' = [pc EXCEPT ![a] = "over"] /\ hb' = [hb EXCEPT ![wk[a]] = 0]
<1>. USE DEF Active, Leave, Goto, Untrack, SetStatus, setting, row, outcome, local, fleet
<1>1. CASE AssertLease(a) \/ LeaseLost(a)
  BY <1>1 DEF AssertLease, LeaseLost, Guarded
<1>2. CASE BindDirect(a) \/ StreamText(a) \/ StreamStops(a) \/ StreamFails(a)
  BY <1>2 DEF BindDirect, StreamText, StreamStops, StreamFails
<1>3. CASE CompleteResponse(a) \/ StreamExcept(a) \/ FinishDirect(a)
  BY <1>3 DEF CompleteResponse, StreamExcept, FinishDirect
<1>4. CASE LinkAgent(a) \/ LinkFails(a) \/ BindAgent(a) \/ AgentLoop(a)
  BY <1>4 DEF LinkAgent, LinkFails, BindAgent, AgentLoop
<1>5. CASE AgentAnswer(a) \/ AgentClose(a) \/ AgentFail(a) \/ AgentStopped(a)
  BY <1>5 DEF AgentAnswer, AgentClose, AgentFail, AgentStopped
<1>6. CASE Rescue(a) \/ OrphanRead(a) \/ OrphanClear(a)
  BY <1>6 DEF Rescue, OrphanRead, OrphanClear
<1>. QED BY <1>1, <1>2, <1>3, <1>4, <1>5, <1>6 DEF Execute

(* It binds its response and marks the row running, or ends the row, or    *)
(* leaves it alone.                                                        *)
Binds(a) ==
    /\ pc[a] = "bind" /\ bound' = a /\ status' = "running"
    /\ UNCHANGED <<owner, lapsed, attempt>>

EndsRow ==
    /\ status' \in Ended /\ owner' = NoWorker /\ lapsed' = FALSE
    /\ UNCHANGED <<attempt, bound>>

LEMMA ExecuteRow ==
    ASSUME NEW a \in Attempts, Execute(a)
    PROVE  \/ Binds(a)
           \/ EndsRow /\ pc' = [pc EXCEPT ![a] = "over"]
           \/ UNCHANGED row
<1>. USE DEF Leave, Goto, SetStatus, Ended, row, EndsRow, Binds
<1>1. CASE AssertLease(a) \/ LeaseLost(a)
  BY <1>1 DEF AssertLease, LeaseLost, Guarded
<1>2. CASE BindDirect(a) \/ StreamText(a) \/ StreamStops(a) \/ StreamFails(a)
  BY <1>2 DEF BindDirect, StreamText, StreamStops, StreamFails
<1>3. CASE CompleteResponse(a) \/ StreamExcept(a) \/ FinishDirect(a)
  BY <1>3 DEF CompleteResponse, StreamExcept, FinishDirect
<1>4. CASE LinkAgent(a) \/ LinkFails(a) \/ BindAgent(a) \/ AgentLoop(a)
  BY <1>4 DEF LinkAgent, LinkFails, BindAgent, AgentLoop
<1>5. CASE AgentAnswer(a) \/ AgentClose(a) \/ AgentFail(a) \/ AgentStopped(a)
  BY <1>5 DEF AgentAnswer, AgentClose, AgentFail, AgentStopped
<1>6. CASE Rescue(a) \/ OrphanRead(a) \/ OrphanClear(a)
  BY <1>6 DEF Rescue, OrphanRead, OrphanClear, Verdict
<1>. QED BY <1>1, <1>2, <1>3, <1>4, <1>5, <1>6 DEF Execute

(***************************************************************************)
(* Type correctness.                                                       *)
(***************************************************************************)

(* Who clears up knows the response it clears. *)
TargetsKnown == \A a \in Attempts : pc[a] \in {"orphan", "clear"} => target[a] \in Attempts

TypeInv == TypeOK /\ TargetsKnown

(* What is appended to the events of a response. *)
LEMMA EventsType ==
    ASSUME NEW s \in Seq(EventKind)
    PROVE  /\ \A e \in EventKind : Append(s, e) \in Seq(EventKind) /\ s \o <<e>> \in Seq(EventKind)
           /\ \A e, f \in EventKind : s \o <<e, f>> \in Seq(EventKind)
           /\ \A e, f, g \in EventKind : s \o <<e, f, g>> \in Seq(EventKind)
           /\ \A c \in {<<>>, <<"closed">>} : s \o c \in Seq(EventKind)
<1>1. "closed" \in EventKind
  BY DEF EventKind
<1>. HIDE DEF EventKind
<1>. QED BY <1>1

(* The events of one response, when a step appends to them. *)
LEMMA LogType ==
    ASSUME TypeOK, NEW r, NEW s \in Seq(EventKind), log' = [log EXCEPT ![r] = s]
    PROVE  log' \in [Attempts -> Seq(EventKind)]
BY DEF TypeOK

LEMMA InitType == Init => TypeInv
<1>1. /\ (CHOOSE w \in Workers : TRUE) \in Workers
      /\ 0 \in 0..MaxAttempts /\ "none" \in RespStatus /\ "none" \in PC
      /\ <<>> \in Seq(EventKind)
  BY InteractionAssumption DEF RespStatus, PC
<1>. HIDE DEF RespStatus, PC, EventKind
<1>2. ASSUME Init PROVE TypeOK
  <2>1. /\ mode \in {"direct", "agent"} /\ steady \in BOOLEAN /\ cancelable \in BOOLEAN
        /\ status \in {"queued", "running"} \cup Ended
        /\ owner \in Workers \cup {NoWorker} /\ lapsed \in BOOLEAN
        /\ attempt \in 0..MaxAttempts /\ bound \in 0..MaxAttempts
    BY <1>1, <1>2 DEF Init
  <2>2. /\ resp \in [Attempts -> RespStatus] /\ run \in [Attempts -> RespStatus]
        /\ log \in [Attempts -> Seq(EventKind)]
    BY <1>1, <1>2 DEF Init
  <2>3. /\ pc \in [Attempts -> PC] /\ wk \in [Attempts -> Workers]
        /\ target \in [Attempts -> 0..MaxAttempts]
    BY <1>1, <1>2 DEF Init
  <2>4. /\ ok \in [Attempts -> BOOLEAN] /\ seen \in [Attempts -> RespStatus]
        /\ hasEnd \in [Attempts -> BOOLEAN] /\ rescued \in [Attempts -> BOOLEAN]
    BY <1>1, <1>2 DEF Init
  <2>5. /\ hb \in [Workers -> 0..MaxAttempts] /\ lost \subseteq Attempts
        /\ up \subseteq Workers /\ cut \subseteq Workers
        /\ api \in 0..MaxAttempts
    BY <1>1, <1>2 DEF Init
  <2>. QED BY <2>1, <2>2, <2>3, <2>4, <2>5 DEF TypeOK
<1>. QED BY <1>2 DEF Init, TypeInv, TargetsKnown

(* Where an execution goes, and that it clears up only what is bound. *)
LEMMA ExecutePlace ==
    ASSUME TypeInv, NEW a \in Attempts, Execute(a)
    PROVE  /\ \E p \in PC \ {"none", "link"} : pc' = [pc EXCEPT ![a] = p]
           /\ target' \in [Attempts -> 0..MaxAttempts]
           /\ pc'[a] \in {"orphan", "clear"} => target'[a] \in Attempts
           /\ \A b \in Attempts : b # a => pc'[b] = pc[b] /\ target'[b] = target[b]
<1>. USE DEF TypeInv, Leave, Goto, PC, local
<1>p. pc = [pc EXCEPT ![a] = pc[a]] /\ pc[a] \in PC
  BY DEF TypeOK
<1>r. /\ \A p \in PC : pc' = [pc EXCEPT ![a] = p] =>
            pc'[a] = p /\ \A b \in Attempts : b # a => pc'[b] = pc[b]
      /\ target \in [Attempts -> 0..MaxAttempts]
  BY DEF TypeOK
<1>. DEFINE Stays == /\ \E p \in PC \ {"none", "link", "orphan", "clear"} : pc' = [pc EXCEPT ![a] = p]
                     /\ target' = target
<1>g. Stays => /\ \E p \in PC \ {"none", "link"} : pc' = [pc EXCEPT ![a] = p]
               /\ target' \in [Attempts -> 0..MaxAttempts]
               /\ pc'[a] \in {"orphan", "clear"} => target'[a] \in Attempts
               /\ \A b \in Attempts : b # a => pc'[b] = pc[b] /\ target'[b] = target[b]
  BY <1>r
<1>1. CASE AssertLease(a) \/ LeaseLost(a)
  <2>1. Stays
    BY <1>1, <1>p DEF AssertLease, LeaseLost, Guarded
  <2>. QED BY <1>g, <2>1
<1>2. CASE BindDirect(a) \/ StreamText(a) \/ StreamStops(a) \/ StreamFails(a)
  <2>1. Stays
    BY <1>2, <1>p DEF BindDirect, StreamText, StreamStops, StreamFails
  <2>. QED BY <1>g, <2>1
<1>3. CASE CompleteResponse(a) \/ StreamExcept(a) \/ FinishDirect(a)
  <2>1. Stays
    BY <1>3, <1>p DEF CompleteResponse, StreamExcept, FinishDirect
  <2>. QED BY <1>g, <2>1
<1>4. CASE LinkAgent(a) \/ LinkFails(a) \/ BindAgent(a) \/ AgentLoop(a)
  <2>1. Stays
    BY <1>4, <1>p DEF LinkAgent, LinkFails, BindAgent, AgentLoop
  <2>. QED BY <1>g, <2>1
<1>5. CASE AgentAnswer(a) \/ AgentClose(a) \/ AgentFail(a) \/ AgentStopped(a)
  <2>1. Stays
    BY <1>5, <1>p DEF AgentAnswer, AgentClose, AgentFail, AgentStopped
  <2>. QED BY <1>g, <2>1
<1>6. CASE Rescue(a)
  <2>1. CASE pc' = [pc EXCEPT ![a] = "over"] /\ target' = target
    BY <1>g, <2>1
  <2>2. CASE pc' = [pc EXCEPT ![a] = "orphan"] /\ target' = [target EXCEPT ![a] = bound] /\ bound # 0
    <3>1. bound \in Attempts
      BY <2>2, InteractionAssumption DEF TypeOK, Attempts
    <3>. QED BY <1>r, <2>2, <3>1 DEF TypeOK
  <2>. QED BY <1>6, <2>1, <2>2 DEF Rescue
<1>7. CASE OrphanRead(a)
  BY <1>7, <1>r DEF OrphanRead, TargetsKnown
<1>8. CASE OrphanClear(a)
  <2>1. Stays
    BY <1>8, <1>p DEF OrphanClear
  <2>. QED BY <1>g, <2>1
<1>. QED BY <1>1, <1>2, <1>3, <1>4, <1>5, <1>6, <1>7, <1>8 DEF Execute

(* The response, the run and the events stay of their types. *)
OutcomeType ==
    /\ resp \in [Attempts -> RespStatus] /\ run \in [Attempts -> RespStatus]
    /\ log \in [Attempts -> Seq(EventKind)]

LEMMA ExecuteOutcome ==
    ASSUME TypeInv, NEW a \in Attempts, Execute(a)
    PROVE  OutcomeType'
<1>. USE DEF TypeInv, Leave, Goto, outcome
<1>c. {"succeeded", "failed", "canceled", "running", "none"} \subseteq RespStatus
  BY DEF RespStatus, Ended
<1>e. {"started", "text", "closed", "finished", "error", "stopped"} \subseteq EventKind
  BY DEF EventKind, Terminal
<1>t. /\ OutcomeType /\ log[a] \in Seq(EventKind)
      /\ target[a] \in Attempts => log[target[a]] \in Seq(EventKind)
  BY DEF TypeOK, OutcomeType
<1>s. \A r : \A s \in Seq(EventKind) : log' = [log EXCEPT ![r] = s]
            => log' \in [Attempts -> Seq(EventKind)]
  BY DEF TypeOK
<1>q. \A e \in EventKind : <<e>> \in Seq(EventKind)
  OBVIOUS
<1>l. /\ \A r \in Attempts, e \in EventKind :
            /\ Append(log[r], e) \in Seq(EventKind)
            /\ log[r] \o <<e>> \in Seq(EventKind)
      /\ \A r \in Attempts, e, f \in EventKind : log[r] \o <<e, f>> \in Seq(EventKind)
      /\ \A r \in Attempts, e, f, g \in EventKind : log[r] \o <<e, f, g>> \in Seq(EventKind)
      /\ \A r, q \in Attempts : log[r] \o Closing(q) \in Seq(EventKind)
      /\ \A r, q \in Attempts, e \in EventKind : log[r] \o Closing(q) \o <<e>> \in Seq(EventKind)
  <2>1. \A r \in Attempts : log[r] \in Seq(EventKind)
    BY DEF TypeOK
  <2>2. \A q \in Attempts : Closing(q) \in {<<>>, <<"closed">>}
    BY DEF Closing
  <2>. HIDE DEF EventKind
  <2>3. \A r, q \in Attempts : log[r] \o Closing(q) \in Seq(EventKind)
    BY <2>1, <2>2, EventsType
  <2>4. \A r, q \in Attempts, e \in EventKind : log[r] \o Closing(q) \o <<e>> \in Seq(EventKind)
    BY <2>3, EventsType
  <2>. QED BY <2>1, <2>3, <2>4, EventsType
<1>. HIDE DEF RespStatus, EventKind
<1>x. /\ <<"started">> \in Seq(EventKind) /\ Append(log[a], "started") \in Seq(EventKind)
      /\ Append(log[a], "text") \in Seq(EventKind) /\ Append(log[a], "error") \in Seq(EventKind)
      /\ Append(log[a], "finished") \in Seq(EventKind)
      /\ log[a] \o <<"closed", "finished">> \in Seq(EventKind)
  BY <1>e, <1>l, <1>q
<1>1. CASE AssertLease(a) \/ LeaseLost(a) \/ StreamStops(a) \/ StreamFails(a) \/ LinkFails(a)
           \/ AgentLoop(a) \/ Rescue(a)
  BY <1>1, <1>t DEF AssertLease, LeaseLost, StreamStops, StreamFails, LinkFails, AgentLoop, Rescue,
                    OutcomeType
<1>2. CASE BindDirect(a) \/ LinkAgent(a) \/ BindAgent(a)
  BY <1>2, <1>t, <1>c, <1>x DEF BindDirect, LinkAgent, BindAgent, OutcomeType
<1>3. CASE StreamText(a) \/ AgentAnswer(a)
  BY <1>3, <1>t, <1>c, <1>x DEF StreamText, AgentAnswer, OutcomeType
<1>4. CASE CompleteResponse(a)
  <2>1. resp' \in [Attempts -> RespStatus] /\ run' = run
    BY <1>4, <1>t, <1>c DEF CompleteResponse, OutcomeType
  <2>2. log' = log \/ log' = [log EXCEPT ![a] = @ \o <<"text", "closed">>]
    BY <1>4 DEF CompleteResponse
  <2>3. log[a] \o <<"text", "closed">> \in Seq(EventKind)
    BY <1>e, <1>l
  <2>. QED BY <1>s, <1>t, <2>1, <2>2, <2>3 DEF OutcomeType
<1>5. CASE StreamExcept(a)
  BY <1>5, <1>t, <1>c, <1>x DEF StreamExcept, OutcomeType
<1>6. CASE FinishDirect(a)
  BY <1>6, <1>t, <1>c, <1>x DEF FinishDirect, OutcomeType
<1>7. CASE AgentClose(a)
  BY <1>7, <1>t, <1>c, <1>x DEF AgentClose, OutcomeType
<1>8. CASE AgentFail(a)
  <2>1. resp' \in [Attempts -> RespStatus] /\ run' \in [Attempts -> RespStatus]
    BY <1>8, <1>t, <1>c DEF AgentFail, OutcomeType
  <2>2. \E s \in Seq(EventKind) : log' = [log EXCEPT ![a] = s]
    BY <1>8, <1>e, <1>l DEF AgentFail
  <2>. QED BY <1>s, <2>1, <2>2 DEF OutcomeType
<1>9. CASE AgentStopped(a)
  <2>1. log' = log \/ log' = [log EXCEPT ![a] = @ \o Closing(a) \o <<"stopped">>]
    BY <1>9 DEF AgentStopped
  <2>2. log[a] \o Closing(a) \o <<"stopped">> \in Seq(EventKind)
    BY <1>e, <1>l
  <2>. QED BY <1>9, <1>s, <1>t, <2>1, <2>2 DEF AgentStopped, OutcomeType
<1>10. CASE OrphanRead(a)
  BY <1>10, <1>t, <1>l DEF OrphanRead, OutcomeType, TargetsKnown
<1>11. CASE OrphanClear(a)
  <2>1. target[a] \in Attempts
    BY <1>11 DEF OrphanClear, TargetsKnown
  <2>2. EndEvent(a) \in EventKind
    BY <1>e DEF EndEvent
  <2>3. Append(log[target[a]], EndEvent(a)) \in Seq(EventKind)
    BY <1>l, <2>1, <2>2
  <2>4. log' = log \/ \E s \in Seq(EventKind) : log' = [log EXCEPT ![target[a]] = s]
    BY <1>11, <1>t, <2>1, <2>3 DEF OrphanClear
  <2>5. resp' \in [Attempts -> RespStatus] /\ run' \in [Attempts -> RespStatus]
    BY <1>11, <1>t, <1>c, <2>1 DEF OrphanClear, OutcomeType
  <2>. QED BY <1>s, <1>t, <2>4, <2>5 DEF OutcomeType
<1>. QED BY <1>1, <1>2, <1>3, <1>4, <1>5, <1>6, <1>7, <1>8, <1>9, <1>10, <1>11 DEF Execute

(* So does what an execution knows. *)
SessionType ==
    /\ ok \in [Attempts -> BOOLEAN] /\ seen \in [Attempts -> RespStatus]
    /\ hasEnd \in [Attempts -> BOOLEAN] /\ rescued \in [Attempts -> BOOLEAN]

LEMMA ExecuteSession ==
    ASSUME TypeInv, NEW a \in Attempts, Execute(a)
    PROVE  SessionType'
<1>. USE DEF TypeInv, Leave, Goto, local
<1>c. {"succeeded", "failed", "canceled", "running", "none"} \subseteq RespStatus
  BY DEF RespStatus, Ended
<1>t. SessionType /\ \A r \in Attempts : resp[r] \in RespStatus /\ HasTerminal(r) \in BOOLEAN
  BY DEF TypeOK, SessionType, HasTerminal
<1>. HIDE DEF RespStatus
<1>1. CASE AssertLease(a) \/ LeaseLost(a)
  BY <1>1, <1>t DEF AssertLease, LeaseLost, SessionType
<1>2. CASE BindDirect(a) \/ StreamText(a) \/ StreamStops(a) \/ StreamFails(a)
  BY <1>2, <1>t, <1>c DEF BindDirect, StreamText, StreamStops, StreamFails, SessionType
<1>3. CASE CompleteResponse(a) \/ StreamExcept(a) \/ FinishDirect(a)
  BY <1>3, <1>t, <1>c DEF CompleteResponse, StreamExcept, FinishDirect, SessionType
<1>4. CASE LinkAgent(a) \/ LinkFails(a) \/ BindAgent(a) \/ AgentLoop(a)
  BY <1>4, <1>t, <1>c DEF LinkAgent, LinkFails, BindAgent, AgentLoop, SessionType
<1>5. CASE AgentAnswer(a) \/ AgentClose(a) \/ AgentFail(a) \/ AgentStopped(a)
  BY <1>5, <1>t DEF AgentAnswer, AgentClose, AgentFail, AgentStopped, SessionType
<1>6. CASE Rescue(a)
  BY <1>6, <1>t DEF Rescue, SessionType
<1>7. CASE OrphanRead(a)
  BY <1>7, <1>t DEF OrphanRead, SessionType, TargetsKnown, FoundEnd
<1>8. CASE OrphanClear(a)
  BY <1>8, <1>t DEF OrphanClear, SessionType
<1>. QED BY <1>1, <1>2, <1>3, <1>4, <1>5, <1>6, <1>7, <1>8 DEF Execute

LEMMA TypeStep == TypeInv /\ [Next]_vars => TypeInv'
<1>. SUFFICES ASSUME TypeInv, [Next]_vars PROVE TypeInv'
  OBVIOUS
<1>. USE InteractionAssumption DEF TypeInv
<1>1. ASSUME NEW a \in Attempts, Execute(a) PROVE TypeInv'
  <2>1. OutcomeType' /\ SessionType'
    BY <1>1, ExecuteOutcome, ExecuteSession
  <2>2. /\ UNCHANGED <<setting, attempt, wk, lost, up, cut, api>>
        /\ \/ hb' = hb
           \/ hb' = [hb EXCEPT ![wk[a]] = 0]
    BY <1>1, ExecuteFrame
  <2>3. hb' \in [Workers -> 0..MaxAttempts]
    <3>1. hb \in [Workers -> 0..MaxAttempts] /\ 0 \in 0..MaxAttempts
      BY DEF TypeOK
    <3>. QED BY <2>2, <3>1
  <2>4. pc' \in [Attempts -> PC] /\ target' \in [Attempts -> 0..MaxAttempts] /\ TargetsKnown'
    <3>1. /\ \E p \in PC : pc' = [pc EXCEPT ![a] = p]
          /\ target' \in [Attempts -> 0..MaxAttempts]
          /\ pc'[a] \in {"orphan", "clear"} => target'[a] \in Attempts
          /\ \A b \in Attempts : b # a => pc'[b] = pc[b] /\ target'[b] = target[b]
      BY <1>1, ExecutePlace
    <3>. HIDE DEF PC
    <3>2. pc' \in [Attempts -> PC]
      BY <3>1 DEF TypeOK
    <3>3. TargetsKnown'
      BY <3>1 DEF TargetsKnown
    <3>. QED BY <3>1, <3>2, <3>3
  <2>5. /\ status' \in {"queued", "running"} \cup Ended
        /\ owner' \in Workers \cup {NoWorker} /\ lapsed' \in BOOLEAN
        /\ bound' \in 0..MaxAttempts
    <3>1. Binds(a) \/ EndsRow \/ UNCHANGED row
      BY <1>1, ExecuteRow
    <3>2. a \in 0..MaxAttempts
      BY DEF Attempts
    <3>. HIDE DEF Ended
    <3>3. CASE Binds(a)
      BY <3>2, <3>3 DEF TypeOK, Binds
    <3>4. CASE EndsRow
      BY <3>4 DEF TypeOK, EndsRow
    <3>5. CASE UNCHANGED row
      BY <3>5 DEF TypeOK, row
    <3>. QED BY <3>1, <3>3, <3>4, <3>5
  <2>. HIDE DEF PC, Ended
  <2>. QED BY <2>1, <2>2, <2>3, <2>4, <2>5 DEF TypeOK, OutcomeType, SessionType, setting
<1>2. ASSUME NEW w \in Workers, Claim(w) PROVE TypeInv'
  <2>1. attempt + 1 \in Attempts /\ attempt + 1 \in 0..MaxAttempts
    BY <1>2 DEF Claim, TypeOK, Attempts
  <2>2. pc' \in [Attempts -> PC] /\ wk' \in [Attempts -> Workers]
    BY <1>2, <2>1 DEF Claim, TypeOK, PC
  <2>3. target' \in [Attempts -> 0..MaxAttempts] /\ TargetsKnown'
    <3>1. target' = [target EXCEPT ![attempt + 1] = bound]
      BY <1>2 DEF Claim
    <3>2. \E p \in PC : pc' = [pc EXCEPT ![attempt + 1] = p] /\ (p = "clear" => FALSE)
                                /\ (p = "orphan" => bound # 0)
      BY <1>2 DEF Claim, PC
    <3>3. bound # 0 => bound \in Attempts
      BY DEF TypeOK, Attempts
    <3>. HIDE DEF PC
    <3>. QED BY <2>1, <3>1, <3>2, <3>3 DEF TypeOK, TargetsKnown
  <2>4. hb' \in [Workers -> 0..MaxAttempts]
    BY <1>2, <2>1 DEF Claim, TypeOK
  <2>. HIDE DEF PC, Ended
  <2>. QED BY <1>2, <2>1, <2>2, <2>3, <2>4 DEF Claim, TypeOK, setting, outcome
<1>3. CASE Lapse
  BY <1>3 DEF Lapse, TypeOK, TargetsKnown, setting, outcome, local, fleet
<1>4. ASSUME NEW w \in Workers, Renew(w) PROVE TypeInv'
  <2>1. hb[w] \in Attempts
    BY <1>4 DEF Renew, TypeOK, Attempts
  <2>2. hb' \in [Workers -> 0..MaxAttempts] /\ lost' \subseteq Attempts /\ lapsed' \in BOOLEAN
    <3>1. /\ hb' = hb \/ hb' = [hb EXCEPT ![w] = 0]
          /\ lost' = lost \/ lost' = lost \cup {hb[w]}
          /\ lapsed' = FALSE \/ lapsed' = lapsed
      BY <1>4 DEF Renew
    <3>2. 0 \in 0..MaxAttempts
      OBVIOUS
    <3>3. hb \in [Workers -> 0..MaxAttempts] /\ lost \subseteq Attempts /\ lapsed \in BOOLEAN
      BY DEF TypeOK
    <3>. QED BY <2>1, <3>1, <3>2, <3>3
  <2>. HIDE DEF PC, Ended
  <2>. QED BY <1>4, <2>2 DEF Renew, TypeOK, TargetsKnown, setting, outcome, local
<1>5. ASSUME NEW w \in Workers, Crash(w) \/ Drain(w) PROVE TypeInv'
  <2>1. /\ pc' = Gone(w) /\ hb' = [hb EXCEPT ![w] = 0]
        /\ up' \subseteq Workers /\ cut' \subseteq Workers
        /\ UNCHANGED <<setting, row, outcome, wk, local, lost, api>>
    BY <1>5 DEF Crash, Drain, TypeOK
  <2>2. pc' \in [Attempts -> PC] /\ TargetsKnown'
    BY <2>1 DEF Gone, TypeOK, TargetsKnown, PC, local
  <2>3. hb' \in [Workers -> 0..MaxAttempts]
    BY <2>1 DEF TypeOK
  <2>. HIDE DEF PC, Ended
  <2>. QED BY <2>1, <2>2, <2>3 DEF TypeOK, setting, row, outcome, local
<1>6. ASSUME NEW w \in Workers, ReleaseClaims(w) PROVE TypeInv'
  BY <1>6 DEF ReleaseClaims, SetStatus, TypeOK, TargetsKnown, setting, row, outcome, local
<1>7. ASSUME NEW r \in Attempts, Cancel(r) PROVE TypeInv'
  <2>1. resp' \in [Attempts -> RespStatus] /\ run' \in [Attempts -> RespStatus]
    BY <1>7 DEF Cancel, TypeOK, RespStatus, Ended
  <2>2. log' \in [Attempts -> Seq(EventKind)] /\ api' \in 0..MaxAttempts
    <3>1. "closed" \in EventKind /\ "stopped" \in EventKind /\ log[r] \in Seq(EventKind)
      BY DEF EventKind, Terminal, TypeOK
    <3>2. r \in 0..MaxAttempts
      BY DEF Attempts
    <3>. HIDE DEF EventKind
    <3>3. Append(log[r], "closed") \in Seq(EventKind) /\ Append(log[r], "stopped") \in Seq(EventKind)
      BY <3>1, EventsType
    <3>4. \/ log' = [log EXCEPT ![r] = Append(log[r], "closed")] /\ api' = r
          \/ log' = [log EXCEPT ![r] = Append(log[r], "stopped")] /\ api' = api
      BY <1>7 DEF Cancel
    <3>5. log' \in [Attempts -> Seq(EventKind)]
      BY <3>3, <3>4, LogType
    <3>. QED BY <3>2, <3>4, <3>5 DEF TypeOK
  <2>3. /\ status' = "canceled" /\ owner' = NoWorker /\ lapsed' = FALSE
        /\ UNCHANGED <<attempt, bound, setting, pc, wk, local, fleet>>
    BY <1>7 DEF Cancel, SetStatus
  <2>4. status' \in {"queued", "running"} \cup Ended
    BY <2>3 DEF Ended
  <2>. HIDE DEF PC, Ended, RespStatus
  <2>. QED BY <2>1, <2>2, <2>3, <2>4 DEF TypeOK, TargetsKnown, setting, local, fleet
<1>8. CASE CancelTold
  <2>1. log' \in [Attempts -> Seq(EventKind)] /\ api' \in 0..MaxAttempts
    <3>1. api \in Attempts /\ "stopped" \in EventKind
      BY <1>8 DEF CancelTold, TypeOK, Attempts, EventKind, Terminal
    <3>2. Append(log[api], "stopped") \in Seq(EventKind)
      <4>1. log[api] \in Seq(EventKind)
        BY <3>1 DEF TypeOK
      <4>. HIDE DEF EventKind
      <4>. QED BY <3>1, <4>1
    <3>. HIDE DEF EventKind
    <3>3. log' = [log EXCEPT ![api] = Append(log[api], "stopped")] /\ api' = 0
      BY <1>8 DEF CancelTold
    <3>4. log' \in [Attempts -> Seq(EventKind)]
      BY <3>2, <3>3, LogType
    <3>. QED BY <3>3, <3>4
  <2>. HIDE DEF PC, Ended, RespStatus
  <2>. QED BY <1>8, <2>1 DEF CancelTold, TypeOK, TargetsKnown, setting, row, local, fleet
<1>9. CASE UNCHANGED vars
  <2>. HIDE DEF PC, Ended, RespStatus
  <2>. QED BY <1>9 DEF vars, TypeOK, TargetsKnown, setting, row, outcome, local, fleet
<1>. QED BY <1>1, <1>2, <1>3, <1>4, <1>5, <1>6, <1>7, <1>8, <1>9 DEF Next

(***************************************************************************)
(* The strengthening.                                                      *)
(***************************************************************************)

(* An owned row is running, and executions run on workers that are up. *)
FleetInv ==
    /\ cut \cap up = {}
    /\ owner # NoWorker => status = "running"
    /\ lapsed => owner # NoWorker
    /\ \A a \in Attempts : a > attempt => pc[a] = "none"
    /\ \A a \in Attempts : Active(a) => wk[a] \in up

(* With steady heartbeats whoever executes is the last attempt, and nobody *)
(* can claim or release the row from under it.                             *)
Alone ==
    steady => \A a \in Attempts : Active(a) =>
        /\ a = attempt /\ status # "queued" /\ ~lapsed
        /\ owner # NoWorker => owner = wk[a] /\ hb[wk[a]] = a

(* A response is there once its attempt created it, and one that streams   *)
(* runs as far as its executor knows.                                      *)
ResponsesInv ==
    /\ bound # 0 => resp[bound] # "none"
    /\ \A a \in Attempts :
        /\ pc[a] \in {"none", "link"} \/ (mode = "direct" /\ pc[a] = "bind") => resp[a] = "none"
        /\ target[a] # 0 => resp[target[a]] # "none"
        /\ pc[a] \in {"stream", "except", "finish"} \/ (mode = "agent" /\ pc[a] = "bind") =>
                resp[a] # "none"
        /\ pc[a] = "stream" => seen[a] = "running"
        /\ mode = "direct" => pc[a] \notin {"link", "loop", "answer", "close", "fail", "stopped"}
        /\ mode = "agent" => pc[a] \notin {"stream", "except", "finish"}

(* What is bound is what the execution works on. *)
BoundInv ==
    \A a \in Attempts :
        /\ pc[a] \in {"bind", "link"} => bound = 0
        /\ pc[a] \in {"stream", "except", "finish", "loop", "answer", "close", "fail"} => bound = a
        /\ pc[a] \in {"orphan", "clear"} => target[a] = bound

(* A direct interaction has one response; an agent is not canceled. *)
ModeInv ==
    /\ mode = "direct" => \A r \in Attempts : resp[r] # "none" => r = bound
    /\ mode = "agent" =>
        \A a \in Attempts :
            /\ resp[a] # "canceled" /\ run[a] # "canceled" /\ pc[a] # "stopped"
            /\ pc[a] \in {"bind", "loop", "answer", "close", "fail"} =>
                    resp[a] = "running" /\ run[a] = "running"
    /\ \A a \in Attempts : Active(a) /\ status # "running" => mode = "direct" /\ bound # 0

(* What a session has seen end ended so. *)
SeenInv ==
    \A a \in Attempts :
        /\ pc[a] \in {"stream", "except"} => resp[a] \in {"running", "canceled"}
        /\ pc[a] = "except" /\ seen[a] \in Ended => resp[a] = seen[a]
        /\ pc[a] = "finish" => resp[a] = "succeeded"
        /\ pc[a] = "clear" /\ seen[a] \in Ended => resp[target[a]] = seen[a]

(* The row ended as its response did. *)
VerdictAgrees == status \in Ended /\ bound # 0 => status = resp[bound]

TameInv == Tame => BoundInv /\ ModeInv /\ SeenInv /\ VerdictAgrees

-----------------------------------------------------------------------------
(* The events. *)
Kinds(s) == {s[i] : i \in DOMAIN s}
Ends(s) == {i \in DOMAIN s : s[i] \in Terminal}

(* Every terminal event comes after the end of a text. *)
ClosedFirst(s) == \A i \in Ends(s) : \E k \in 1..(i - 1) : s[k] = "closed"

OneEnd(s) == \E i \in DOMAIN s : Ends(s) = {i}

(* Nobody is about to append another terminal event. *)
NoneToCome(r) ==
    /\ api # r
    /\ \A a \in Attempts :
        pc[a] = "clear" /\ target[a] = r => hasEnd[a] \/ seen[a] \notin Ended

LogInv ==
    /\ api # 0 => api = bound /\ resp[api] = "canceled" /\ "closed" \in Kinds(log[api])
    /\ \A r \in Attempts :
        /\ log[r] # <<>> => r = bound
        /\ resp[r] \in {"none", "running"} => Ends(log[r]) = {}
        /\ resp[r] # "canceled" => Ends(log[r]) \subseteq {Len(log[r])}
        /\ resp[r] = "canceled" =>
                /\ Ends(log[r]) # {} \/ "closed" \in Kinds(log[r])
                /\ \/ ClosedFirst(log[r])
                   \/ OneEnd(log[r]) /\ NoneToCome(r)
        /\ pc[r] = "finish" => Ends(log[r]) = {}
        /\ pc[r] = "clear" /\ resp[target[r]] # "canceled" =>
                hasEnd[r] = (Ends(log[target[r]]) # {})
        /\ pc[r] = "clear" /\ ~hasEnd[r] /\ seen[r] = "canceled" =>
                "closed" \in Kinds(log[target[r]])

TameLogs == Tame => LogInv

-----------------------------------------------------------------------------
(* What the steps outside an execution do to it. *)

LEMMA ClaimFrame ==
    ASSUME TypeInv, FleetInv, NEW w \in Workers, Claim(w)
    PROVE  /\ attempt' = attempt + 1 /\ attempt' \in Attempts /\ pc[attempt'] = "none"
           /\ UNCHANGED <<setting, bound, outcome, ok, seen, hasEnd, rescued, lost, up, cut, api>>
           /\ status' = "running" /\ owner' = w /\ lapsed' = FALSE /\ w \in up
           /\ pc'[attempt'] = IF bound # 0 THEN "orphan"
                              ELSE IF mode = "direct" THEN "bind" ELSE "link"
           /\ target'[attempt'] = bound /\ wk'[attempt'] = w /\ hb'[w] = attempt'
           /\ \A a \in Attempts : a # attempt' =>
                pc'[a] = pc[a] /\ target'[a] = target[a] /\ wk'[a] = wk[a]
<1>1. attempt + 1 \in Attempts /\ attempt + 1 > attempt /\ attempt' = attempt + 1
  BY InteractionAssumption DEF Claim, TypeInv, TypeOK, Attempts
<1>2. pc[attempt + 1] = "none"
  BY <1>1 DEF FleetInv
<1>. HIDE DEF PC
<1>3. /\ pc'[attempt + 1] = IF bound # 0 THEN "orphan"
                            ELSE IF mode = "direct" THEN "bind" ELSE "link"
      /\ \A a \in Attempts : a # attempt + 1 => pc'[a] = pc[a]
  BY <1>1 DEF Claim, TypeInv, TypeOK
<1>4. /\ target'[attempt + 1] = bound /\ wk'[attempt + 1] = w /\ hb'[w] = attempt + 1
      /\ \A a \in Attempts : a # attempt + 1 => target'[a] = target[a] /\ wk'[a] = wk[a]
  BY <1>1 DEF Claim, TypeInv, TypeOK
<1>. QED BY <1>1, <1>2, <1>3, <1>4 DEF Claim

(* A worker that goes takes its executions with it. *)
LEMMA GoneFrame ==
    ASSUME TypeInv, NEW w \in Workers, Crash(w) \/ Drain(w)
    PROVE  /\ UNCHANGED <<setting, row, outcome, wk, local, lost, api>>
           /\ up' = up \ {w} /\ cut' \subseteq cut \cup {w}
           /\ \A a \in Attempts :
                /\ pc'[a] = pc[a] \/ pc'[a] = "over"
                /\ pc'[a] \notin {"none", "over"} => wk[a] # w
                /\ pc[a] = "none" => pc'[a] = "none"
           /\ hb'[w] = 0 /\ \A v \in Workers : v # w => hb'[v] = hb[v]
<1>1. /\ UNCHANGED <<setting, row, outcome, wk, local, lost, api>>
      /\ up' = up \ {w} /\ cut' \subseteq cut \cup {w}
      /\ pc' = Gone(w) /\ hb' = [hb EXCEPT ![w] = 0]
  BY DEF Crash, Drain
<1>2. \A a \in Attempts :
        /\ pc'[a] = pc[a] \/ pc'[a] = "over"
        /\ pc'[a] \notin {"none", "over"} => wk[a] # w
        /\ pc[a] = "none" => pc'[a] = "none"
  BY <1>1 DEF Gone, Active
<1>3. hb'[w] = 0 /\ \A v \in Workers : v # w => hb'[v] = hb[v]
  BY <1>1 DEF TypeInv, TypeOK
<1>. QED BY <1>1, <1>2, <1>3

LEMMA FleetStep == TypeInv /\ FleetInv /\ [Next]_vars => FleetInv'
<1>. SUFFICES ASSUME TypeInv, FleetInv, [Next]_vars PROVE FleetInv'
  OBVIOUS
<1>. USE InteractionAssumption
<1>1. ASSUME NEW a \in Attempts, Execute(a) PROVE FleetInv'
  <2>1. Active(a) /\ UNCHANGED <<attempt, wk, up, cut>>
    BY <1>1, ExecuteFrame
  <2>2. \A b \in Attempts : b # a => pc'[b] = pc[b]
    BY <1>1, ExecutePlace
  <2>3. a <= attempt /\ wk[a] \in up
    BY <2>1 DEF FleetInv, Active, TypeInv, TypeOK, Attempts
  <2>4. /\ owner' # NoWorker => status' = "running"
        /\ lapsed' => owner' # NoWorker
    BY <1>1, ExecuteRow DEF FleetInv, Binds, EndsRow, row
  <2>5. \A b \in Attempts : b > attempt' => pc'[b] = "none"
    <3>1. attempt \in Nat /\ \A b \in Attempts : b \in Nat
      BY DEF TypeInv, TypeOK, Attempts
    <3>2. \A b \in Attempts : b > attempt => b # a /\ pc[b] = "none"
      BY <2>3, <3>1 DEF FleetInv
    <3>. QED BY <2>1, <2>2, <3>2
  <2>. QED BY <2>1, <2>2, <2>3, <2>4, <2>5 DEF FleetInv, Active
<1>2. ASSUME NEW w \in Workers, Claim(w) PROVE FleetInv'
  <2>1. /\ attempt' = attempt + 1
        /\ UNCHANGED <<up, cut>>
        /\ status' = "running" /\ owner' = w /\ lapsed' = FALSE /\ w \in up
        /\ wk'[attempt'] = w
        /\ \A a \in Attempts : a # attempt' => pc'[a] = pc[a] /\ wk'[a] = wk[a]
    BY <1>2, ClaimFrame
  <2>2. \A a \in Attempts : a > attempt' => a > attempt /\ a # attempt'
    BY <2>1 DEF TypeInv, TypeOK, Attempts
  <2>3. \A a \in Attempts : a > attempt' => pc'[a] = "none"
    BY <2>1, <2>2 DEF FleetInv
  <2>. QED BY <2>1, <2>3 DEF FleetInv, Active
<1>3. CASE Lapse
  BY <1>3 DEF Lapse, FleetInv, Active, fleet
<1>4. ASSUME NEW w \in Workers, Renew(w) PROVE FleetInv'
  BY <1>4 DEF Renew, FleetInv, Active
<1>5. ASSUME NEW w \in Workers, Crash(w) \/ Drain(w) PROVE FleetInv'
  <2>1. /\ UNCHANGED <<row, wk>>
        /\ up' = up \ {w} /\ cut' \subseteq cut \cup {w}
        /\ \A a \in Attempts :
             /\ pc'[a] = pc[a] \/ pc'[a] = "over"
             /\ pc'[a] \notin {"none", "over"} => wk[a] # w
             /\ pc[a] = "none" => pc'[a] = "none"
    BY <1>5, GoneFrame
  <2>. QED BY <2>1 DEF FleetInv, Active, row
<1>6. ASSUME NEW w \in Workers, ReleaseClaims(w) PROVE FleetInv'
  BY <1>6 DEF ReleaseClaims, SetStatus, FleetInv, Active, row
<1>7. ASSUME NEW r \in Attempts, Cancel(r) PROVE FleetInv'
  BY <1>7 DEF Cancel, SetStatus, FleetInv, Active, local, fleet
<1>8. CASE CancelTold
  BY <1>8 DEF CancelTold, FleetInv, Active, row, local, fleet
<1>9. CASE UNCHANGED vars
  BY <1>9 DEF vars, FleetInv, Active, row, fleet
<1>. QED BY <1>1, <1>2, <1>3, <1>4, <1>5, <1>6, <1>7, <1>8, <1>9 DEF Next

(* Nobody claims, releases or takes over what is being executed. *)
LEMMA ClaimedFree ==
    ASSUME TypeInv, FleetInv, Alone, steady, NEW w \in Workers, Claim(w) \/ (ReleaseClaims(w) /\ owner = w)
    PROVE  \A a \in Attempts : ~Active(a)
<1>1. CASE Claim(w)
  BY <1>1 DEF Claim, Claimable, Alone, FleetInv
<1>2. CASE ReleaseClaims(w) /\ owner = w
  <2>1. w # NoWorker /\ w \notin up
    BY <1>2, InteractionAssumption DEF ReleaseClaims, FleetInv
  <2>. QED BY <1>2, <2>1 DEF Alone, FleetInv
<1>. QED BY <1>1, <1>2

LEMMA AloneStep == TypeInv /\ FleetInv /\ Alone /\ [Next]_vars => Alone'
<1>. SUFFICES ASSUME TypeInv, FleetInv, Alone, [Next]_vars PROVE Alone'
  OBVIOUS
<1>. USE InteractionAssumption
<1>s. steady' = steady
  <2>1. \A a \in Attempts : Execute(a) => steady' = steady
    BY ExecuteFrame DEF setting
  <2>2. \A w \in Workers : Claim(w) \/ Renew(w) \/ Crash(w) \/ Drain(w) \/ ReleaseClaims(w) => steady' = steady
    BY DEF Claim, Renew, Crash, Drain, ReleaseClaims, setting
  <2>3. \A r \in Attempts : Cancel(r) => steady' = steady
    BY DEF Cancel, setting
  <2>4. Lapse \/ CancelTold \/ UNCHANGED vars => steady' = steady
    BY DEF Lapse, CancelTold, vars, setting
  <2>. QED BY <2>1, <2>2, <2>3, <2>4 DEF Next
<1>. SUFFICES ASSUME steady PROVE Alone'
  BY <1>s DEF Alone
<1>h. \A a \in Attempts : Active(a) =>
        /\ a = attempt /\ status # "queued" /\ ~lapsed
        /\ owner # NoWorker => owner = wk[a] /\ hb[wk[a]] = a
  BY DEF Alone
<1>1. ASSUME NEW a \in Attempts, Execute(a) PROVE Alone'
  <2>1. Active(a) /\ UNCHANGED <<attempt, wk>>
    BY <1>1, ExecuteFrame
  <2>2. \A b \in Attempts : b # a => ~Active(b) /\ pc'[b] = pc[b]
    BY <1>1, <1>h, <2>1, ExecutePlace
  <2>3. CASE pc'[a] = "over"
    BY <2>2, <2>3 DEF Alone, Active
  <2>4. CASE pc'[a] # "over"
    <3>1. hb' = hb
      BY <1>1, <2>4, ExecuteFrame DEF TypeInv, TypeOK
    <3>2. Binds(a) \/ UNCHANGED row
      BY <1>1, <2>4, ExecuteRow DEF TypeInv, TypeOK
    <3>3. a = attempt' /\ status' # "queued" /\ ~lapsed' /\ owner' = owner
      BY <1>h, <2>1, <3>2 DEF Binds, row
    <3>. QED BY <1>h, <2>1, <2>2, <3>1, <3>3 DEF Alone, Active
  <2>. QED BY <2>3, <2>4
<1>2. ASSUME NEW w \in Workers, Claim(w) PROVE Alone'
  <2>1. \A a \in Attempts : ~Active(a)
    BY <1>2, ClaimedFree
  <2>2. /\ status' = "running" /\ owner' = w /\ lapsed' = FALSE
        /\ wk'[attempt'] = w /\ hb'[w] = attempt'
        /\ \A a \in Attempts : a # attempt' => pc'[a] = pc[a]
    BY <1>2, ClaimFrame
  <2>. QED BY <2>1, <2>2 DEF Alone, Active
<1>3. CASE Lapse
  <2>1. \A a \in Attempts : ~Active(a)
    <3>1. owner # NoWorker /\ hb[owner] = 0
      BY <1>3 DEF Lapse
    <3>2. \A a \in Attempts : a # 0
      BY DEF Attempts
    <3>. QED BY <1>h, <3>1, <3>2
  <2>. QED BY <1>3, <2>1 DEF Lapse, Alone, Active
<1>4. ASSUME NEW w \in Workers, Renew(w) PROVE Alone'
  <2>1. ASSUME NEW a \in Attempts, Active(a), owner # NoWorker PROVE hb'[wk[a]] = a
    <3>1. a = attempt /\ owner = wk[a] /\ hb[wk[a]] = a
      BY <1>h, <2>1
    <3>2. CASE w = wk[a]
      <4>1. status = "running"
        BY <2>1 DEF FleetInv
      <4>2. hb' = hb
        BY <1>4, <3>1, <3>2, <4>1 DEF Renew
      <4>. QED BY <3>1, <4>2
    <3>3. CASE w # wk[a]
      <4>1. hb' = hb \/ hb' = [hb EXCEPT ![w] = 0]
        BY <1>4 DEF Renew
      <4>. QED BY <3>1, <3>3, <4>1 DEF TypeInv, TypeOK
    <3>. QED BY <3>2, <3>3
  <2>2. UNCHANGED <<status, owner, attempt, pc, wk>> /\ (lapsed' => lapsed)
    BY <1>4 DEF Renew
  <2>. QED BY <1>h, <2>1, <2>2 DEF Alone, Active
<1>5. ASSUME NEW w \in Workers, Crash(w) \/ Drain(w) PROVE Alone'
  <2>1. /\ UNCHANGED <<row, wk>>
        /\ \A a \in Attempts :
             /\ pc'[a] = pc[a] \/ pc'[a] = "over"
             /\ pc'[a] \notin {"none", "over"} => wk[a] # w
        /\ \A v \in Workers : v # w => hb'[v] = hb[v]
    BY <1>5, GoneFrame
  <2>2. \A a \in Attempts : wk[a] \in Workers
    BY DEF TypeInv, TypeOK
  <2>. QED BY <1>h, <2>1, <2>2 DEF Alone, Active, row
<1>6. ASSUME NEW w \in Workers, ReleaseClaims(w) PROVE Alone'
  <2>1. CASE owner = w
    <3>1. \A a \in Attempts : ~Active(a)
      BY <1>6, <2>1, ClaimedFree
    <3>. QED BY <1>6, <3>1 DEF ReleaseClaims, Alone, Active
  <2>2. CASE owner # w
    BY <1>6, <1>h, <2>2 DEF ReleaseClaims, Releasable, Alone, Active, row
  <2>. QED BY <2>1, <2>2
<1>7. ASSUME NEW r \in Attempts, Cancel(r) PROVE Alone'
  BY <1>7, <1>h DEF Cancel, SetStatus, Alone, Active, local, fleet
<1>8. CASE CancelTold
  BY <1>8, <1>h DEF CancelTold, Alone, Active, row, local, fleet
<1>9. CASE UNCHANGED vars
  BY <1>9, <1>h DEF vars, Alone, Active, row, fleet
<1>. QED BY <1>1, <1>2, <1>3, <1>4, <1>5, <1>6, <1>7, <1>8, <1>9 DEF Next

-----------------------------------------------------------------------------
(* Responses: one that ended stays as it ended. *)

Moves(r, a) ==
    /\ resp[r] \in {"none", "running"} /\ resp'[r] # "none"
    /\ resp[r] = "none" => r = a /\ pc[a] \in {"bind", "link"} /\ resp'[r] = "running"

LEMMA ExecuteResponse ==
    ASSUME TypeInv, ResponsesInv, NEW a \in Attempts, Execute(a)
    PROVE  \A r \in Attempts : resp'[r] = resp[r] \/ Moves(r, a)
<1>. USE DEF TypeInv, Moves, outcome
<1>t. /\ resp \in [Attempts -> RespStatus] /\ run \in [Attempts -> RespStatus]
      /\ RespStatus = {"none", "running", "succeeded", "failed", "canceled"}
  BY DEF TypeOK, RespStatus, Ended
<1>. HIDE DEF RespStatus
<1>1. CASE AssertLease(a) \/ LeaseLost(a) \/ StreamText(a) \/ StreamStops(a) \/ StreamFails(a)
           \/ FinishDirect(a) \/ LinkFails(a) \/ BindAgent(a) \/ AgentLoop(a) \/ AgentAnswer(a)
           \/ AgentStopped(a) \/ Rescue(a) \/ OrphanRead(a)
  BY <1>1 DEF AssertLease, LeaseLost, StreamText, StreamStops, StreamFails, FinishDirect, LinkFails,
              BindAgent, AgentLoop, AgentAnswer, AgentStopped, Rescue, OrphanRead
<1>2. CASE BindDirect(a) \/ LinkAgent(a)
  <2>1. resp' = [resp EXCEPT ![a] = "running"] /\ pc[a] \in {"bind", "link"}
    BY <1>2 DEF BindDirect, LinkAgent
  <2>2. resp[a] = "none"
    BY <1>2 DEF BindDirect, LinkAgent, ResponsesInv
  <2>. QED BY <1>t, <2>1, <2>2
<1>3. CASE CompleteResponse(a)
  <2>1. seen[a] = "running"
    BY <1>3 DEF CompleteResponse, ResponsesInv
  <2>2. resp' = resp \/ (resp[a] = seen[a] /\ resp' = [resp EXCEPT ![a] = "succeeded"])
    BY <1>3 DEF CompleteResponse
  <2>. QED BY <1>t, <2>1, <2>2
<1>4. CASE StreamExcept(a)
  <2>1. \/ resp' = resp
        \/ resp[a] \notin {"succeeded", "canceled"} /\ resp' = [resp EXCEPT ![a] = "failed"]
    BY <1>4 DEF StreamExcept
  <2>2. resp[a] # "none"
    BY <1>4 DEF StreamExcept, ResponsesInv
  <2>. QED BY <1>t, <2>1, <2>2
<1>5. CASE AgentClose(a) \/ AgentFail(a)
  <2>1. \/ resp' = resp
        \/ resp[a] = "running" /\ resp' = [resp EXCEPT ![a] = "succeeded"]
        \/ resp' = [resp EXCEPT ![a] = IF @ = "running" THEN "failed" ELSE @]
    BY <1>5 DEF AgentClose, AgentFail
  <2>. QED BY <1>t, <2>1
<1>6. CASE OrphanClear(a)
  <2>1. target[a] \in Attempts /\ target[a] # 0
    BY <1>6 DEF OrphanClear, TargetsKnown, Attempts
  <2>2. resp[target[a]] # "none"
    BY <2>1 DEF ResponsesInv
  <2>3. \/ resp' = resp
        \/ resp[target[a]] \notin {"succeeded", "canceled"} /\ resp' = [resp EXCEPT ![target[a]] = "failed"]
    BY <1>6, <1>t, <2>1 DEF OrphanClear
  <2>. QED BY <1>t, <2>1, <2>2, <2>3
<1>. QED BY <1>1, <1>2, <1>3, <1>4, <1>5, <1>6 DEF Execute

LEMMA CancelResponse ==
    ASSUME TypeInv, NEW r \in Attempts, Cancel(r)
    PROVE  /\ resp[r] = "running" /\ resp'[r] = "canceled"
           /\ \A q \in Attempts : q # r => resp'[q] = resp[q] /\ run'[q] = run[q] /\ log'[q] = log[q]
           /\ \/ run'[r] = run[r]
              \/ run[r] = "running" /\ run'[r] = "canceled"
           /\ UNCHANGED <<setting, attempt, bound, pc, wk, local, fleet>>
           /\ status' = "canceled" /\ owner' = NoWorker /\ lapsed' = FALSE
<1>1. resp[r] = "running" /\ resp'[r] = "canceled" /\ \A q \in Attempts : q # r => resp'[q] = resp[q]
  BY DEF Cancel, TypeInv, TypeOK
<1>2. \A q \in Attempts : q # r => run'[q] = run[q] /\ log'[q] = log[q]
  BY DEF Cancel, TypeInv, TypeOK
<1>3. run'[r] = run[r] \/ (run[r] = "running" /\ run'[r] = "canceled")
  BY DEF Cancel, TypeInv, TypeOK
<1>. QED BY <1>1, <1>2, <1>3 DEF Cancel, SetStatus

LEMMA ResponseStep ==
    ASSUME TypeInv, ResponsesInv, [Next]_vars
    PROVE  /\ \A r \in Attempts : resp[r] \in Ended => resp'[r] = resp[r]
           /\ \A r \in Attempts : resp[r] # "none" => resp'[r] # "none"
           /\ mode' = mode
<1>. USE DEF Ended, Moves
<1>1. ASSUME NEW a \in Attempts, Execute(a)
      PROVE  /\ \A r \in Attempts : resp[r] \in Ended => resp'[r] = resp[r]
             /\ \A r \in Attempts : resp[r] # "none" => resp'[r] # "none"
             /\ mode' = mode
  BY <1>1, ExecuteResponse, ExecuteFrame DEF setting
<1>2. ASSUME NEW r \in Attempts, Cancel(r)
      PROVE  /\ \A q \in Attempts : resp[q] \in Ended => resp'[q] = resp[q]
             /\ \A q \in Attempts : resp[q] # "none" => resp'[q] # "none"
             /\ mode' = mode
  BY <1>2, CancelResponse DEF setting
<1>3. ASSUME NEW w \in Workers, Claim(w) \/ Renew(w) \/ Crash(w) \/ Drain(w) \/ ReleaseClaims(w)
      PROVE  UNCHANGED <<resp, mode>>
  BY <1>3 DEF Claim, Renew, Crash, Drain, ReleaseClaims, setting, outcome
<1>4. Lapse \/ CancelTold \/ UNCHANGED vars => UNCHANGED <<resp, mode>>
  BY DEF Lapse, CancelTold, vars, setting, outcome
<1>. QED BY <1>1, <1>2, <1>3, <1>4 DEF Next

(* What a step of an execution makes of its own part of ResponsesInv. *)
OwnResponse(a) ==
    /\ pc[a] \in {"none", "link"} \/ (mode = "direct" /\ pc[a] = "bind") => resp[a] = "none"
    /\ target[a] # 0 => resp[target[a]] # "none"
    /\ pc[a] \in {"stream", "except", "finish"} \/ (mode = "agent" /\ pc[a] = "bind") =>
            resp[a] # "none"
    /\ pc[a] = "stream" => seen[a] = "running"
    /\ mode = "direct" => pc[a] \notin {"link", "loop", "answer", "close", "fail", "stopped"}
    /\ mode = "agent" => pc[a] \notin {"stream", "except", "finish"}

LEMMA OwnResponseStep ==
    ASSUME TypeInv, ResponsesInv, NEW a \in Attempts, Execute(a)
    PROVE  OwnResponse(a)' /\ (bound' # 0 => resp'[bound'] # "none")
<1>h. /\ OwnResponse(a) /\ (bound # 0 => resp[bound] # "none")
      /\ \A b \in Attempts : target[b] # 0 => resp[target[b]] # "none"
  BY DEF ResponsesInv, OwnResponse
<1>m. /\ \A r \in Attempts : resp[r] # "none" => resp'[r] # "none"
      /\ mode' = mode
  <2>1. [Next]_vars
    BY DEF Next
  <2>. QED BY <2>1, ResponseStep
<1>t. /\ target[a] \in 0..MaxAttempts /\ bound \in 0..MaxAttempts
      /\ \A n \in 0..MaxAttempts : n # 0 => n \in Attempts
      /\ mode \in {"direct", "agent"}
      /\ pc \in [Attempts -> PC] /\ seen \in [Attempts -> RespStatus] /\ resp \in [Attempts -> RespStatus]
      /\ target \in [Attempts -> 0..MaxAttempts]
  BY InteractionAssumption DEF TypeInv, TypeOK, Attempts
<1>. HIDE DEF PC, RespStatus
<1>b. bound' = bound => (bound' # 0 => resp'[bound'] # "none")
  BY <1>h, <1>m, <1>t
<1>k. target' = target => (target'[a] # 0 => resp'[target'[a]] # "none")
  BY <1>h, <1>m, <1>t
<1>. USE DEF Leave, Goto, local, row, outcome
<1>1. CASE AssertLease(a) \/ LeaseLost(a)
  BY <1>1, <1>h, <1>m, <1>t, <1>b, <1>k DEF AssertLease, LeaseLost, OwnResponse
<1>2. CASE BindDirect(a)
  <2>1. /\ pc'[a] = "stream" /\ seen'[a] = "running" /\ resp'[a] = "running" /\ target' = target
        /\ bound' = a /\ mode = "direct"
    BY <1>2, <1>t DEF BindDirect
  <2>. QED BY <2>1, <1>m, <1>k DEF OwnResponse
<1>3. CASE StreamText(a) \/ StreamStops(a) \/ StreamFails(a)
  BY <1>3, <1>h, <1>m, <1>t, <1>b, <1>k DEF StreamText, StreamStops, StreamFails, SetStatus, OwnResponse
<1>4. CASE CompleteResponse(a) \/ StreamExcept(a)
  <2>1. /\ pc'[a] \in {"except", "finish", "rescue", "over"} /\ target' = target /\ bound' = bound
        /\ pc[a] \in {"stream", "except"} /\ (pc[a] = "except" => pc'[a] \notin {"except", "finish"})
    BY <1>4, <1>t DEF CompleteResponse, StreamExcept, SetStatus
  <2>. QED BY <2>1, <1>h, <1>m, <1>b, <1>k DEF OwnResponse
<1>5. CASE FinishDirect(a) \/ LinkFails(a)
  <2>1. pc'[a] \in {"rescue", "over"} /\ target' = target /\ bound' = bound
    BY <1>5, <1>t DEF FinishDirect, LinkFails, SetStatus
  <2>. QED BY <2>1, <1>b, <1>k DEF OwnResponse
<1>6. CASE LinkAgent(a)
  <2>1. /\ pc'[a] = "bind" /\ pc[a] = "link" /\ resp'[a] = "running"
        /\ target' = target /\ bound' = bound
    BY <1>6, <1>t DEF LinkAgent
  <2>. QED BY <2>1, <1>h, <1>m, <1>b, <1>k, <1>t DEF OwnResponse
<1>7. CASE BindAgent(a)
  <2>1. /\ pc'[a] = "loop" /\ pc[a] = "bind" /\ mode = "agent"
        /\ target' = target /\ bound' = a /\ resp' = resp
    BY <1>7, <1>t DEF BindAgent
  <2>. QED BY <2>1, <1>h, <1>m, <1>k DEF OwnResponse
<1>8. CASE AgentLoop(a) \/ AgentAnswer(a) \/ AgentClose(a) \/ AgentFail(a) \/ AgentStopped(a)
  <2>1. /\ pc[a] \in {"loop", "answer", "close", "fail", "stopped"}
        /\ pc'[a] \in {"answer", "close", "fail", "stopped", "over"}
        /\ target' = target /\ bound' = bound
    BY <1>8, <1>t DEF AgentLoop, AgentAnswer, AgentClose, AgentFail, AgentStopped, SetStatus
  <2>. QED BY <2>1, <1>h, <1>m, <1>b, <1>k DEF OwnResponse
<1>9. CASE Rescue(a)
  <2>1. /\ pc'[a] \in {"orphan", "over"} /\ bound' = bound
        /\ target'[a] = target[a] \/ target'[a] = bound
    BY <1>9, <1>t DEF Rescue, SetStatus
  <2>. QED BY <2>1, <1>h, <1>m, <1>b, <1>t DEF OwnResponse
<1>10. CASE OrphanRead(a) \/ OrphanClear(a)
  <2>1. pc'[a] \in {"clear", "rescue", "over"} /\ target' = target /\ bound' = bound
    BY <1>10, <1>t DEF OrphanRead, OrphanClear, SetStatus
  <2>. QED BY <2>1, <1>b, <1>k DEF OwnResponse
<1>. QED BY <1>1, <1>2, <1>3, <1>4, <1>5, <1>6, <1>7, <1>8, <1>9, <1>10 DEF Execute

(* A step of an execution leaves what other executions know alone. *)
LEMMA OthersFrame ==
    ASSUME TypeInv, NEW a \in Attempts, Execute(a)
    PROVE  \A b \in Attempts : b # a =>
                /\ pc'[b] = pc[b] /\ target'[b] = target[b]
                /\ seen'[b] = seen[b] /\ hasEnd'[b] = hasEnd[b]
<1>1. \A b \in Attempts : b # a => pc'[b] = pc[b] /\ target'[b] = target[b]
  BY ExecutePlace
<1>. USE DEF Leave, Goto, local
<1>2. AssertLease(a) \/ LeaseLost(a) \/ BindDirect(a) \/ StreamText(a) \/ StreamStops(a) \/ StreamFails(a)
        => (\E v : seen' = [seen EXCEPT ![a] = v] \/ seen' = seen) /\ hasEnd' = hasEnd
  BY DEF AssertLease, LeaseLost, BindDirect, StreamText, StreamStops, StreamFails
<1>3. CompleteResponse(a) \/ StreamExcept(a) \/ FinishDirect(a) \/ LinkAgent(a) \/ LinkFails(a) \/ BindAgent(a)
        => (\E v : seen' = [seen EXCEPT ![a] = v] \/ seen' = seen) /\ hasEnd' = hasEnd
  BY DEF CompleteResponse, StreamExcept, FinishDirect, LinkAgent, LinkFails, BindAgent
<1>4. AgentLoop(a) \/ AgentAnswer(a) \/ AgentClose(a) \/ AgentFail(a) \/ AgentStopped(a) \/ Rescue(a)
      \/ OrphanClear(a)
        => (\E v : seen' = [seen EXCEPT ![a] = v] \/ seen' = seen) /\ hasEnd' = hasEnd
  BY DEF AgentLoop, AgentAnswer, AgentClose, AgentFail, AgentStopped, Rescue, OrphanClear
<1>5. OrphanRead(a)
        => (\E v : seen' = [seen EXCEPT ![a] = v]) /\ (\E v : hasEnd' = [hasEnd EXCEPT ![a] = v])
  BY DEF OrphanRead
<1>6. /\ \E v : seen' = [seen EXCEPT ![a] = v] \/ seen' = seen
      /\ \E v : hasEnd' = [hasEnd EXCEPT ![a] = v] \/ hasEnd' = hasEnd
  BY <1>2, <1>3, <1>4, <1>5 DEF Execute
<1>7. seen \in [Attempts -> RespStatus] /\ hasEnd \in [Attempts -> BOOLEAN]
  BY DEF TypeInv, TypeOK
<1>. QED BY <1>1, <1>6, <1>7

LEMMA ResponsesStep == TypeInv /\ FleetInv /\ ResponsesInv /\ [Next]_vars => ResponsesInv'
<1>. SUFFICES ASSUME TypeInv, FleetInv, ResponsesInv, [Next]_vars PROVE ResponsesInv'
  OBVIOUS
<1>m. /\ \A r \in Attempts : resp[r] # "none" => resp'[r] # "none"
      /\ mode' = mode
  BY ResponseStep
<1>t. /\ \A b \in Attempts : target[b] # 0 => target[b] \in Attempts
      /\ bound # 0 => bound \in Attempts
  BY InteractionAssumption DEF TypeInv, TypeOK, Attempts
<1>g. (\A a \in Attempts : OwnResponse(a)') /\ (bound' # 0 => resp'[bound'] # "none") => ResponsesInv'
  BY DEF ResponsesInv, OwnResponse
<1>h. (\A a \in Attempts : OwnResponse(a)) /\ (bound # 0 => resp[bound] # "none")
  BY DEF ResponsesInv, OwnResponse
<1>1. ASSUME NEW a \in Attempts, Execute(a) PROVE ResponsesInv'
  <2>1. OwnResponse(a)' /\ (bound' # 0 => resp'[bound'] # "none")
    BY <1>1, OwnResponseStep
  <2>2. ASSUME NEW b \in Attempts, b # a PROVE OwnResponse(b)'
    <3>1. pc'[b] = pc[b] /\ target'[b] = target[b] /\ seen'[b] = seen[b]
      BY <1>1, <2>2, OthersFrame
    <3>2. resp[b] = "none" => resp'[b] = "none"
      BY <1>1, <2>2, ExecuteResponse DEF Moves
    <3>. QED BY <1>h, <1>m, <1>t, <3>1, <3>2 DEF OwnResponse
  <2>. QED BY <1>g, <2>1, <2>2
<1>2. ASSUME NEW w \in Workers, Claim(w) PROVE ResponsesInv'
  <2>1. PICK n \in Attempts :
            /\ pc[n] = "none" /\ UNCHANGED <<mode, bound, resp, seen>>
            /\ pc'[n] = IF bound # 0 THEN "orphan"
                        ELSE IF mode = "direct" THEN "bind" ELSE "link"
            /\ target'[n] = bound
            /\ \A a \in Attempts : a # n => pc'[a] = pc[a] /\ target'[a] = target[a]
    BY <1>2, ClaimFrame DEF setting, outcome
  <2>2. OwnResponse(n)'
    <3>1. mode \in {"direct", "agent"}
      BY DEF TypeInv, TypeOK
    <3>2. resp[n] = "none"
      BY <1>h, <2>1 DEF OwnResponse
    <3>. QED BY <1>h, <2>1, <3>1, <3>2 DEF OwnResponse
  <2>3. \A a \in Attempts : a # n => OwnResponse(a)'
    BY <1>h, <2>1 DEF OwnResponse
  <2>. QED BY <1>g, <1>h, <2>1, <2>2, <2>3
<1>3. ASSUME NEW w \in Workers, Crash(w) \/ Drain(w) PROVE ResponsesInv'
  <2>1. /\ UNCHANGED <<mode, bound, resp, seen, target>>
        /\ \A a \in Attempts :
             /\ pc'[a] = pc[a] \/ pc'[a] = "over"
    BY <1>3, GoneFrame DEF setting, row, outcome, local
  <2>2. \A a \in Attempts : OwnResponse(a)'
    BY <1>h, <2>1 DEF OwnResponse
  <2>. QED BY <1>g, <1>h, <2>1, <2>2
<1>4. ASSUME NEW r \in Attempts, Cancel(r) PROVE ResponsesInv'
  <2>1. /\ resp[r] = "running" /\ \A q \in Attempts : q # r => resp'[q] = resp[q]
        /\ UNCHANGED <<bound, pc, target, seen>>
    BY <1>4, CancelResponse DEF local
  <2>2. \A a \in Attempts : OwnResponse(a)'
    BY <1>h, <1>m, <1>t, <2>1 DEF OwnResponse
  <2>. QED BY <1>g, <1>h, <1>m, <1>t, <2>1, <2>2
<1>5. CASE UNCHANGED <<mode, bound, resp, pc, target, seen>>
  BY <1>5, <1>g, <1>h DEF OwnResponse
<1>6. \A w \in Workers : Renew(w) \/ ReleaseClaims(w) => UNCHANGED <<mode, bound, resp, pc, target, seen>>
  BY DEF Renew, ReleaseClaims, SetStatus, setting, row, outcome, local
<1>7. Lapse \/ CancelTold \/ UNCHANGED vars => UNCHANGED <<mode, bound, resp, pc, target, seen>>
  BY DEF Lapse, CancelTold, vars, setting, row, outcome, local
<1>. QED BY <1>1, <1>2, <1>3, <1>4, <1>5, <1>6, <1>7 DEF Next

-----------------------------------------------------------------------------
(* The invariant so far. *)
InteractionInv == TypeInv /\ FleetInv /\ Alone /\ ResponsesInv

LEMMA InitInteraction == Init => InteractionInv
<1>. SUFFICES ASSUME Init PROVE InteractionInv
  OBVIOUS
<1>1. TypeInv
  BY InitType
<1>2. \A a \in Attempts : pc[a] = "none" /\ resp[a] = "none" /\ target[a] = 0
  BY DEF Init
<1>3. ~lapsed /\ owner = NoWorker /\ bound = 0 /\ cut = {} /\ mode \in {"direct", "agent"}
  BY DEF Init
<1>. QED BY <1>1, <1>2, <1>3 DEF InteractionInv, FleetInv, Alone, ResponsesInv, Active

LEMMA StepInteraction == InteractionInv /\ [Next]_vars => InteractionInv'
BY TypeStep, FleetStep, AloneStep, ResponsesStep DEF InteractionInv

THEOREM InteractionInvariant == Spec => []InteractionInv
BY InitInteraction, StepInteraction, PTL DEF Spec

(* Whatever crashes, overlaps, is canceled or is cleared up, every variable*)
(* stays of its type.                                                      *)
THEOREM InteractionTypeCorrect == Spec => []TypeOK
<1>1. InteractionInv => TypeOK
  BY DEF InteractionInv, TypeInv
<1>. QED BY InteractionInvariant, <1>1, PTL

(* With steady heartbeats an interaction has one execution, which is the   *)
(* last attempt and is renewed, for any number of workers and attempts.    *)
THEOREM OneExecutorHolds == Spec => []OneExecutor
<1>1. InteractionInv => OneExecutor
  <2>. SUFFICES ASSUME InteractionInv, steady, NEW a \in Attempts, Active(a)
                PROVE  /\ \A b \in Attempts : Active(b) => a = b
                       /\ attempt = a
                       /\ owner = wk[a] => hb[wk[a]] = a
    BY DEF OneExecutor
  <2>1. wk[a] # NoWorker
    BY InteractionAssumption DEF InteractionInv, TypeInv, TypeOK
  <2>. QED BY <2>1 DEF InteractionInv, Alone
<1>. QED BY InteractionInvariant, <1>1, PTL

(* The first to end a response decides, also where heartbeats starve and   *)
(* executions of the same interaction overlap.                             *)
THEOREM ResponseFinalHolds == Spec => ResponseFinal
<1>1. InteractionInv /\ [Next]_vars =>
        [\A r \in Attempts : resp[r] \in Ended => resp'[r] = resp[r]]_vars
  BY ResponseStep DEF InteractionInv
<1>. QED BY InteractionInvariant, <1>1, PTL DEF Spec, ResponseFinal

(* An attempt that was superseded before it checked its lease never begins *)
(* another guarded transaction.                                            *)
THEOREM SupersededStopsHolds == Spec => SupersededStops
<1>. DEFINE Stops == \A a \in Attempts :
                        attempt # a /\ pc[a] \in Guarded /\ ~ok[a] =>
                            ~ok'[a] /\ pc'[a] \in {pc[a], "over"}
<1>1. InteractionInv /\ [Next]_vars => [Stops]_vars
  <2>. SUFFICES ASSUME InteractionInv, [Next]_vars, NEW a \in Attempts,
                       attempt # a, pc[a] \in Guarded, ~ok[a]
                PROVE  ~ok'[a] /\ pc'[a] \in {pc[a], "over"}
    OBVIOUS
  <2>1. TypeInv /\ FleetInv
    BY DEF InteractionInv
  <2>2. ASSUME Execute(a) PROVE ~ok'[a] /\ pc'[a] \in {pc[a], "over"}
    <3>1. AssertLease(a) \/ LeaseLost(a)
      BY <2>2 DEF Execute, Guarded, BindDirect, StreamText, StreamStops, StreamFails, CompleteResponse,
                  StreamExcept, FinishDirect, LinkAgent, LinkFails, BindAgent, AgentLoop, AgentAnswer,
                  AgentClose, AgentFail, AgentStopped, Rescue, OrphanRead, OrphanClear
    <3>. QED BY <2>1, <3>1 DEF AssertLease, LeaseLost, Leave, Owned, local, TypeInv, TypeOK
  <2>3. ASSUME NEW b \in Attempts, b # a, Execute(b) PROVE ok'[a] = ok[a] /\ pc'[a] = pc[a]
    <3>1. pc'[a] = pc[a]
      BY <2>1, <2>3, OthersFrame
    <3>. USE DEF Leave, Goto, local
    <3>2. AssertLease(b) \/ LeaseLost(b) \/ BindDirect(b) \/ StreamText(b) \/ StreamStops(b) \/ StreamFails(b)
            => \E v : ok' = [ok EXCEPT ![b] = v] \/ ok' = ok
      BY DEF AssertLease, LeaseLost, BindDirect, StreamText, StreamStops, StreamFails
    <3>3. CompleteResponse(b) \/ StreamExcept(b) \/ FinishDirect(b) \/ LinkAgent(b) \/ LinkFails(b) \/ BindAgent(b)
            => \E v : ok' = [ok EXCEPT ![b] = v] \/ ok' = ok
      BY DEF CompleteResponse, StreamExcept, FinishDirect, LinkAgent, LinkFails, BindAgent
    <3>4. AgentLoop(b) \/ AgentAnswer(b) \/ AgentClose(b) \/ AgentFail(b) \/ AgentStopped(b) \/ Rescue(b)
            \/ OrphanRead(b) \/ OrphanClear(b)
            => \E v : ok' = [ok EXCEPT ![b] = v] \/ ok' = ok
      BY DEF AgentLoop, AgentAnswer, AgentClose, AgentFail, AgentStopped, Rescue, OrphanRead, OrphanClear
    <3>5. \E v : ok' = [ok EXCEPT ![b] = v] \/ ok' = ok
      BY <2>3, <3>2, <3>3, <3>4 DEF Execute
    <3>6. ok \in [Attempts -> BOOLEAN]
      BY <2>1 DEF TypeInv, TypeOK
    <3>. QED BY <2>3, <3>1, <3>5, <3>6
  <2>4. ASSUME NEW w \in Workers, Claim(w) PROVE ok'[a] = ok[a] /\ pc'[a] = pc[a]
    BY <2>1, <2>4, ClaimFrame DEF Guarded
  <2>5. ASSUME NEW w \in Workers, Crash(w) \/ Drain(w) PROVE ok'[a] = ok[a] /\ pc'[a] \in {pc[a], "over"}
    BY <2>1, <2>5, GoneFrame DEF local
  <2>6. ASSUME NEW w \in Workers, Renew(w) \/ ReleaseClaims(w) PROVE ok'[a] = ok[a] /\ pc'[a] = pc[a]
    BY <2>6 DEF Renew, ReleaseClaims, local
  <2>7. ASSUME NEW r \in Attempts, Cancel(r) PROVE ok'[a] = ok[a] /\ pc'[a] = pc[a]
    BY <2>7 DEF Cancel, local
  <2>8. Lapse \/ CancelTold \/ UNCHANGED vars => ok'[a] = ok[a] /\ pc'[a] = pc[a]
    BY DEF Lapse, CancelTold, vars, local
  <2>. QED BY <2>2, <2>3, <2>4, <2>5, <2>6, <2>7, <2>8 DEF Next
<1>. QED BY InteractionInvariant, <1>1, PTL DEF Spec, SupersededStops

(***************************************************************************)
(* How an interaction ends.                                                *)
(***************************************************************************)

LEMMA TameKept == [Next]_vars => UNCHANGED setting /\ (Tame' <=> Tame)
<1>. SUFFICES ASSUME [Next]_vars PROVE UNCHANGED setting
  BY DEF Tame, setting
<1>1. \A a \in Attempts : Execute(a) => UNCHANGED setting
  BY ExecuteFrame
<1>2. \A w \in Workers : Claim(w) \/ Renew(w) \/ Crash(w) \/ Drain(w) \/ ReleaseClaims(w) => UNCHANGED setting
  BY DEF Claim, Renew, Crash, Drain, ReleaseClaims
<1>3. \A r \in Attempts : Cancel(r) => UNCHANGED setting
  BY DEF Cancel
<1>4. Lapse \/ CancelTold \/ UNCHANGED vars => UNCHANGED setting
  BY DEF Lapse, CancelTold, vars
<1>. QED BY <1>1, <1>2, <1>3, <1>4 DEF Next

(* Nobody else is there when an execution steps, and nobody at all when    *)
(* the row is claimed or released.                                         *)
LEMMA AloneExecutes ==
    ASSUME InteractionInv, Tame, NEW a \in Attempts, Execute(a)
    PROVE  \A b \in Attempts : b # a => ~Active(b) /\ pc'[b] = pc[b]
BY ExecuteFrame, OthersFrame DEF InteractionInv, Alone, Tame

LEMMA NobodyClaimed ==
    ASSUME InteractionInv, Tame, NEW w \in Workers, Claim(w) \/ (ReleaseClaims(w) /\ owner = w)
    PROVE  \A a \in Attempts : ~Active(a)
BY ClaimedFree DEF InteractionInv, Tame

(* Where everyone else is, as far as a row that is bound is concerned. *)
LEMMA BoundStep == InteractionInv /\ Tame /\ BoundInv /\ [Next]_vars => BoundInv'
<1>. SUFFICES ASSUME InteractionInv, Tame, BoundInv, [Next]_vars PROVE BoundInv'
  OBVIOUS
<1>i. TypeInv /\ FleetInv /\ ResponsesInv
  BY DEF InteractionInv
<1>t. /\ pc \in [Attempts -> PC] /\ target \in [Attempts -> 0..MaxAttempts]
      /\ mode \in {"direct", "agent"}
  BY <1>i DEF TypeInv, TypeOK
<1>. HIDE DEF PC
<1>1. ASSUME NEW a \in Attempts, Execute(a) PROVE BoundInv'
  <2>1. \A b \in Attempts : b # a => pc'[b] \in {"none", "over"}
    BY <1>1, AloneExecutes DEF Active
  <2>. SUFFICES /\ pc'[a] \in {"bind", "link"} => bound' = 0
                /\ pc'[a] \in {"stream", "except", "finish", "loop", "answer", "close", "fail"}
                        => bound' = a
                /\ pc'[a] \in {"orphan", "clear"} => target'[a] = bound'
    BY <2>1 DEF BoundInv
  <2>h. /\ pc[a] \in {"bind", "link"} => bound = 0
        /\ pc[a] \in {"stream", "except", "finish", "loop", "answer", "close", "fail"} => bound = a
        /\ pc[a] \in {"orphan", "clear"} => target[a] = bound
    BY DEF BoundInv
  <2>. USE DEF Leave, Goto, SetStatus, local, row
  <2>2. CASE AssertLease(a) \/ LeaseLost(a)
    BY <2>2, <2>h, <1>t DEF AssertLease, LeaseLost
  <2>3. CASE BindDirect(a) \/ StreamText(a) \/ StreamStops(a) \/ StreamFails(a)
    BY <2>3, <2>h, <1>t DEF BindDirect, StreamText, StreamStops, StreamFails
  <2>4. CASE CompleteResponse(a) \/ StreamExcept(a) \/ FinishDirect(a)
    BY <2>4, <2>h, <1>t DEF CompleteResponse, StreamExcept, FinishDirect
  <2>5. CASE LinkAgent(a) \/ LinkFails(a) \/ BindAgent(a)
    BY <2>5, <2>h, <1>t DEF LinkAgent, LinkFails, BindAgent
  <2>6. CASE AgentLoop(a) \/ AgentAnswer(a)
    BY <2>6, <2>h, <1>t DEF AgentLoop, AgentAnswer
  <2>7. CASE AgentClose(a) \/ AgentFail(a) \/ AgentStopped(a)
    BY <2>7, <2>h, <1>t DEF AgentClose, AgentFail, AgentStopped
  <2>8. CASE Rescue(a)
    BY <2>8, <1>t DEF Rescue
  <2>9. CASE OrphanRead(a) \/ OrphanClear(a)
    BY <2>9, <2>h, <1>t DEF OrphanRead, OrphanClear
  <2>. QED BY <1>1, <2>2, <2>3, <2>4, <2>5, <2>6, <2>7, <2>8, <2>9 DEF Execute
<1>2. ASSUME NEW w \in Workers, Claim(w) PROVE BoundInv'
  <2>1. PICK n \in Attempts :
            /\ pc'[n] = IF bound # 0 THEN "orphan"
                        ELSE IF mode = "direct" THEN "bind" ELSE "link"
            /\ target'[n] = bound /\ bound' = bound
            /\ \A a \in Attempts : a # n => pc'[a] = pc[a]
    BY <1>2, <1>i, ClaimFrame
  <2>2. \A a \in Attempts : a # n => pc'[a] \in {"none", "over"}
    BY <1>2, <2>1, NobodyClaimed DEF Active
  <2>. QED BY <2>1, <2>2 DEF BoundInv
<1>3. ASSUME NEW w \in Workers, Crash(w) \/ Drain(w) PROVE BoundInv'
  BY <1>3, <1>i, GoneFrame DEF BoundInv, row, local
<1>4. ASSUME NEW r \in Attempts, Cancel(r) PROVE BoundInv'
  BY <1>4, <1>i, CancelResponse DEF BoundInv, local
<1>5. \A w \in Workers : Renew(w) \/ ReleaseClaims(w) => UNCHANGED <<bound, pc, target>>
  BY DEF Renew, ReleaseClaims, SetStatus, row, local
<1>6. Lapse \/ CancelTold \/ UNCHANGED vars => UNCHANGED <<bound, pc, target>>
  BY DEF Lapse, CancelTold, vars, row, local
<1>7. CASE UNCHANGED <<bound, pc, target>>
  BY <1>7 DEF BoundInv
<1>. QED BY <1>1, <1>2, <1>3, <1>4, <1>5, <1>6, <1>7 DEF Next

(* No execution cancels a response or a run. *)
LEMMA ExecuteCancelsNone ==
    ASSUME TypeInv, NEW a \in Attempts, Execute(a), NEW r \in Attempts
    PROVE  (resp'[r] = "canceled" => resp[r] = "canceled")
           /\ (run'[r] = "canceled" => run[r] = "canceled")
<1>t. resp \in [Attempts -> RespStatus] /\ run \in [Attempts -> RespStatus]
  BY DEF TypeInv, TypeOK
<1>. HIDE DEF RespStatus
<1>. USE DEF Leave, Goto, outcome
<1>1. CASE AssertLease(a) \/ LeaseLost(a) \/ StreamText(a) \/ StreamStops(a) \/ StreamFails(a)
           \/ LinkFails(a) \/ BindAgent(a) \/ AgentLoop(a) \/ AgentAnswer(a)
           \/ AgentStopped(a) \/ Rescue(a) \/ OrphanRead(a)
  BY <1>1 DEF AssertLease, LeaseLost, StreamText, StreamStops, StreamFails, LinkFails,
              BindAgent, AgentLoop, AgentAnswer, AgentStopped, Rescue, OrphanRead
<1>2. CASE BindDirect(a) \/ LinkAgent(a) \/ CompleteResponse(a)
  BY <1>2, <1>t DEF BindDirect, LinkAgent, CompleteResponse
<1>3. CASE StreamExcept(a) \/ FinishDirect(a)
  BY <1>3, <1>t DEF StreamExcept, FinishDirect
<1>4. CASE AgentClose(a) \/ AgentFail(a)
  BY <1>4, <1>t DEF AgentClose, AgentFail
<1>5. CASE OrphanClear(a)
  BY <1>5, <1>t DEF OrphanClear
<1>. QED BY <1>1, <1>2, <1>3, <1>4, <1>5 DEF Execute

LEMMA ModeStep == InteractionInv /\ Tame /\ BoundInv /\ ModeInv /\ [Next]_vars => ModeInv'
<1>. SUFFICES ASSUME InteractionInv, Tame, BoundInv, ModeInv, [Next]_vars PROVE ModeInv'
  OBVIOUS
<1>i. TypeInv /\ FleetInv /\ ResponsesInv
  BY DEF InteractionInv
<1>m. UNCHANGED setting /\ mode \in {"direct", "agent"}
  BY <1>i, TameKept DEF TypeInv, TypeOK
<1>t. /\ pc \in [Attempts -> PC] /\ resp \in [Attempts -> RespStatus] /\ run \in [Attempts -> RespStatus]
      /\ 0 \notin Attempts
  BY <1>i DEF TypeInv, TypeOK, Attempts
<1>. HIDE DEF PC, RespStatus
<1>1. ASSUME NEW a \in Attempts, Execute(a) PROVE ModeInv'
  <2>1. \A b \in Attempts : b # a => ~Active(b) /\ pc'[b] = pc[b]
    BY <1>1, AloneExecutes
  <2>2. mode = "direct" => \A r \in Attempts : resp'[r] # "none" => r = bound'
    <3>. SUFFICES ASSUME mode = "direct", NEW r \in Attempts, resp'[r] # "none" PROVE r = bound'
      OBVIOUS
    <3>1. CASE Binds(a)
      <4>1. bound = 0 /\ bound' = a
        BY <3>1 DEF Binds, BoundInv
      <4>2. resp[r] = "none"
        BY <1>t, <4>1 DEF ModeInv
      <4>3. Moves(r, a)
        BY <1>1, <1>i, <4>2, ExecuteResponse
      <4>. QED BY <4>1, <4>2, <4>3 DEF Moves
    <3>2. CASE ~Binds(a)
      <4>1. bound' = bound
        BY <1>1, <3>2, ExecuteRow DEF EndsRow, row
      <4>2. CASE resp[r] = "none"
        <5>1. r = a /\ pc[a] \in {"bind", "link"} /\ resp'[r] = "running"
          BY <1>1, <1>i, <4>2, ExecuteResponse DEF Moves
        <5>2. pc[a] = "bind"
          BY <1>i, <5>1 DEF ResponsesInv
        <5>3. BindDirect(a) \/ AssertLease(a) \/ LeaseLost(a)
          BY <1>1, <5>2 DEF Execute, BindAgent, Guarded, BindDirect, StreamText, StreamStops, StreamFails,
              CompleteResponse, StreamExcept, FinishDirect, LinkAgent, LinkFails, AgentLoop, AgentAnswer,
              AgentClose, AgentFail, AgentStopped, Rescue, OrphanRead, OrphanClear
        <5>4. BindDirect(a)
          BY <5>3, <4>2, <5>1 DEF AssertLease, LeaseLost, Leave, outcome
        <5>. QED BY <3>2, <5>4 DEF BindDirect, Binds
      <4>3. CASE resp[r] # "none"
        BY <4>1, <4>3 DEF ModeInv
      <4>. QED BY <4>2, <4>3
    <3>. QED BY <3>1, <3>2
  <2>3. mode = "agent" =>
            /\ \A b \in Attempts : resp'[b] # "canceled" /\ run'[b] # "canceled"
            /\ pc'[a] # "stopped"
            /\ pc'[a] \in {"bind", "loop", "answer", "close", "fail"} =>
                    resp'[a] = "running" /\ run'[a] = "running"
    <3>. SUFFICES ASSUME mode = "agent" 
                  PROVE  /\ \A b \in Attempts : resp'[b] # "canceled" /\ run'[b] # "canceled"
                         /\ pc'[a] # "stopped"
                         /\ pc'[a] \in {"bind", "loop", "answer", "close", "fail"} =>
                                resp'[a] = "running" /\ run'[a] = "running"
      OBVIOUS
    <3>h. /\ \A b \in Attempts : resp[b] # "canceled" /\ run[b] # "canceled"
          /\ pc[a] \notin {"stopped", "stream", "except", "finish"}
          /\ pc[a] \in {"bind", "loop", "answer", "close", "fail"} =>
                    resp[a] = "running" /\ run[a] = "running"
      BY <1>i DEF ModeInv, ResponsesInv
    <3>1. \A b \in Attempts : resp'[b] # "canceled" /\ run'[b] # "canceled"
      BY <1>1, <1>i, <3>h, ExecuteCancelsNone
    <3>. USE DEF Leave, Goto, outcome
    <3>2. CASE AssertLease(a) \/ LeaseLost(a)
      BY <3>1, <3>2, <3>h, <1>t DEF AssertLease, LeaseLost
    <3>3. CASE LinkAgent(a) \/ LinkFails(a) \/ BindAgent(a)
      BY <3>1, <3>3, <3>h, <1>t DEF LinkAgent, LinkFails, BindAgent
    <3>4. CASE AgentLoop(a) \/ AgentAnswer(a) \/ AgentClose(a) \/ AgentFail(a) \/ AgentStopped(a)
      BY <3>1, <3>4, <3>h, <1>t DEF AgentLoop, AgentAnswer, AgentClose, AgentFail, AgentStopped
    <3>5. CASE Rescue(a) \/ OrphanRead(a) \/ OrphanClear(a)
      BY <3>1, <3>5, <1>t DEF Rescue, OrphanRead, OrphanClear
    <3>6. ~BindDirect(a) /\ pc[a] \notin {"stream", "except", "finish"}
      BY <3>h DEF BindDirect
    <3>. QED BY <1>1, <3>2, <3>3, <3>4, <3>5, <3>6
             DEF Execute, StreamText, StreamStops, StreamFails, CompleteResponse, StreamExcept, FinishDirect
  <2>4. Active(a)' /\ status' # "running" => mode = "direct" /\ bound' # 0
    <3>. SUFFICES ASSUME Active(a)', status' # "running" PROVE mode = "direct" /\ bound' # 0
      OBVIOUS
    <3>1. pc'[a] # "over"
      BY DEF Active
    <3>2. UNCHANGED row
      BY <1>1, <1>t, <3>1, ExecuteRow DEF Binds
    <3>3. Active(a)
      BY <1>1, ExecuteFrame
    <3>. QED BY <3>2, <3>3 DEF ModeInv, row
  <2>. HIDE DEF Active
  <2>5. \A b \in Attempts : b # a => Active(b)' = Active(b)
    BY <2>1 DEF Active
  <2>6. mode = "agent" => \A b \in Attempts : b # a =>
            pc'[b] \notin {"bind", "loop", "answer", "close", "fail", "stopped"}
    BY <2>1 DEF Active
  <2>. QED BY <1>m, <2>1, <2>2, <2>3, <2>4, <2>5, <2>6 DEF ModeInv, setting
<1>2. ASSUME NEW w \in Workers, Claim(w) PROVE ModeInv'
  <2>1. PICK n \in Attempts :
            /\ pc'[n] = IF bound # 0 THEN "orphan"
                        ELSE IF mode = "direct" THEN "bind" ELSE "link"
            /\ UNCHANGED <<bound, resp, run>> /\ status' = "running"
            /\ \A a \in Attempts : a # n => pc'[a] = pc[a]
    BY <1>2, <1>i, ClaimFrame DEF outcome
  <2>. QED BY <2>1, <1>m DEF ModeInv, setting
<1>3. ASSUME NEW w \in Workers, Crash(w) \/ Drain(w) PROVE ModeInv'
  <2>1. /\ UNCHANGED <<row, outcome>> /\ \A a \in Attempts : pc'[a] = pc[a] \/ pc'[a] = "over"
    BY <1>3, <1>i, GoneFrame
  <2>. QED BY <2>1, <1>m DEF ModeInv, Active, row, outcome, setting
<1>4. ASSUME NEW r \in Attempts, Cancel(r) PROVE ModeInv'
  <2>1. mode = "direct"
    BY <1>4, <1>m DEF Cancel, Tame
  <2>2. /\ resp[r] = "running" /\ \A q \in Attempts : q # r => resp'[q] = resp[q]
        /\ bound' = bound
    BY <1>4, <1>i, CancelResponse
  <2>3. r = bound /\ bound # 0
    BY <1>t, <2>1, <2>2 DEF ModeInv
  <2>. QED BY <1>m, <2>1, <2>2, <2>3 DEF ModeInv, setting
<1>5. ASSUME NEW w \in Workers, ReleaseClaims(w) PROVE ModeInv'
  <2>1. UNCHANGED <<bound, resp, run, pc>>
    BY <1>5 DEF ReleaseClaims, SetStatus, row, outcome
  <2>2. CASE owner = w
    <3>1. \A a \in Attempts : ~Active(a)
      BY <1>5, <2>2, NobodyClaimed
    <3>. QED BY <1>m, <2>1, <3>1 DEF ModeInv, Active, setting
  <2>3. CASE owner # w
    <3>1. UNCHANGED row
      BY <1>5, <2>3 DEF ReleaseClaims, Releasable
    <3>. QED BY <1>m, <2>1, <3>1 DEF ModeInv, Active, setting, row
  <2>. QED BY <2>2, <2>3
<1>6. \A w \in Workers : Renew(w) => UNCHANGED <<status, bound, resp, run, pc>>
  BY DEF Renew, outcome
<1>7. Lapse \/ CancelTold \/ UNCHANGED vars => UNCHANGED <<status, bound, resp, run, pc>>
  BY DEF Lapse, CancelTold, vars, row, outcome
<1>8. CASE UNCHANGED <<status, bound, resp, run, pc>>
  BY <1>8, <1>m DEF ModeInv, Active, setting
<1>. QED BY <1>1, <1>2, <1>3, <1>4, <1>5, <1>6, <1>7, <1>8 DEF Next

(* What a session has seen end stays as it saw it. *)
LEMMA SeenStep == InteractionInv /\ Tame /\ SeenInv /\ [Next]_vars => SeenInv'
<1>. SUFFICES ASSUME InteractionInv, Tame, SeenInv, [Next]_vars PROVE SeenInv'
  OBVIOUS
<1>i. TypeInv /\ FleetInv /\ ResponsesInv
  BY DEF InteractionInv
<1>t. /\ pc \in [Attempts -> PC] /\ resp \in [Attempts -> RespStatus] /\ seen \in [Attempts -> RespStatus]
      /\ target \in [Attempts -> 0..MaxAttempts]
      /\ "running" \notin Ended
  BY <1>i DEF TypeInv, TypeOK, Ended
<1>k. \A a \in Attempts : pc[a] \in {"orphan", "clear"} => target[a] \in Attempts
  BY <1>i DEF TypeInv, TargetsKnown
<1>r. \A r \in Attempts : resp[r] \in Ended => resp'[r] = resp[r]
  BY <1>i, ResponseStep
<1>. HIDE DEF PC, RespStatus
<1>1. ASSUME NEW a \in Attempts, Execute(a) PROVE SeenInv'
  <2>1. \A b \in Attempts : b # a => pc'[b] \in {"none", "over"}
    BY <1>1, AloneExecutes DEF Active
  <2>. DEFINE Own == /\ pc'[a] \in {"stream", "except"} => resp'[a] \in {"running", "canceled"}
                     /\ pc'[a] = "except" /\ seen'[a] \in Ended => resp'[a] = seen'[a]
                     /\ pc'[a] = "finish" => resp'[a] = "succeeded"
                     /\ pc'[a] = "clear" /\ seen'[a] \in Ended => resp'[target'[a]] = seen'[a]
  <2>. SUFFICES Own
    BY <2>1 DEF SeenInv
  <2>h. /\ pc[a] \in {"stream", "except"} => resp[a] \in {"running", "canceled"}
        /\ pc[a] = "except" /\ seen[a] \in Ended => resp[a] = seen[a]
        /\ pc[a] = "finish" => resp[a] = "succeeded"
        /\ pc[a] = "clear" /\ seen[a] \in Ended => resp[target[a]] = seen[a]
        /\ pc[a] = "stream" => seen[a] = "running"
    BY <1>i DEF SeenInv, ResponsesInv
  <2>. USE DEF Leave, Goto, SetStatus, local, outcome
  <2>2. CASE AssertLease(a) \/ LeaseLost(a)
    BY <2>2, <2>h, <1>t DEF AssertLease, LeaseLost
  <2>3. CASE BindDirect(a) \/ StreamText(a) \/ StreamStops(a) \/ StreamFails(a)
    BY <2>3, <2>h, <1>t DEF BindDirect, StreamText, StreamStops, StreamFails
  <2>4. CASE CompleteResponse(a)
    BY <2>4, <2>h, <1>t DEF CompleteResponse
  <2>5. CASE OrphanRead(a)
    BY <2>5, <1>t, <1>k DEF OrphanRead
  <2>6. CASE pc'[a] \in {"bind", "loop", "answer", "close", "fail", "stopped", "orphan", "rescue", "over"}
    BY <2>6
  <2>7. CASE StreamExcept(a) \/ FinishDirect(a) \/ LinkAgent(a) \/ LinkFails(a) \/ BindAgent(a)
    <3>1. pc'[a] \in {"bind", "loop", "rescue", "over"}
      BY <2>7, <1>t DEF StreamExcept, FinishDirect, LinkAgent, LinkFails, BindAgent
    <3>. QED BY <2>6, <3>1
  <2>8. CASE AgentLoop(a) \/ AgentAnswer(a) \/ AgentClose(a) \/ AgentFail(a) \/ AgentStopped(a)
    <3>1. pc'[a] \in {"stopped", "answer", "close", "fail", "over"}
      BY <2>8, <1>t DEF AgentLoop, AgentAnswer, AgentClose, AgentFail, AgentStopped
    <3>. QED BY <2>6, <3>1
  <2>9. CASE Rescue(a) \/ OrphanClear(a)
    <3>1. pc'[a] \in {"orphan", "rescue", "over"}
      BY <2>9, <1>t DEF Rescue, OrphanClear
    <3>. QED BY <2>6, <3>1
  <2>. HIDE DEF Own
  <2>. QED BY <1>1, <2>2, <2>3, <2>4, <2>5, <2>7, <2>8, <2>9 DEF Execute
<1>2. ASSUME NEW w \in Workers, Claim(w) PROVE SeenInv'
  <2>1. PICK n \in Attempts :
            /\ pc'[n] \in {"orphan", "bind", "link"}
            /\ UNCHANGED <<resp, seen>>
            /\ \A a \in Attempts : a # n => pc'[a] = pc[a] /\ target'[a] = target[a]
    BY <1>2, <1>i, ClaimFrame DEF outcome
  <2>. QED BY <2>1 DEF SeenInv
<1>3. ASSUME NEW w \in Workers, Crash(w) \/ Drain(w) PROVE SeenInv'
  <2>1. /\ UNCHANGED <<resp, seen, target>>
        /\ \A a \in Attempts : pc'[a] = pc[a] \/ pc'[a] = "over"
    BY <1>3, <1>i, GoneFrame DEF outcome, local
  <2>. QED BY <2>1 DEF SeenInv
<1>4. ASSUME NEW r \in Attempts, Cancel(r) PROVE SeenInv'
  <2>1. /\ resp[r] = "running" /\ resp'[r] = "canceled"
        /\ \A q \in Attempts : q # r => resp'[q] = resp[q]
        /\ UNCHANGED <<pc, seen, target>>
    BY <1>4, <1>i, CancelResponse DEF local
  <2>. QED BY <2>1, <1>r, <1>k, <1>t DEF SeenInv, Ended
<1>5. \A w \in Workers : Renew(w) \/ ReleaseClaims(w) => UNCHANGED <<resp, seen, pc, target>>
  BY DEF Renew, ReleaseClaims, outcome, local
<1>6. Lapse \/ CancelTold \/ UNCHANGED vars => UNCHANGED <<resp, seen, pc, target>>
  BY DEF Lapse, CancelTold, vars, outcome, local
<1>7. CASE UNCHANGED <<resp, seen, pc, target>>
  BY <1>7 DEF SeenInv
<1>. QED BY <1>1, <1>2, <1>3, <1>4, <1>5, <1>6, <1>7 DEF Next

(* Whoever ends the row knows how the bound response ended. *)
LEMMA VerdictStep ==
    InteractionInv /\ Tame /\ BoundInv /\ ModeInv /\ SeenInv /\ VerdictAgrees /\ [Next]_vars
        => VerdictAgrees'
<1>. SUFFICES ASSUME InteractionInv, Tame, BoundInv, ModeInv, SeenInv, VerdictAgrees, [Next]_vars,
                     status' \in Ended, bound' # 0
              PROVE  status' = resp'[bound']
  BY DEF VerdictAgrees
<1>i. TypeInv /\ FleetInv /\ ResponsesInv
  BY DEF InteractionInv
<1>t. /\ resp \in [Attempts -> RespStatus] /\ target \in [Attempts -> 0..MaxAttempts]
      /\ mode \in {"direct", "agent"} /\ (bound # 0 => bound \in Attempts)
      /\ "running" \notin Ended /\ "queued" \notin Ended
  BY <1>i, InteractionAssumption DEF TypeInv, TypeOK, Ended, Attempts
<1>k. \A a \in Attempts : pc[a] \in {"orphan", "clear"} => target[a] \in Attempts
  BY <1>i DEF TypeInv, TargetsKnown
<1>r. \A r \in Attempts : resp[r] \in Ended => resp'[r] = resp[r]
  BY <1>i, ResponseStep
<1>u. CASE UNCHANGED <<status, bound>>
  BY <1>u, <1>r, <1>t DEF VerdictAgrees
<1>. HIDE DEF PC, RespStatus
<1>1. ASSUME NEW a \in Attempts, Execute(a) PROVE status' = resp'[bound']
  <2>1. ~Binds(a)
    BY <1>t DEF Binds
  <2>2. CASE UNCHANGED row
    BY <1>u, <2>2 DEF row
  <2>3. CASE EndsRow /\ status' # status
    <3>b. bound' = bound
      BY <2>3 DEF EndsRow
    <3>h. /\ pc[a] \in {"stream", "except", "finish", "loop", "answer", "close", "fail"} => bound = a
          /\ pc[a] = "clear" => target[a] = bound
          /\ pc[a] = "except" /\ seen[a] \in Ended => resp[a] = seen[a]
          /\ pc[a] = "finish" => resp[a] = "succeeded"
          /\ pc[a] = "clear" /\ seen[a] \in Ended => resp[target[a]] = seen[a]
          /\ pc[a] = "stream" => seen[a] = "running"
      BY <1>i DEF SeenInv, ResponsesInv, BoundInv
    <3>c. pc[a] # "stopped" /\ (pc[a] = "fail" => resp[a] = "running")
      BY <1>i, <1>t DEF ModeInv, ResponsesInv
    <3>. USE DEF Leave, SetStatus
    <3>1. CASE StreamStops(a)
      <4>1. pc[a] = "except" /\ seen[a] = "canceled" /\ status' = "canceled" /\ resp' = resp
        BY <3>1, <3>h DEF StreamStops, PollCanceled, outcome
      <4>. QED BY <4>1, <3>b, <3>h DEF Ended
    <3>2. CASE StreamExcept(a) \/ FinishDirect(a)
      BY <2>3, <3>2, <3>b, <3>h, <1>t DEF StreamExcept, FinishDirect, Goto, row
    <3>3. CASE AgentClose(a) \/ AgentFail(a)
      BY <2>3, <3>3, <3>b, <3>c, <3>h, <1>t DEF AgentClose, AgentFail, Goto, row
    <3>4. CASE Rescue(a)
      BY <2>3, <3>4, <3>b DEF Rescue, row
    <3>5. CASE OrphanClear(a)
      <4>1. /\ target[a] \in Attempts /\ target[a] = bound /\ status' = Verdict(a)
            /\ resp' = [resp EXCEPT ![target[a]] =
                            IF seen[a] \in {"succeeded", "canceled"} THEN @ ELSE "failed"]
        BY <2>3, <3>5, <3>h, <1>k DEF OrphanClear, Goto, row
      <4>2. CASE seen[a] \in {"succeeded", "canceled"}
        <5>1. resp[target[a]] = seen[a] /\ Verdict(a) = seen[a]
          BY <4>2, <3>5, <3>h DEF OrphanClear, Ended, Verdict
        <5>. QED BY <4>1, <4>2, <5>1, <3>b, <1>t
      <4>3. CASE seen[a] \notin {"succeeded", "canceled"}
        BY <4>1, <4>3, <3>b, <1>t DEF Verdict
      <4>. QED BY <4>2, <4>3
    <3>6. CASE ~StreamStops(a) /\ ~StreamExcept(a) /\ ~FinishDirect(a) /\ ~AgentClose(a)
               /\ ~AgentFail(a) /\ ~Rescue(a) /\ ~OrphanClear(a)
      <4>1. Binds(a) \/ status' = status
        BY <1>1, <3>6, <3>c DEF Execute, AssertLease, LeaseLost, BindDirect, StreamText, StreamFails,
              CompleteResponse, LinkAgent, LinkFails, BindAgent, AgentLoop, AgentAnswer, AgentStopped,
              OrphanRead, Goto, row, Binds
      <4>. QED BY <2>1, <2>3, <4>1
    <3>. QED BY <3>1, <3>2, <3>3, <3>4, <3>5, <3>6
  <2>4. CASE EndsRow /\ status' = status
    BY <1>u, <2>4 DEF EndsRow
  <2>. QED BY <1>1, <2>1, <2>2, <2>3, <2>4, ExecuteRow
<1>2. ASSUME NEW w \in Workers, Claim(w) PROVE FALSE
  BY <1>2, <1>t DEF Claim
<1>3. ASSUME NEW w \in Workers, Crash(w) \/ Drain(w) PROVE UNCHANGED <<status, bound>>
  BY <1>3 DEF Crash, Drain, row
<1>4. ASSUME NEW r \in Attempts, Cancel(r) PROVE status' = resp'[bound']
  <2>1. resp[r] = "running" /\ resp'[r] = "canceled" /\ bound' = bound /\ status' = "canceled"
    BY <1>4, <1>i, CancelResponse
  <2>2. mode = "direct"
    BY <1>4, <1>t DEF Cancel, Tame
  <2>3. r = bound
    BY <2>1, <2>2 DEF ModeInv
  <2>. QED BY <2>1, <2>3
<1>5. ASSUME NEW w \in Workers, ReleaseClaims(w) PROVE UNCHANGED <<status, bound>>
  BY <1>5, <1>t DEF ReleaseClaims, SetStatus, row
<1>6. \A w \in Workers : Renew(w) => UNCHANGED <<status, bound>>
  BY DEF Renew
<1>7. Lapse \/ CancelTold \/ UNCHANGED vars => UNCHANGED <<status, bound>>
  BY DEF Lapse, CancelTold, vars, row
<1>. QED BY <1>u, <1>1, <1>2, <1>3, <1>4, <1>5, <1>6, <1>7 DEF Next

LEMMA InitTame == Init => TameInv
<1>. SUFFICES ASSUME Init PROVE TameInv
  OBVIOUS
<1>1. \A a \in Attempts : pc[a] = "none" /\ resp[a] = "none" /\ run[a] = "none"
  BY DEF Init
<1>. QED BY <1>1 DEF Init, TameInv, BoundInv, ModeInv, SeenInv, VerdictAgrees, Active

LEMMA TameStep == InteractionInv /\ TameInv /\ [Next]_vars => TameInv'
BY TameKept, BoundStep, ModeStep, SeenStep, VerdictStep DEF TameInv

THEOREM TameInvariant == Spec => [](InteractionInv /\ TameInv)
<1>1. Init => InteractionInv /\ TameInv
  BY InitInteraction, InitTame
<1>2. (InteractionInv /\ TameInv) /\ [Next]_vars => (InteractionInv /\ TameInv)'
  BY StepInteraction, TameStep
<1>. QED BY <1>1, <1>2, PTL DEF Spec

(* Where heartbeats arrive, an interaction ends the way its response did,  *)
(* although every path that ends the row writes it without a look at the   *)
(* response's.                                                             *)
THEOREM OutcomeAgreesHolds == Spec => []OutcomeAgrees
<1>1. InteractionInv /\ TameInv => OutcomeAgrees
  BY DEF TameInv, VerdictAgrees, OutcomeAgrees
<1>. QED BY TameInvariant, <1>1, PTL

(***************************************************************************)
(* The interaction is a leased work row.                                   *)
(***************************************************************************)
WorkPhase ==
    IF ~Tame \/ status = "queued" THEN "ready"
    ELSE IF status = "running" THEN "held" ELSE "over"
WorkAttempt == IF Tame THEN attempt ELSE 0
WorkLive ==
    IF Tame /\ \E a \in Attempts : Active(a)
    THEN CHOOSE a \in Attempts : Active(a) ELSE 0

LEMMA LiveIs ==
    ASSUME Alone, Tame
    PROVE  /\ \A a \in Attempts : Active(a) => WorkLive = a
           /\ (\A a \in Attempts : ~Active(a)) => WorkLive = 0
<1>1. \A a, b \in Attempts : Active(a) /\ Active(b) => a = b
  BY DEF Alone, Tame
<1>. HIDE DEF Active
<1>. QED BY <1>1 DEF WorkLive

LEMMA LiveIsNext ==
    ASSUME Alone', Tame'
    PROVE  /\ \A a \in Attempts : Active(a)' => WorkLive' = a
           /\ (\A a \in Attempts : ~Active(a)') => WorkLive' = 0
<1>1. \A a, b \in Attempts : Active(a)' /\ Active(b)' => a = b
  BY DEF Alone, Tame
<1>. DEFINE Act(a) == Active(a)'
<1>2. WorkLive' = IF \E a \in Attempts : Act(a) THEN CHOOSE a \in Attempts : Act(a) ELSE 0
  BY DEF WorkLive
<1>3. \A a, b \in Attempts : Act(a) /\ Act(b) => a = b
  BY <1>1
<1>. HIDE DEF Act
<1>4. /\ \A a \in Attempts : Act(a) => WorkLive' = a
      /\ (\A a \in Attempts : ~Act(a)) => WorkLive' = 0
  BY <1>2, <1>3
<1>. QED BY <1>4 DEF Act

(* The executing attempt steps on or stops; the row does what the work row *)
(* may do.                                                                 *)
WorkMoves ==
    /\ WorkLive' \in {WorkLive, 0}
    /\ attempt' = attempt
    /\ \/ status' = status
       \/ status' \in Ended

LEMMA WorkMapped ==
    ASSUME TypeInv, Tame, Tame', WorkMoves
    PROVE  [Work!WorkNext]_(Work!work)
<1>1. status \in {"queued", "running"} \cup Ended
  BY DEF TypeInv, TypeOK
<1>2. CASE WorkPhase' = WorkPhase
  <2>1. \/ WorkLive' = WorkLive
        \/ WorkLive # 0 /\ WorkLive' = 0
    BY DEF WorkMoves
  <2>2. WorkAttempt' = WorkAttempt
    BY DEF WorkMoves, WorkAttempt
  <2>3. CASE WorkLive' = WorkLive
    BY <1>2, <2>2, <2>3 DEF Work!work, WorkPhase, WorkAttempt, WorkLive
  <2>4. CASE WorkLive # 0 /\ WorkLive' = 0
    <3>1. Work!Stop
      BY <1>2, <2>2, <2>4 DEF Work!Stop, WorkPhase, WorkAttempt, WorkLive
    <3>. QED BY <3>1 DEF Work!WorkNext
  <2>. QED BY <2>1, <2>3, <2>4
<1>3. CASE WorkPhase' # WorkPhase
  <2>1. WorkPhase \in {"ready", "held"} /\ WorkPhase' = "over" /\ WorkAttempt' = WorkAttempt
    BY <1>1, <1>3 DEF WorkMoves, WorkPhase, WorkAttempt, Ended
  <2>2. WorkLive' \in {WorkLive, 0}
    BY DEF WorkMoves
  <2>3. Work!End
    BY <2>1, <2>2 DEF Work!End, WorkPhase, WorkAttempt, WorkLive
  <2>. QED BY <2>3 DEF Work!WorkNext
<1>. QED BY <1>2, <1>3

LEMMA WorkStep ==
    InteractionInv /\ InteractionInv' /\ TameInv /\ [Next]_vars => [Work!WorkNext]_(Work!work)
<1>. SUFFICES ASSUME InteractionInv, InteractionInv', TameInv, [Next]_vars
              PROVE  [Work!WorkNext]_(Work!work)
  OBVIOUS
<1>k. Tame' <=> Tame
  BY TameKept
<1>0. CASE ~Tame
  <2>1. WorkPhase' = WorkPhase /\ WorkAttempt' = WorkAttempt /\ WorkLive' = WorkLive
    BY <1>0, <1>k DEF WorkPhase, WorkAttempt, WorkLive
  <2>. QED BY <2>1 DEF Work!work, WorkPhase, WorkAttempt, WorkLive
<1>. SUFFICES ASSUME Tame PROVE [Work!WorkNext]_(Work!work)
  BY <1>0
<1>i. /\ TypeInv /\ FleetInv /\ ResponsesInv /\ Alone /\ Alone' /\ Tame'
      /\ BoundInv /\ ModeInv
  BY <1>k DEF InteractionInv, TameInv
<1>g. WorkMoves => [Work!WorkNext]_(Work!work)
  BY <1>i, WorkMapped
<1>l. (\A a \in Attempts : pc'[a] = pc[a] \/ pc'[a] = "over") => WorkLive' \in {WorkLive, 0}
  <2>. SUFFICES ASSUME \A a \in Attempts : pc'[a] = pc[a] \/ pc'[a] = "over"
                PROVE  WorkLive' \in {WorkLive, 0}
    OBVIOUS
  <2>1. \A a \in Attempts : Active(a)' => Active(a)
    BY DEF Active
  <2>. HIDE DEF Active
  <2>. QED BY <1>i, <2>1, LiveIs, LiveIsNext
<1>1. ASSUME NEW a \in Attempts, Execute(a) PROVE [Work!WorkNext]_(Work!work)
  <2>1. Active(a) /\ attempt' = attempt
    BY <1>1, ExecuteFrame
  <2>2. \A b \in Attempts : b # a => ~Active(b)'
    BY <1>1, AloneExecutes DEF Active
  <2>3. WorkLive' \in {WorkLive, 0}
    <3>1. WorkLive = a
      BY <1>i, <2>1, LiveIs
    <3>2. WorkLive' = a \/ WorkLive' = 0
      BY <1>i, <2>2, LiveIsNext
    <3>. QED BY <3>1, <3>2
  <2>4. status' = status \/ status' \in Ended
    <3>1. Binds(a) => status = "running"
      BY <1>i, <2>1 DEF Binds, BoundInv, ModeInv
    <3>. QED BY <1>1, <3>1, ExecuteRow DEF Binds, EndsRow, row
  <2>. QED BY <1>g, <2>1, <2>3, <2>4 DEF WorkMoves
<1>2. ASSUME NEW w \in Workers, Claim(w) PROVE [Work!WorkNext]_(Work!work)
  <2>1. \A a \in Attempts : ~Active(a)
    BY <1>2, NobodyClaimed
  <2>2. WorkLive = 0
    BY <1>i, <2>1, LiveIs
  <2>3. /\ attempt' = attempt + 1 /\ attempt' \in Attempts /\ status' = "running"
        /\ pc'[attempt'] \in {"orphan", "bind", "link"}
    BY <1>2, <1>i, ClaimFrame
  <2>4. PICK n \in Attempts : n = attempt' /\ pc'[n] \in {"orphan", "bind", "link"}
    BY <2>3
  <2>5. WorkLive' = attempt'
    <3>1. Active(n)'
      BY <2>4 DEF Active
    <3>. QED BY <1>i, <2>4, <3>1, LiveIsNext
  <2>6. attempt < MaxAttempts /\ status \in {"queued", "running"}
    BY <1>2 DEF Claim, Claimable
  <2>7. /\ WorkPhase \in {"ready", "held"} /\ WorkPhase' = "held"
        /\ WorkAttempt < MaxAttempts /\ WorkAttempt' = WorkAttempt + 1
        /\ WorkLive' = WorkAttempt'
    BY <1>i, <2>3, <2>5, <2>6 DEF WorkPhase, WorkAttempt
  <2>8. Work!Take
    BY <2>2, <2>7 DEF Work!Take, WorkPhase, WorkAttempt, WorkLive
  <2>. QED BY <2>8 DEF Work!WorkNext
<1>3. ASSUME NEW w \in Workers, Crash(w) \/ Drain(w) PROVE [Work!WorkNext]_(Work!work)
  <2>1. UNCHANGED row /\ \A a \in Attempts : pc'[a] = pc[a] \/ pc'[a] = "over"
    BY <1>3, <1>i, GoneFrame
  <2>. QED BY <1>g, <1>l, <2>1 DEF WorkMoves, row
<1>4. ASSUME NEW r \in Attempts, Cancel(r) PROVE [Work!WorkNext]_(Work!work)
  <2>1. status' = "canceled" /\ UNCHANGED <<attempt, pc>>
    BY <1>4, <1>i, CancelResponse
  <2>. QED BY <1>g, <1>l, <2>1 DEF WorkMoves, Ended
<1>5. ASSUME NEW w \in Workers, ReleaseClaims(w) PROVE [Work!WorkNext]_(Work!work)
  <2>1. UNCHANGED pc
    BY <1>5 DEF ReleaseClaims
  <2>2. CASE owner # w
    BY <1>5, <1>g, <1>l, <2>1, <2>2 DEF ReleaseClaims, Releasable, WorkMoves, row
  <2>3. CASE owner = w
    <3>1. \A a \in Attempts : ~Active(a)
      BY <1>5, <2>3, NobodyClaimed
    <3>2. WorkLive = 0
      BY <1>i, <3>1, LiveIs
    <3>3. \A a \in Attempts : ~Active(a)'
      BY <2>1, <3>1 DEF Active
    <3>4. WorkLive' = 0
      BY <1>i, <3>3, LiveIsNext
    <3>5. status = "running" /\ status' = "queued" /\ attempt' = attempt
      BY <1>5, <1>i, <2>3, InteractionAssumption DEF ReleaseClaims, Releasable, SetStatus, FleetInv
    <3>6. WorkPhase = "held" /\ WorkPhase' = "ready" /\ WorkAttempt' = WorkAttempt
      BY <1>i, <3>5 DEF WorkPhase, WorkAttempt
    <3>7. Work!GiveBack
      BY <3>2, <3>4, <3>6 DEF Work!GiveBack, WorkPhase, WorkAttempt, WorkLive
    <3>. QED BY <3>7 DEF Work!WorkNext
  <2>. QED BY <2>2, <2>3
<1>6. ASSUME NEW w \in Workers, Renew(w) PROVE [Work!WorkNext]_(Work!work)
  BY <1>6, <1>g, <1>l DEF Renew, WorkMoves
<1>7. CASE Lapse \/ CancelTold \/ UNCHANGED vars
  BY <1>7, <1>g, <1>l DEF Lapse, CancelTold, vars, row, WorkMoves
<1>. QED BY <1>1, <1>2, <1>3, <1>4, <1>5, <1>6, <1>7 DEF Next

LEMMA InitWork == Init => Work!WorkInit
<1>. SUFFICES ASSUME Init PROVE Work!WorkInit
  OBVIOUS
<1>1. \A a \in Attempts : ~Active(a)
  BY DEF Init, Active
<1>2. WorkPhase = "ready" /\ WorkAttempt = 0 /\ WorkLive = 0
  BY <1>1 DEF Init, WorkPhase, WorkAttempt, WorkLive
<1>. QED BY <1>2 DEF Work!WorkInit, WorkPhase, WorkAttempt, WorkLive

(* An interaction implements the leased work row: it is taken by one       *)
(* execution at a time, each taking is a new attempt, and one that is over *)
(* is not taken again, although an execution still writes to it after it   *)
(* ended.                                                                  *)
THEOREM WorkImplemented == Spec => ImplementsLeasedWork
<1>1. InteractionInv /\ InteractionInv' /\ TameInv /\ [Next]_vars => [Work!WorkNext]_(Work!work)
  BY WorkStep
<1>2. Init => Work!WorkInit
  BY InitWork
<1>. QED BY TameInvariant, <1>1, <1>2, PTL DEF Spec, ImplementsLeasedWork, Work!WorkSpec

(***************************************************************************)
(* The events.                                                             *)
(***************************************************************************)

(* Appending what ends nothing leaves the terminal events where they are.  *)
Quiet(s, t) ==
    /\ s \in Seq(EventKind) /\ t \in Seq(EventKind)
    /\ Ends(t) = Ends(s) /\ Kinds(s) \subseteq Kinds(t)
    /\ ClosedFirst(s) => ClosedFirst(t)
    /\ OneEnd(s) => OneEnd(t)

LEMMA QuietSelf == \A s \in Seq(EventKind) : Quiet(s, s)
BY DEF Quiet

LEMMA QuietAppend ==
    ASSUME NEW s \in Seq(EventKind), NEW e \in EventKind \ Terminal
    PROVE  Quiet(s, Append(s, e)) /\ e \in Kinds(Append(s, e))
<1>. DEFINE t == Append(s, e)
<1>1. /\ t \in Seq(EventKind) /\ Len(t) = Len(s) + 1 /\ DOMAIN s = 1..Len(s) /\ DOMAIN t = 1..Len(t)
      /\ \A i \in 1..Len(s) : t[i] = s[i]
      /\ t[Len(t)] = e /\ Len(s) \in Nat
  <2>. HIDE DEF EventKind
  <2>. QED OBVIOUS
<1>. HIDE DEF t, EventKind, Terminal
<1>2. Ends(t) = Ends(s)
  BY <1>1 DEF Ends
<1>3. Kinds(s) \subseteq Kinds(t) /\ e \in Kinds(t)
  BY <1>1 DEF Kinds
<1>4. ClosedFirst(s) => ClosedFirst(t)
  <2>. SUFFICES ASSUME ClosedFirst(s), NEW i \in Ends(s) PROVE \E k \in 1..(i - 1) : t[k] = "closed"
    BY <1>2 DEF ClosedFirst
  <2>1. i \in 1..Len(s)
    BY <1>1 DEF Ends
  <2>2. PICK k \in 1..(i - 1) : s[k] = "closed"
    BY DEF ClosedFirst
  <2>3. k \in 1..Len(s)
    BY <1>1, <2>1
  <2>. QED BY <1>1, <2>2, <2>3
<1>5. OneEnd(s) => OneEnd(t)
  BY <1>1, <1>2 DEF OneEnd
<1>. QED BY <1>1, <1>2, <1>3, <1>4, <1>5 DEF Quiet, t

LEMMA QuietTrans ==
    ASSUME NEW s, NEW t, NEW u, Quiet(s, t), Quiet(t, u)
    PROVE  Quiet(s, u)
BY DEF Quiet

(* Appending a terminal event. *)
LEMMA LastAppend ==
    ASSUME NEW s \in Seq(EventKind), NEW e \in Terminal
    PROVE  /\ Append(s, e) \in Seq(EventKind)
           /\ Kinds(s) \subseteq Kinds(Append(s, e))
           /\ Ends(Append(s, e)) = Ends(s) \cup {Len(Append(s, e))}
           /\ Ends(s) = {} => OneEnd(Append(s, e))
           /\ ClosedFirst(s) /\ "closed" \in Kinds(s) => ClosedFirst(Append(s, e))
<1>. DEFINE t == Append(s, e)
<1>0. e \in EventKind
  BY DEF EventKind
<1>1. /\ t \in Seq(EventKind) /\ Len(t) = Len(s) + 1 /\ DOMAIN s = 1..Len(s) /\ DOMAIN t = 1..Len(t)
      /\ \A i \in 1..Len(s) : t[i] = s[i]
      /\ t[Len(t)] = e /\ Len(s) \in Nat
  <2>. HIDE DEF EventKind, Terminal
  <2>. QED BY <1>0
<1>. HIDE DEF t, EventKind, Terminal
<1>2. Ends(t) = Ends(s) \cup {Len(t)}
  BY <1>1 DEF Ends
<1>3. Kinds(s) \subseteq Kinds(t)
  BY <1>1 DEF Kinds
<1>4. Ends(s) = {} => OneEnd(t)
  BY <1>1, <1>2 DEF OneEnd
<1>5. ClosedFirst(s) /\ "closed" \in Kinds(s) => ClosedFirst(t)
  <2>. SUFFICES ASSUME ClosedFirst(s), "closed" \in Kinds(s), NEW i \in Ends(t)
                PROVE  \E k \in 1..(i - 1) : t[k] = "closed"
    BY DEF ClosedFirst
  <2>1. CASE i \in Ends(s)
    <3>1. i \in 1..Len(s)
      BY <1>1, <2>1 DEF Ends
    <3>2. PICK k \in 1..(i - 1) : s[k] = "closed"
      BY <2>1 DEF ClosedFirst
    <3>3. k \in 1..Len(s)
      BY <1>1, <3>1
    <3>. QED BY <1>1, <3>2, <3>3
  <2>2. CASE i = Len(t)
    <3>1. PICK k \in 1..Len(s) : s[k] = "closed"
      BY <1>1 DEF Kinds
    <3>. QED BY <1>1, <2>2, <3>1
  <2>. QED BY <1>2, <2>1, <2>2
<1>. QED BY <1>1, <1>2, <1>3, <1>4, <1>5 DEF t

(* What steps append, event by event. *)
LEMMA EventByEvent ==
    ASSUME NEW s \in Seq(EventKind)
    PROVE  /\ \A e, f \in EventKind : s \o <<e, f>> = Append(Append(s, e), f)
           /\ \A e, f, g \in EventKind : s \o <<e, f, g>> = Append(Append(Append(s, e), f), g)
           /\ \A e \in EventKind : s \o <<e>> = Append(s, e)
           /\ s \o <<>> = s
<1>. HIDE DEF EventKind
<1>. QED OBVIOUS

(* The parts of LogInv: of the events of one response, and of an execution.*)
Told(r) ==
    /\ resp[r] \in {"none", "running"} => Ends(log[r]) = {}
    /\ resp[r] # "canceled" => Ends(log[r]) \subseteq {Len(log[r])}
    /\ resp[r] = "canceled" =>
            /\ Ends(log[r]) # {} \/ "closed" \in Kinds(log[r])
            /\ \/ ClosedFirst(log[r])
               \/ OneEnd(log[r]) /\ NoneToCome(r)

Telling(a) ==
    /\ pc[a] = "finish" => Ends(log[a]) = {}
    /\ pc[a] = "clear" /\ resp[target[a]] # "canceled" =>
            hasEnd[a] = (Ends(log[target[a]]) # {})
    /\ pc[a] = "clear" /\ ~hasEnd[a] /\ seen[a] = "canceled" =>
            "closed" \in Kinds(log[target[a]])

(* Where nothing is appended. *)
LEMMA LogFrame ==
    ASSUME LogInv, UNCHANGED <<resp, log, api, bound>>,
           \A a \in Attempts : \/ pc'[a] \notin {"finish", "clear"}
                               \/ /\ pc'[a] = pc[a] /\ target'[a] = target[a]
                                  /\ seen'[a] = seen[a] /\ hasEnd'[a] = hasEnd[a]
    PROVE  LogInv'
<1>1. \A r \in Attempts : NoneToCome(r) => NoneToCome(r)'
  BY DEF NoneToCome
<1>2. \A r \in Attempts : Told(r)'
  BY <1>1 DEF LogInv, Told
<1>3. \A a \in Attempts : Telling(a)'
  <2>1. \A a \in Attempts : Telling(a)
    BY DEF LogInv, Telling
  <2>. SUFFICES ASSUME NEW a \in Attempts PROVE Telling(a)'
    OBVIOUS
  <2>2. CASE pc'[a] \notin {"finish", "clear"}
    BY <2>2 DEF Telling
  <2>3. CASE /\ pc'[a] = pc[a] /\ target'[a] = target[a]
             /\ seen'[a] = seen[a] /\ hasEnd'[a] = hasEnd[a]
    BY <2>1, <2>3 DEF Telling
  <2>. QED BY <2>2, <2>3
<1>4. /\ (api # 0 => api = bound /\ resp[api] = "canceled" /\ "closed" \in Kinds(log[api]))'
      /\ \A r \in Attempts : log'[r] # <<>> => r = bound'
  BY DEF LogInv
<1>. QED BY <1>2, <1>3, <1>4 DEF LogInv, Told, Telling

(* Where the events of the bound response grow. *)
LEMMA LogWritten ==
    ASSUME LogInv, ModeInv', Tame', mode' \in {"direct", "agent"}, api' = api,
           NEW r \in Attempts, r = bound', bound \in {0, r},
           \A q \in Attempts : q # r => log'[q] = log[q],
           Kinds(log[r]) \subseteq Kinds(log'[r]), resp[r] = "canceled" => resp'[r] = "canceled",
           Told(r)', \A a \in Attempts : Telling(a)'
    PROVE  LogInv'
<1>0. 0 \notin Attempts
  BY DEF Attempts
<1>1. \A q \in Attempts : q # r => log'[q] = <<>> /\ resp'[q] # "canceled"
  BY <1>0 DEF LogInv, ModeInv
<1>2. Ends(<<>>) = {}
  BY DEF Ends
<1>3. \A q \in Attempts : q # r => Told(q)'
  BY <1>1, <1>2 DEF Told
<1>4. (api # 0 => api = bound /\ resp[api] = "canceled" /\ "closed" \in Kinds(log[api]))'
  BY DEF LogInv
<1>. QED BY <1>1, <1>3, <1>4 DEF LogInv, Told, Telling

(* An execution tells of what it did to the bound response. *)
LEMMA ExecuteLog ==
    ASSUME InteractionInv, InteractionInv', Tame, BoundInv, ModeInv, ModeInv', SeenInv, LogInv,
           NEW a \in Attempts, Execute(a)
    PROVE  LogInv'
<1>i. TypeInv /\ FleetInv /\ ResponsesInv
  BY DEF InteractionInv
<1>m. Tame' /\ mode' \in {"direct", "agent"} /\ api' = api
  <2>1. [Next]_vars
    BY DEF Next
  <2>2. UNCHANGED <<setting, api>>
    BY ExecuteFrame
  <2>. QED BY <1>i, <2>1, <2>2, TameKept DEF setting, TypeInv, TypeOK
<1>t. /\ pc \in [Attempts -> PC] /\ target \in [Attempts -> 0..MaxAttempts]
      /\ resp \in [Attempts -> RespStatus] /\ seen \in [Attempts -> RespStatus]
      /\ hasEnd \in [Attempts -> BOOLEAN] /\ log \in [Attempts -> Seq(EventKind)]
      /\ 0 \notin Attempts
  BY <1>i DEF TypeInv, TypeOK, Attempts
<1>y. RespStatus = {"none", "running", "succeeded", "failed", "canceled"}
  BY DEF RespStatus, Ended
<1>l. \A q \in Attempts : log[q] \in Seq(EventKind)
  BY <1>t
<1>e. /\ {"started", "text", "closed"} \subseteq EventKind \ Terminal
      /\ Terminal = {"finished", "error", "stopped"}
      /\ Terminal \subseteq EventKind
  BY DEF EventKind, Terminal
<1>k. pc[a] \in {"orphan", "clear"} => target[a] \in Attempts /\ target[a] = bound
  BY <1>i DEF TypeInv, TargetsKnown, BoundInv
<1>b. /\ pc[a] \in {"bind", "link"} => bound = 0
      /\ pc[a] \in {"stream", "except", "finish", "loop", "answer", "close", "fail"} => bound = a
  BY DEF BoundInv
<1>p. \A b \in Attempts : b # a => pc'[b] \notin {"finish", "clear"}
  BY AloneExecutes DEF Active
<1>h. (\A r \in Attempts : Told(r) /\ (log[r] # <<>> => r = bound)) /\ Telling(a)
  BY DEF LogInv, Told, Telling
<1>s. /\ pc[a] \in {"stream", "except"} => resp[a] \in {"running", "canceled"}
      /\ pc[a] = "except" /\ seen[a] \in Ended => resp[a] = seen[a]
      /\ pc[a] = "finish" => resp[a] = "succeeded"
      /\ pc[a] = "clear" /\ seen[a] \in Ended => resp[target[a]] = seen[a]
      /\ pc[a] = "stream" => seen[a] = "running"
  BY <1>i DEF SeenInv, ResponsesInv
<1>a. pc[a] # "stopped" /\ (pc[a] \in {"answer", "close", "fail"} => resp[a] = "running")
  BY <1>i DEF ModeInv, ResponsesInv, TypeInv, TypeOK
<1>. HIDE DEF PC, RespStatus, EventKind, Terminal
<1>f. UNCHANGED <<resp, log, bound>> /\ (pc'[a] \notin {"finish", "clear"}
            \/ (pc'[a] = pc[a] /\ target'[a] = target[a] /\ seen'[a] = seen[a] /\ hasEnd'[a] = hasEnd[a]))
        => LogInv'
  BY <1>m, <1>p, LogFrame
<1>w. ASSUME NEW r \in Attempts, r = bound', bound \in {0, r},
             \A q \in Attempts : q # r => log'[q] = log[q],
             Kinds(log[r]) \subseteq Kinds(log'[r]), resp[r] = "canceled" => resp'[r] = "canceled",
             Told(r)', Telling(a)'
      PROVE  LogInv'
  <2>1. \A b \in Attempts : Telling(b)'
    BY <1>p, <1>w DEF Telling
  <2>. QED BY <1>m, <1>w, <2>1, LogWritten
<1>. USE DEF Leave, Goto, SetStatus, local, row, outcome
<1>1. CASE AssertLease(a) \/ LeaseLost(a)
  BY <1>1, <1>f, <1>t DEF AssertLease, LeaseLost
<1>2. CASE StreamStops(a) \/ StreamFails(a) \/ LinkFails(a) \/ AgentLoop(a) \/ Rescue(a)
  BY <1>2, <1>f, <1>t DEF StreamStops, StreamFails, LinkFails, AgentLoop, Rescue
<1>3. CASE BindDirect(a) \/ BindAgent(a)
  <2>1. /\ bound = 0 /\ bound' = a /\ log[a] = <<>> /\ resp'[a] = "running"
        /\ pc'[a] \in {"stream", "loop"}
    BY <1>3, <1>b, <1>h, <1>t DEF BindDirect, BindAgent, ModeInv
  <2>2. log' = [log EXCEPT ![a] = <<"started">>]
    BY <1>3, <1>t, <2>1 DEF BindDirect, BindAgent
  <2>3. Ends(<<"started">>) = {} /\ Kinds(<<>>) = {}
    BY <1>e DEF Ends, Kinds
  <2>4. log'[a] = <<"started">> /\ \A q \in Attempts : q # a => log'[q] = log[q]
    BY <1>t, <2>2
  <2>5. Told(a)' /\ Telling(a)'
    BY <2>1, <2>3, <2>4 DEF Told, Telling
  <2>6. resp[a] # "canceled"
    <3>1. CASE BindDirect(a)
      BY <1>i, <3>1 DEF BindDirect, ResponsesInv
    <3>2. CASE BindAgent(a)
      BY <3>2 DEF BindAgent, ModeInv
    <3>. QED BY <1>3, <3>1, <3>2
  <2>. QED BY <1>w, <2>1, <2>3, <2>4, <2>5, <2>6
<1>4. CASE StreamText(a) \/ AgentAnswer(a)
  <2>1. /\ bound = a /\ bound' = a /\ resp' = resp /\ pc'[a] \notin {"finish", "clear"}
        /\ log' = [log EXCEPT ![a] = Append(log[a], "text")]
    BY <1>4, <1>b, <1>t DEF StreamText, AgentAnswer
  <2>. HIDE DEF Leave, Goto, SetStatus, local, row, outcome
  <2>2. log'[a] = Append(log[a], "text") /\ \A q \in Attempts : q # a => log'[q] = log[q]
    BY <1>t, <2>1
  <2>3. Quiet(log[a], log'[a])
    BY <1>e, <1>l, <1>t, <2>2, QuietAppend
  <2>4. NoneToCome(a) => NoneToCome(a)'
    BY <1>m, <1>p, <2>1 DEF NoneToCome
  <2>5. resp[a] \in {"running", "canceled"}
    BY <1>4, <1>a, <1>s DEF StreamText, AgentAnswer
  <2>6. Told(a)' /\ Telling(a)'
    BY <1>h, <2>1, <2>3, <2>4, <2>5 DEF Told, Telling, Quiet
  <2>. QED BY <1>w, <2>1, <2>2, <2>3, <2>6 DEF Quiet
<1>5. CASE CompleteResponse(a)
  <2>1. CASE resp[a] # seen[a]
    BY <1>5, <1>f, <1>t, <2>1 DEF CompleteResponse
  <2>2. CASE resp[a] = seen[a]
    <3>1. /\ bound = a /\ bound' = a /\ resp[a] = "running" /\ resp'[a] = "succeeded"
          /\ pc'[a] = "finish" /\ log' = [log EXCEPT ![a] = log[a] \o <<"text", "closed">>]
      BY <1>5, <1>b, <1>s, <1>t, <2>2 DEF CompleteResponse
    <3>. HIDE DEF Leave, Goto, SetStatus, local, row, outcome
    <3>2. /\ log'[a] = Append(Append(log[a], "text"), "closed")
          /\ \A q \in Attempts : q # a => log'[q] = log[q]
      <4>1. log'[a] = log[a] \o <<"text", "closed">> /\ \A q \in Attempts : q # a => log'[q] = log[q]
        BY <1>t, <3>1
      <4>2. "text" \in EventKind /\ "closed" \in EventKind
        BY <1>e
      <4>3. log[a] \o <<"text", "closed">> = Append(Append(log[a], "text"), "closed")
        BY <1>l, <4>2, EventByEvent
      <4>. QED BY <4>1, <4>3
    <3>3. Quiet(log[a], log'[a])
      <4>1. Quiet(log[a], Append(log[a], "text"))
        BY <1>e, <1>l, <1>t, QuietAppend
      <4>2. Append(log[a], "text") \in Seq(EventKind)
        BY <4>1 DEF Quiet
      <4>3. Quiet(Append(log[a], "text"), log'[a])
        BY <1>e, <3>2, <4>2, QuietAppend
      <4>. QED BY <4>1, <4>3, QuietTrans
    <3>4. Told(a)' /\ Telling(a)'
      BY <1>h, <3>1, <3>3 DEF Told, Telling, Quiet
    <3>. QED BY <1>w, <3>1, <3>2, <3>3, <3>4 DEF Quiet
  <2>. QED BY <2>1, <2>2
<1>6. CASE StreamExcept(a)
  <2>1. CASE seen[a] \in Ended \/ resp[a] \in {"succeeded", "canceled"}
    BY <1>6, <1>f, <1>t, <2>1 DEF StreamExcept
  <2>2. CASE ~(seen[a] \in Ended \/ resp[a] \in {"succeeded", "canceled"})
    <3>1. /\ bound = a /\ bound' = a /\ resp[a] = "running" /\ resp'[a] = "failed"
          /\ pc'[a] = "over" /\ log' = [log EXCEPT ![a] = Append(log[a], "error")]
      BY <1>6, <1>b, <1>s, <1>t, <2>2 DEF StreamExcept
    <3>. HIDE DEF Leave, Goto, SetStatus, local, row, outcome
    <3>2. /\ log'[a] = Append(log[a], "error")
          /\ \A q \in Attempts : q # a => log'[q] = log[q]
      BY <1>t, <3>1
    <3>3. Kinds(log[a]) \subseteq Kinds(log'[a]) /\ Ends(log'[a]) = Ends(log[a]) \cup {Len(log'[a])}
      BY <1>e, <1>l, <1>t, <3>2, LastAppend
    <3>4. Told(a)' /\ Telling(a)'
      BY <1>h, <3>1, <3>3 DEF Told, Telling
    <3>. QED BY <1>w, <3>1, <3>2, <3>3, <3>4
  <2>. QED BY <2>1, <2>2
<1>7. CASE FinishDirect(a)
  <2>1. CASE run[a] # "running"
    BY <1>7, <1>f, <1>t, <2>1 DEF FinishDirect
  <2>2. CASE run[a] = "running"
    <3>1. /\ pc[a] = "finish" /\ bound = a /\ bound' = a /\ resp[a] = "succeeded" /\ resp' = resp
          /\ pc'[a] = "over" /\ log' = [log EXCEPT ![a] = Append(log[a], "finished")]
      BY <1>7, <1>b, <1>s, <1>t, <2>2 DEF FinishDirect
    <3>. HIDE DEF Leave, Goto, SetStatus, local, row, outcome
    <3>2. /\ log'[a] = Append(log[a], "finished")
          /\ \A q \in Attempts : q # a => log'[q] = log[q]
      BY <1>t, <3>1
    <3>3. Kinds(log[a]) \subseteq Kinds(log'[a]) /\ Ends(log'[a]) = Ends(log[a]) \cup {Len(log'[a])}
      BY <1>e, <1>l, <1>t, <3>2, LastAppend
    <3>4. Told(a)' /\ Telling(a)'
      BY <1>h, <3>1, <3>3 DEF Told, Telling
    <3>. QED BY <1>w, <3>1, <3>2, <3>3, <3>4
  <2>. QED BY <2>1, <2>2
<1>8. CASE LinkAgent(a)
  <2>1. /\ bound = 0 /\ bound' = 0 /\ log' = log /\ pc'[a] = "bind"
        /\ resp' = [resp EXCEPT ![a] = "running"]
    BY <1>8, <1>b, <1>t DEF LinkAgent
  <2>. HIDE DEF Leave, Goto, SetStatus, local, row, outcome
  <2>2. \A q \in Attempts : log'[q] = <<>> /\ resp'[q] # "canceled"
    <3>1. mode = "agent"
      BY <1>8, <1>i, <1>m DEF LinkAgent, ResponsesInv, TypeInv, TypeOK
    <3>. QED BY <1>h, <1>t, <2>1, <3>1 DEF ModeInv
  <2>3. Ends(<<>>) = {}
    BY DEF Ends
  <2>4. \A q \in Attempts : Told(q)' /\ Telling(q)'
    BY <1>p, <2>1, <2>2, <2>3 DEF Told, Telling
  <2>5. api' = 0
    BY <1>m, <1>t, <2>1, InteractionAssumption DEF LogInv
  <2>. QED BY <2>2, <2>4, <2>5 DEF LogInv, Told, Telling
<1>c. \A u \in Seq(EventKind) : Quiet(u, Append(u, "closed")) /\ "closed" \in Kinds(Append(u, "closed"))
  BY <1>e, QuietAppend
<1>x. \A u \in Seq(EventKind) : Quiet(u, Append(u, "text"))
  BY <1>e, QuietAppend
(* The response ends with its terminal event, after a text that is closed. *)
<1>z. ASSUME bound = a, bound' = a, resp[a] = "running", resp'[a] \notin {"none", "running", "canceled"},
             pc'[a] = "over", \A q \in Attempts : q # a => log'[q] = log[q],
             NEW u, Quiet(log[a], u), NEW e \in Terminal, log'[a] = Append(u, e)
      PROVE  LogInv'
  <2>1. /\ Kinds(u) \subseteq Kinds(log'[a]) /\ Ends(log'[a]) = Ends(u) \cup {Len(log'[a])}
    BY <1>z, LastAppend DEF Quiet
  <2>2. Ends(u) = {} /\ Kinds(log[a]) \subseteq Kinds(log'[a])
    BY <1>h, <1>z, <2>1 DEF Told, Quiet
  <2>3. Told(a)' /\ Telling(a)'
    BY <1>z, <2>1, <2>2 DEF Told, Telling
  <2>. QED BY <1>w, <1>z, <2>2, <2>3
<1>9. CASE AgentClose(a)
  <2>1. CASE ~(run[a] = "running" /\ resp[a] = "running")
    BY <1>9, <1>f, <1>t, <2>1 DEF AgentClose
  <2>2. CASE run[a] = "running" /\ resp[a] = "running"
    <3>1. /\ bound = a /\ bound' = a /\ resp'[a] = "succeeded" /\ pc'[a] = "over"
          /\ log' = [log EXCEPT ![a] = log[a] \o <<"closed", "finished">>]
      BY <1>9, <1>b, <1>t, <2>2 DEF AgentClose
    <3>. HIDE DEF Leave, Goto, SetStatus, local, row, outcome
    <3>2. log'[a] = log[a] \o <<"closed", "finished">> /\ \A q \in Attempts : q # a => log'[q] = log[q]
      BY <1>t, <3>1
    <3>3. "closed" \in EventKind /\ "finished" \in EventKind /\ "finished" \in Terminal
      BY <1>e
    <3>4. log'[a] = Append(Append(log[a], "closed"), "finished")
      BY <1>l, <3>2, <3>3, EventByEvent
    <3>. QED BY <1>c, <1>l, <1>z, <2>2, <3>1, <3>2, <3>3, <3>4
  <2>. QED BY <2>1, <2>2
<1>10. CASE AgentFail(a)
  <2>. DEFINE said == IF TextOpen(a) THEN <<"closed", "error">>
                      ELSE IF "text" \in Log(a) THEN <<"error">>
                      ELSE <<"text", "closed", "error">>
  <2>1. /\ bound = a /\ bound' = a /\ resp[a] = "running" /\ resp'[a] = "failed" /\ pc'[a] = "over"
        /\ log' = [log EXCEPT ![a] = log[a] \o said]
    BY <1>10, <1>a, <1>b, <1>t DEF AgentFail
  <2>2. said \in {<<"closed", "error">>, <<"error">>, <<"text", "closed", "error">>}
    OBVIOUS
  <2>. HIDE DEF said, Leave, Goto, SetStatus, local, row, outcome
  <2>3. log'[a] = log[a] \o said /\ \A q \in Attempts : q # a => log'[q] = log[q]
    BY <1>t, <2>1
  <2>4. {"text", "closed", "error"} \subseteq EventKind /\ "error" \in Terminal
    BY <1>e
  <2>5. \E u : Quiet(log[a], u) /\ log'[a] = Append(u, "error")
    <3>1. CASE said = <<"closed", "error">>
      <4>1. log'[a] = Append(Append(log[a], "closed"), "error")
        BY <1>l, <2>3, <2>4, <3>1, EventByEvent
      <4>. QED BY <1>c, <1>l, <4>1
    <3>2. CASE said = <<"error">>
      <4>1. log'[a] = Append(log[a], "error")
        BY <1>l, <2>3, <2>4, <3>2, EventByEvent
      <4>. QED BY <1>l, <4>1, QuietSelf
    <3>3. CASE said = <<"text", "closed", "error">>
      <4>1. log'[a] = Append(Append(Append(log[a], "text"), "closed"), "error")
        BY <1>l, <2>3, <2>4, <3>3, EventByEvent
      <4>2. Quiet(log[a], Append(log[a], "text"))
        BY <1>l, <1>x
      <4>3. Quiet(Append(log[a], "text"), Append(Append(log[a], "text"), "closed"))
        BY <1>c, <4>2 DEF Quiet
      <4>. QED BY <4>1, <4>2, <4>3, QuietTrans
    <3>. QED BY <2>2, <3>1, <3>2, <3>3
  <2>. QED BY <1>z, <2>1, <2>3, <2>4, <2>5
<1>11. CASE OrphanRead(a)
  <2>0. PICK r \in Attempts : r = bound
    BY <1>11, <1>k DEF OrphanRead
  <2>. DEFINE said == IF HasTerminal(r) THEN <<>> ELSE Closing(r)
  <2>1. /\ r \in Attempts /\ target[a] = r /\ target'[a] = r /\ bound' = r /\ resp' = resp
        /\ seen'[a] = resp[r] /\ hasEnd'[a] = HasTerminal(r) /\ pc'[a] = "clear"
        /\ log' = [log EXCEPT ![r] = log[r] \o said]
    BY <1>11, <1>k, <1>t, <2>0 DEF OrphanRead, FoundEnd
  <2>2. said = <<>> \/ (said = <<"closed">> /\ Ends(log[r]) = {})
    BY DEF Closing, HasTerminal, Ends
  <2>. HIDE DEF said, Leave, Goto, SetStatus, local, row, outcome
  <2>3. log'[r] = log[r] \o said /\ \A q \in Attempts : q # r => log'[q] = log[q]
    BY <1>t, <2>1
  <2>4. Quiet(log[r], log'[r])
    <3>1. CASE said = <<>>
      <4>1. log'[r] = log[r]
        BY <1>l, <2>1, <2>3, <3>1, EventByEvent
      <4>. QED BY <1>l, <2>1, <4>1, QuietSelf
    <3>2. CASE said = <<"closed">>
      <4>1. "closed" \in EventKind
        BY <1>e
      <4>2. log'[r] = Append(log[r], "closed")
        BY <1>l, <2>1, <2>3, <3>2, <4>1, EventByEvent
      <4>. QED BY <1>c, <1>l, <2>1, <4>2
    <3>. QED BY <2>2, <3>1, <3>2
  <2>5. HasTerminal(r) <=> Ends(log'[r]) # {}
    BY <2>4 DEF HasTerminal, Ends, Quiet
  <2>6. OneEnd(log[r]) /\ NoneToCome(r) => NoneToCome(r)'
    <3>1. OneEnd(log[r]) => hasEnd'[a] = TRUE
      BY <2>1, <2>4, <2>5 DEF OneEnd, Quiet, HasTerminal
    <3>. QED BY <1>m, <1>p, <3>1 DEF NoneToCome
  <2>7. Told(r)'
    <3>1. Told(r)
      BY <1>h, <2>1
    <3>2. said = <<>> => log'[r] = log[r]
      BY <1>l, <2>1, <2>3, EventByEvent
    <3>. QED BY <2>1, <2>2, <2>4, <2>6, <3>1, <3>2 DEF Told, Quiet
  <2>8. Telling(a)'
    <3>1. resp[r] = "canceled" => Ends(log[r]) # {} \/ "closed" \in Kinds(log[r])
      BY <1>h, <2>1 DEF Told
    <3>. QED BY <2>1, <2>4, <2>5, <3>1 DEF Telling, Quiet, HasTerminal
  <2>. QED BY <1>w, <2>0, <2>1, <2>3, <2>4, <2>7, <2>8 DEF Quiet
<1>12. CASE OrphanClear(a)
  <2>0. PICK r \in Attempts : r = bound /\ r = target[a] /\ pc[a] = "clear"
    BY <1>12, <1>k DEF OrphanClear
  <2>. DEFINE decided == seen[a] \in {"succeeded", "canceled"}
  <2>1. CASE UNCHANGED <<row, outcome>>
    <3>1. pc'[a] \in {"rescue", "over"}
      BY <1>12, <1>t DEF OrphanClear
    <3>. QED BY <1>f, <2>1, <3>1
  <2>2. CASE /\ pc'[a] = "over" /\ bound' = r
             /\ resp' = [resp EXCEPT ![r] = IF decided THEN @ ELSE "failed"]
             /\ log' = [log EXCEPT ![r] = IF hasEnd[a] THEN @ ELSE Append(@, EndEvent(a))]
             /\ decided \/ resp[r] \notin {"succeeded", "canceled"}
    <3>. HIDE DEF Leave, Goto, SetStatus, local, row, outcome
    <3>1. /\ resp'[r] = IF decided THEN resp[r] ELSE "failed"
          /\ log'[r] = IF hasEnd[a] THEN log[r] ELSE Append(log[r], EndEvent(a))
          /\ \A q \in Attempts : q # r => log'[q] = log[q]
      BY <1>t, <2>2
    <3>2. decided => resp[r] = seen[a]
      BY <1>s, <2>0 DEF Ended
    <3>3. Telling(a)'
      BY <2>2 DEF Telling
    <3>4. Told(r) /\ Telling(a)
      BY <1>h
    <3>7. resp[r] # "canceled" => (hasEnd[a] <=> Ends(log[r]) # {})
      <4>1. resp[r] # "canceled" => hasEnd[a] = (Ends(log[r]) # {})
        BY <2>0, <3>4 DEF Telling
      <4>2. hasEnd[a] \in BOOLEAN
        BY <1>t
      <4>. QED BY <4>1, <4>2
    <3>5. CASE hasEnd[a]
      <4>1. NoneToCome(r) => NoneToCome(r)'
        BY <1>m, <1>p, <2>2 DEF NoneToCome
      <4>2. resp[r] # "canceled" => Ends(log[r]) # {}
        BY <2>0, <3>5, <3>7
      <4>3. Told(r)'
        BY <2>2, <3>1, <3>2, <3>4, <3>5, <4>1, <4>2 DEF Told
      <4>. QED BY <1>w, <2>0, <2>2, <3>1, <3>3, <3>5, <4>3
    <3>6. CASE ~hasEnd[a]
      <4>1. EndEvent(a) \in Terminal
        BY <1>e DEF EndEvent
      <4>2. /\ Kinds(log[r]) \subseteq Kinds(log'[r])
            /\ Ends(log'[r]) = Ends(log[r]) \cup {Len(log'[r])}
            /\ ClosedFirst(log[r]) /\ "closed" \in Kinds(log[r]) => ClosedFirst(log'[r])
        BY <1>l, <3>1, <3>6, <4>1, LastAppend
      <4>3. CASE resp[r] = "canceled"
        <5>1. seen[a] = "canceled"
          BY <2>2, <3>2, <4>3
        <5>2. "closed" \in Kinds(log[r]) /\ ~NoneToCome(r)
          BY <2>0, <3>4, <3>6, <5>1 DEF Telling, NoneToCome, Ended
        <5>3. ClosedFirst(log[r])
          BY <3>4, <4>3, <5>2 DEF Told
        <5>4. Told(r)'
          BY <3>1, <3>2, <4>2, <4>3, <5>1, <5>2, <5>3 DEF Told
        <5>. QED BY <1>w, <2>0, <2>2, <3>1, <3>2, <3>3, <4>2, <4>3, <5>1, <5>4
      <4>4. CASE resp[r] # "canceled"
        <5>1. Ends(log[r]) = {}
          BY <2>0, <3>6, <3>7, <4>4
        <5>2. resp'[r] \notin {"none", "running", "canceled"}
          BY <3>1, <3>2, <4>4
        <5>3. Told(r)'
          BY <4>2, <5>1, <5>2 DEF Told
        <5>. QED BY <1>w, <2>0, <2>2, <3>1, <3>3, <4>2, <4>4, <5>3
      <4>. QED BY <4>3, <4>4
    <3>. QED BY <3>5, <3>6
  <2>. QED BY <1>12, <1>t, <2>0, <2>1, <2>2 DEF OrphanClear
<1>. QED BY <1>1, <1>2, <1>3, <1>4, <1>5, <1>6, <1>7, <1>8, <1>9, <1>10, <1>11, <1>12, <1>a
         DEF Execute, AgentStopped

LEMMA LogStep ==
    InteractionInv /\ InteractionInv' /\ Tame /\ BoundInv /\ ModeInv /\ ModeInv' /\ SeenInv
        /\ LogInv /\ [Next]_vars => LogInv'
<1>. SUFFICES ASSUME InteractionInv, InteractionInv', Tame, BoundInv, ModeInv, ModeInv', SeenInv,
                     LogInv, [Next]_vars
              PROVE  LogInv'
  OBVIOUS
<1>i. TypeInv /\ FleetInv /\ ResponsesInv
  BY DEF InteractionInv
<1>t. /\ log \in [Attempts -> Seq(EventKind)] /\ 0 \notin Attempts
      /\ \A q \in Attempts : log[q] \in Seq(EventKind)
      /\ api # 0 => api \in Attempts
      /\ mode \in {"direct", "agent"}
  BY <1>i, InteractionAssumption DEF TypeInv, TypeOK, Attempts
<1>e. "stopped" \in Terminal /\ "closed" \in EventKind \ Terminal
  BY DEF EventKind, Terminal
<1>h. \A a \in Attempts : Told(a) /\ Telling(a) /\ (log[a] # <<>> => a = bound)
  BY DEF LogInv, Told, Telling
<1>. HIDE DEF EventKind, Terminal
<1>1. ASSUME NEW a \in Attempts, Execute(a) PROVE LogInv'
  BY <1>1, ExecuteLog
<1>2. ASSUME NEW w \in Workers, Claim(w) PROVE LogInv'
  <2>1. PICK n \in Attempts :
            /\ pc'[n] \in {"orphan", "bind", "link"}
            /\ UNCHANGED <<resp, log, bound, seen, hasEnd, api>>
            /\ \A a \in Attempts : a # n => pc'[a] = pc[a] /\ target'[a] = target[a]
    BY <1>2, <1>i, ClaimFrame DEF outcome
  <2>. QED BY <2>1, LogFrame
<1>3. ASSUME NEW w \in Workers, Crash(w) \/ Drain(w) PROVE LogInv'
  <2>1. /\ UNCHANGED <<resp, log, bound, seen, hasEnd, target, api>>
        /\ \A a \in Attempts : pc'[a] = pc[a] \/ pc'[a] = "over"
    BY <1>3, <1>i, GoneFrame DEF row, outcome, local
  <2>. QED BY <2>1, LogFrame
<1>4. ASSUME NEW r \in Attempts, Cancel(r) PROVE LogInv'
  <2>1. /\ resp[r] = "running" /\ resp'[r] = "canceled" /\ bound' = bound
        /\ \A q \in Attempts : q # r => resp'[q] = resp[q] /\ log'[q] = log[q]
        /\ UNCHANGED <<pc, target, seen, hasEnd>>
    BY <1>4, <1>i, CancelResponse DEF local
  <2>2. mode = "direct" /\ api = 0
    BY <1>4, <1>t DEF Cancel, Tame
  <2>3. r = bound
    BY <2>1, <2>2 DEF ModeInv
  <2>4. Ends(log[r]) = {}
    BY <1>h, <2>1 DEF Told
  <2>5. \A a \in Attempts :
            /\ pc[a] # "finish" \/ a # r
            /\ pc[a] = "clear" /\ target[a] = r => seen[a] \notin Ended
    BY <2>1 DEF SeenInv, Ended
  <2>6. \/ log'[r] = Append(log[r], "closed") /\ api' = r
        \/ log'[r] = Append(log[r], "stopped") /\ api' = 0
    BY <1>4, <1>t, <2>2 DEF Cancel
  <2>7. /\ Kinds(log[r]) \subseteq Kinds(log'[r])
        /\ api' # 0 => api' = r /\ "closed" \in Kinds(log'[r])
        /\ Told(r)'
    <3>1. CASE log'[r] = Append(log[r], "closed") /\ api' = r
      <4>1. Quiet(log[r], log'[r]) /\ "closed" \in Kinds(log'[r])
        BY <1>e, <1>t, <3>1, QuietAppend
      <4>2. Told(r)'
        BY <2>1, <2>4, <4>1 DEF Told, Quiet, ClosedFirst
      <4>. QED BY <3>1, <4>1, <4>2 DEF Quiet
    <3>2. CASE log'[r] = Append(log[r], "stopped") /\ api' = 0
      <4>1. /\ Kinds(log[r]) \subseteq Kinds(log'[r]) /\ OneEnd(log'[r])
            /\ Ends(log'[r]) = {Len(log'[r])}
        BY <1>e, <1>t, <2>4, <3>2, LastAppend
      <4>2. NoneToCome(r)'
        BY <1>t, <2>1, <2>5, <3>2 DEF NoneToCome
      <4>3. Told(r)'
        BY <2>1, <4>1, <4>2 DEF Told
      <4>. QED BY <3>2, <4>1, <4>3
    <3>. QED BY <2>6, <3>1, <3>2
  <2>8. \A q \in Attempts : q # r => Told(q)' /\ log'[q] = <<>>
    <3>1. Ends(<<>>) = {}
      BY DEF Ends
    <3>2. \A q \in Attempts : q # r => log'[q] = <<>> /\ resp'[q] # "canceled"
      BY <1>h, <2>1, <2>2, <2>3 DEF ModeInv
    <3>. QED BY <3>1, <3>2 DEF Told
  <2>9. \A a \in Attempts : Telling(a)'
    <3>1. \A a \in Attempts : Telling(a)
      BY <1>h
    <3>2. \A a \in Attempts : pc[a] = "clear" => target[a] \in Attempts
      BY <1>i DEF TypeInv, TargetsKnown
    <3>. QED BY <2>1, <2>5, <3>1, <3>2 DEF Telling, Ended
  <2>10. (api # 0 => api = bound /\ resp[api] = "canceled" /\ "closed" \in Kinds(log[api]))'
    BY <2>1, <2>3, <2>7
  <2>11. \A q \in Attempts : log'[q] # <<>> => q = bound'
    BY <2>1, <2>3, <2>8
  <2>. QED BY <2>7, <2>8, <2>9, <2>10, <2>11 DEF LogInv, Told, Telling
<1>5. CASE CancelTold
  <2>0. PICK r \in Attempts : r = api
    BY <1>5, <1>t DEF CancelTold
  <2>1. /\ r = bound /\ bound' = bound /\ resp[r] = "canceled" /\ resp' = resp
        /\ "closed" \in Kinds(log[r]) /\ api' = 0
        /\ UNCHANGED <<pc, target, seen, hasEnd>>
        /\ log'[r] = Append(log[r], "stopped")
        /\ \A q \in Attempts : q # r => log'[q] = log[q]
    BY <1>5, <1>t, <2>0 DEF CancelTold, LogInv, row, local
  <2>2. /\ Kinds(log[r]) \subseteq Kinds(log'[r])
        /\ Ends(log'[r]) = Ends(log[r]) \cup {Len(log'[r])}
        /\ ClosedFirst(log[r]) => ClosedFirst(log'[r])
    BY <1>e, <1>t, <2>1, LastAppend
  <2>3. Told(r)'
    <3>1. ClosedFirst(log[r])
      BY <1>h, <2>0, <2>1 DEF Told, NoneToCome
    <3>. QED BY <2>1, <2>2, <3>1 DEF Told
  <2>4. \A q \in Attempts : q # r => Told(q)'
    <3>1. \A q \in Attempts : q # r => (NoneToCome(q) => NoneToCome(q)')
      BY <1>t, <2>1 DEF NoneToCome
    <3>. QED BY <1>h, <2>1, <3>1 DEF Told
  <2>5. \A a \in Attempts : Telling(a)'
    <3>1. \A a \in Attempts : pc[a] = "finish" => a # r
      BY <2>1 DEF SeenInv
    <3>2. \A a \in Attempts : pc[a] = "clear" => target[a] \in Attempts
      BY <1>i DEF TypeInv, TargetsKnown
    <3>3. \A a \in Attempts : Telling(a)
      BY <1>h
    <3>. QED BY <2>1, <2>2, <3>1, <3>2, <3>3 DEF Telling
  <2>6. api' = 0 /\ \A q \in Attempts : log'[q] # <<>> => q = bound'
    BY <1>h, <2>1
  <2>. QED BY <2>3, <2>4, <2>5, <2>6 DEF LogInv, Told, Telling
<1>6. ASSUME NEW w \in Workers, Renew(w) \/ ReleaseClaims(w) PROVE LogInv'
  BY <1>6, LogFrame DEF Renew, ReleaseClaims, SetStatus, row, outcome, local
<1>7. CASE Lapse \/ UNCHANGED vars
  BY <1>7, LogFrame DEF Lapse, vars, row, outcome, local
<1>. QED BY <1>1, <1>2, <1>3, <1>4, <1>5, <1>6, <1>7 DEF Next

LEMMA InitLog == Init => TameLogs
<1>1. Ends(<<>>) = {}
  BY DEF Ends
<1>. QED BY <1>1 DEF Init, TameLogs, LogInv

THEOREM LogInvariant == Spec => [](InteractionInv /\ TameInv /\ TameLogs)
<1>1. Init => InteractionInv /\ TameInv /\ TameLogs
  BY InitInteraction, InitTame, InitLog
<1>2. (InteractionInv /\ TameInv /\ TameLogs) /\ [Next]_vars => (InteractionInv /\ TameInv /\ TameLogs)'
  BY StepInteraction, TameStep, TameKept, LogStep DEF TameLogs, TameInv
<1>. QED BY <1>1, <1>2, PTL DEF Spec

(* A reader sees one response of an interaction end, and it ends once: two *)
(* terminal events are there only after the end of a text that a user cut  *)
(* short, whoever executes, cancels or clears up.                          *)
THEOREM SingleTerminalHolds == Spec => []SingleTerminal
<1>1. InteractionInv /\ TameInv /\ TameLogs => SingleTerminal
  <2>. SUFFICES ASSUME InteractionInv, LogInv
                PROVE  /\ \A r, s \in Attempts : HasTerminal(r) /\ HasTerminal(s) => r = s
                       /\ \A r \in Attempts : resp[r] # "canceled" => TerminalsOf(r) \subseteq {Len(log[r])}
                       /\ \A r \in Attempts : \A i, j \in TerminalsOf(r) :
                              i < j => \E k \in 1..(i - 1) : log[r][k] = "closed"
    BY DEF SingleTerminal, TameLogs
  <2>1. \A r \in Attempts : TerminalsOf(r) = Ends(log[r]) /\ (HasTerminal(r) => log[r] # <<>>)
    BY DEF TerminalsOf, Ends, HasTerminal
  <2>2. \A r \in Attempts : \A i, j \in Ends(log[r]) :
            i < j => \E k \in 1..(i - 1) : log[r][k] = "closed"
    <3>. SUFFICES ASSUME NEW r \in Attempts, NEW i \in Ends(log[r]), NEW j \in Ends(log[r]), i < j
                  PROVE  \E k \in 1..(i - 1) : log[r][k] = "closed"
      OBVIOUS
    <3>1. i # j
      <4>1. log[r] \in Seq(EventKind)
        BY DEF InteractionInv, TypeInv, TypeOK
      <4>. HIDE DEF EventKind
      <4>2. i \in Nat /\ j \in Nat
        BY <4>1 DEF Ends
      <4>. QED BY <4>2
    <3>2. ClosedFirst(log[r])
      <4>1. ~(Ends(log[r]) \subseteq {Len(log[r])}) /\ ~OneEnd(log[r])
        BY <3>1 DEF OneEnd
      <4>. QED BY <4>1 DEF LogInv
    <3>. QED BY <3>2 DEF ClosedFirst
  <2>. QED BY <2>1, <2>2 DEF LogInv
<1>. QED BY LogInvariant, <1>1, PTL

(* So what is proved of an interaction holds where a client follows it.    *)
LEMMA FollowingReads == StreamSpec => Spec
<1>1. StreamInit => Init
  BY DEF StreamInit
<1>2. [StreamNext]_streamVars => [Next]_vars
  BY DEF StreamNext, streamVars
<1>. QED BY <1>1, <1>2, PTL DEF StreamSpec, Spec

-----------------------------------------------------------------------------
(* The client that follows. *)

(* Events are appended, whoever appends. *)
Grows(s, t) == \E u \in Seq(EventKind) : t = s \o u

LEMMA GrowsBy ==
    ASSUME NEW s \in Seq(EventKind)
    PROVE  /\ Grows(s, s)
           /\ \A e \in EventKind : Grows(s, Append(s, e)) /\ Grows(s, s \o <<e>>)
           /\ \A e, f \in EventKind : Grows(s, s \o <<e, f>>)
           /\ \A e, f, g \in EventKind : Grows(s, s \o <<e, f, g>>)
<1>1. s = s \o <<>> /\ <<>> \in Seq(EventKind)
  BY EventByEvent
<1>2. \A e \in EventKind : <<e>> \in Seq(EventKind) /\ Append(s, e) = s \o <<e>>
  BY EventByEvent
<1>3. \A e, f \in EventKind : <<e, f>> \in Seq(EventKind)
  <2>. HIDE DEF EventKind
  <2>. QED OBVIOUS
<1>4. \A e, f, g \in EventKind : <<e, f, g>> \in Seq(EventKind)
  <2>. HIDE DEF EventKind
  <2>. QED OBVIOUS
<1>. HIDE DEF EventKind
<1>. QED BY <1>1, <1>2, <1>3, <1>4 DEF Grows

(* What is in the log stays there, at its place. *)
LEMMA GrowsKeeps ==
    ASSUME NEW s \in Seq(EventKind), NEW t \in Seq(EventKind), Grows(s, t)
    PROVE  /\ Len(s) <= Len(t) /\ \A i \in 1..Len(s) : t[i] = s[i]
           /\ Kinds(s) \subseteq Kinds(t) /\ Ends(s) \subseteq Ends(t)
<1>. HIDE DEF EventKind
<1>1. PICK u \in Seq(EventKind) : t = s \o u
  BY DEF Grows
<1>2. /\ Len(s) \in Nat /\ Len(t) \in Nat /\ Len(s) <= Len(t)
      /\ \A i \in 1..Len(s) : t[i] = s[i]
      /\ DOMAIN s = 1..Len(s) /\ DOMAIN t = 1..Len(t)
  BY <1>1
<1>3. \A i \in DOMAIN s : i \in DOMAIN t /\ t[i] = s[i]
  BY <1>2
<1>. QED BY <1>2, <1>3 DEF Kinds, Ends

LEMMA ExecuteGrows ==
    ASSUME TypeInv, NEW a \in Attempts, Execute(a),
           mode = "direct" /\ pc[a] = "bind" => log[a] = <<>>
    PROVE  \A r \in Attempts : Grows(log[r], log'[r])
<1>t. /\ log \in [Attempts -> Seq(EventKind)]
      /\ \A r \in Attempts : log[r] \in Seq(EventKind)
  BY DEF TypeInv, TypeOK
<1>e. {"started", "text", "closed", "finished", "error", "stopped"} = EventKind
  BY DEF EventKind, Terminal
<1>g. \A r \in Attempts : Grows(log[r], log[r])
  BY <1>t, GrowsBy
<1>w. ASSUME NEW r \in Attempts, NEW s, Grows(log[r], s), log' = [log EXCEPT ![r] = s]
      PROVE  \A q \in Attempts : Grows(log[q], log'[q])
  BY <1>g, <1>t, <1>w
<1>k. \A r \in Attempts : Closing(r) \in {<<>>, <<"closed">>}
  BY DEF Closing
<1>. HIDE DEF EventKind, Terminal
<1>1. CASE log' = log
  BY <1>1, <1>g
<1>2. CASE BindDirect(a)
  <2>1. log[a] = <<>> /\ log' = [log EXCEPT ![a] = <<"started">>]
    BY <1>2 DEF BindDirect
  <2>2. <<"started">> = <<>> \o <<"started">>
    OBVIOUS
  <2>3. Grows(log[a], <<"started">>)
    BY <1>e, <1>t, <2>1, <2>2, GrowsBy
  <2>. QED BY <1>w, <2>1, <2>3
<1>3. CASE StreamText(a) \/ BindAgent(a) \/ AgentAnswer(a)
  <2>1. \E e \in EventKind : log' = [log EXCEPT ![a] = Append(@, e)]
    BY <1>3, <1>e DEF StreamText, BindAgent, AgentAnswer
  <2>. QED BY <1>t, <1>w, <2>1, GrowsBy
<1>4. CASE CompleteResponse(a)
  <2>1. log' = log \/ log' = [log EXCEPT ![a] = @ \o <<"text", "closed">>]
    BY <1>4 DEF CompleteResponse, outcome
  <2>2. Grows(log[a], log[a] \o <<"text", "closed">>)
    BY <1>e, <1>t, GrowsBy
  <2>. QED BY <1>1, <1>w, <2>1, <2>2
<1>5. CASE StreamExcept(a) \/ FinishDirect(a)
  <2>1. log' = log \/ \E e \in EventKind : log' = [log EXCEPT ![a] = Append(@, e)]
    BY <1>5, <1>e DEF StreamExcept, FinishDirect, outcome
  <2>2. \A e \in EventKind : Grows(log[a], Append(log[a], e))
    BY <1>t, GrowsBy
  <2>. QED BY <1>1, <1>w, <2>1, <2>2
<1>6. CASE AgentClose(a)
  <2>1. log' = log \/ log' = [log EXCEPT ![a] = @ \o <<"closed", "finished">>]
    BY <1>6 DEF AgentClose, outcome
  <2>2. Grows(log[a], log[a] \o <<"closed", "finished">>)
    BY <1>e, <1>t, GrowsBy
  <2>. QED BY <1>1, <1>w, <2>1, <2>2
<1>7. CASE AgentFail(a)
  <2>1. PICK u \in {<<"closed", "error">>, <<"error">>, <<"text", "closed", "error">>} :
            log' = [log EXCEPT ![a] = @ \o u]
    BY <1>7 DEF AgentFail
  <2>2. Grows(log[a], log[a] \o u)
    BY <1>e, <1>t, GrowsBy
  <2>. QED BY <1>w, <2>1, <2>2
<1>8. CASE AgentStopped(a)
  <2>1. log' = log \/ log' = [log EXCEPT ![a] = @ \o Closing(a) \o <<"stopped">>]
    BY <1>8 DEF AgentStopped
  <2>2. CASE Closing(a) = <<>>
    <3>1. log[a] \o Closing(a) \o <<"stopped">> = log[a] \o <<"stopped">>
      BY <1>t, <2>2, EventByEvent
    <3>2. Grows(log[a], log[a] \o <<"stopped">>)
      BY <1>e, <1>t, GrowsBy
    <3>. QED BY <1>1, <1>w, <2>1, <3>1, <3>2
  <2>3. CASE Closing(a) = <<"closed">>
    <3>1. log[a] \o Closing(a) \o <<"stopped">> = log[a] \o <<"closed", "stopped">>
      <4>1. /\ log[a] \o <<"closed">> = Append(log[a], "closed")
            /\ log[a] \o <<"closed", "stopped">> = Append(Append(log[a], "closed"), "stopped")
        BY <1>e, <1>t, EventByEvent
      <4>2. Append(log[a], "closed") \in Seq(EventKind)
        BY <1>e, <1>t
      <4>3. Append(log[a], "closed") \o <<"stopped">> = Append(Append(log[a], "closed"), "stopped")
        BY <1>e, <4>2, EventByEvent
      <4>. QED BY <2>3, <4>1, <4>3
    <3>2. Grows(log[a], log[a] \o <<"closed", "stopped">>)
      BY <1>e, <1>t, GrowsBy
    <3>. QED BY <1>1, <1>w, <2>1, <3>1, <3>2
  <2>. QED BY <1>k, <2>2, <2>3
<1>9. CASE OrphanRead(a) \/ OrphanClear(a)
  <2>1. target[a] \in Attempts
    BY <1>9 DEF OrphanRead, OrphanClear, TypeInv, TargetsKnown
  <2>2. \/ log' = log
        \/ log' = [log EXCEPT ![target[a]] = @]
        \/ log' = [log EXCEPT ![target[a]] = @ \o <<>>]
        \/ log' = [log EXCEPT ![target[a]] = @ \o <<"closed">>]
        \/ \E e \in EventKind : log' = [log EXCEPT ![target[a]] = Append(@, e)]
    BY <1>9, <1>e, <1>k, <2>1 DEF OrphanRead, OrphanClear, EndEvent, Goto, outcome
  <2>3. log[target[a]] \o <<>> = log[target[a]]
    BY <1>t, <2>1, EventByEvent
  <2>4. /\ Grows(log[target[a]], log[target[a]])
        /\ Grows(log[target[a]], log[target[a]] \o <<"closed">>)
        /\ \A e \in EventKind : Grows(log[target[a]], Append(log[target[a]], e))
    BY <1>e, <1>t, <2>1, GrowsBy
  <2>. QED BY <1>1, <1>w, <2>1, <2>2, <2>3, <2>4
<1>10. CASE AssertLease(a) \/ LeaseLost(a) \/ StreamStops(a) \/ StreamFails(a)
            \/ LinkAgent(a) \/ LinkFails(a) \/ AgentLoop(a) \/ Rescue(a)
  BY <1>1, <1>10 DEF AssertLease, LeaseLost, StreamStops, StreamFails, LinkAgent, LinkFails,
     AgentLoop, Rescue, Goto, outcome
<1>. QED BY <1>2, <1>3, <1>4, <1>5, <1>6, <1>7, <1>8, <1>9, <1>10 DEF Execute

LEMMA LogGrows ==
    ASSUME InteractionInv, Tame, BoundInv, LogInv, [Next]_vars
    PROVE  \A r \in Attempts : Grows(log[r], log'[r])
<1>t. /\ TypeInv /\ log \in [Attempts -> Seq(EventKind)]
      /\ \A r \in Attempts : log[r] \in Seq(EventKind)
      /\ api # 0 => api \in Attempts
  BY InteractionAssumption DEF InteractionInv, TypeInv, TypeOK, Attempts
<1>e. {"closed", "stopped"} \subseteq EventKind
  BY DEF EventKind, Terminal
<1>. HIDE DEF EventKind, Terminal
<1>g. \A r \in Attempts : Grows(log[r], log[r])
  BY <1>t, GrowsBy
<1>1. ASSUME NEW a \in Attempts, Execute(a) PROVE \A r \in Attempts : Grows(log[r], log'[r])
  <2>1. pc[a] = "bind" => log[a] = <<>>
    BY DEF BoundInv, LogInv, Attempts
  <2>. QED BY <1>1, <1>t, <2>1, ExecuteGrows
<1>2. ASSUME NEW r \in Attempts, Cancel(r) PROVE \A q \in Attempts : Grows(log[q], log'[q])
  <2>1. \E e \in EventKind : log' = [log EXCEPT ![r] = Append(@, e)]
    BY <1>2, <1>e DEF Cancel
  <2>. QED BY <1>g, <1>t, <2>1, GrowsBy
<1>3. CASE CancelTold
  <2>1. log' = [log EXCEPT ![api] = Append(@, "stopped")] /\ api \in Attempts
    BY <1>3, <1>t DEF CancelTold
  <2>. QED BY <1>e, <1>g, <1>t, <2>1, GrowsBy
<1>4. ASSUME NEW w \in Workers, Claim(w) \/ Renew(w) \/ Crash(w) \/ Drain(w) \/ ReleaseClaims(w)
      PROVE  log' = log
  BY <1>4 DEF Claim, Renew, Crash, Drain, ReleaseClaims, outcome
<1>5. Lapse \/ UNCHANGED vars => log' = log
  BY DEF Lapse, vars, outcome
<1>. QED BY <1>1, <1>2, <1>3, <1>4, <1>5, <1>g DEF Next

(* The row is written with the terminal event, or after the response was   *)
(* canceled.                                                               *)
EndIsTold == status \in Ended /\ bound # 0 => Ends(log[bound]) # {} \/ resp[bound] = "canceled"

LEMMA ExecuteEndIsTold ==
    ASSUME InteractionInv, Tame, BoundInv, ModeInv, SeenInv, LogInv, EndIsTold,
           NEW a \in Attempts, Execute(a),
           \A r \in Attempts : Grows(log[r], log'[r]), log' \in [Attempts -> Seq(EventKind)]
    PROVE  EndIsTold'
<1>. SUFFICES ASSUME status' \in Ended, bound' # 0, resp'[bound'] # "canceled"
              PROVE  Ends(log'[bound']) # {}
  BY DEF EndIsTold
<1>i. TypeInv /\ FleetInv /\ ResponsesInv
  BY DEF InteractionInv
<1>t. /\ log \in [Attempts -> Seq(EventKind)] /\ \A r \in Attempts : log[r] \in Seq(EventKind)
      /\ target \in [Attempts -> 0..MaxAttempts] /\ mode \in {"direct", "agent"}
      /\ hasEnd \in [Attempts -> BOOLEAN]
      /\ bound # 0 => bound \in Attempts
      /\ "running" \notin Ended /\ "canceled" \in Ended /\ "finished" \in Terminal /\ "error" \in Terminal
      /\ {"text", "closed"} \subseteq EventKind
  BY <1>i, InteractionAssumption DEF TypeInv, TypeOK, Attempts, Ended, Terminal, EventKind
<1>k. /\ \A r \in Attempts : Ends(log[r]) \subseteq Ends(log'[r])
      /\ \A r \in Attempts : resp[r] = "canceled" => resp'[r] = "canceled"
  <2>1. [Next]_vars
    BY DEF Next
  <2>. QED BY <1>i, <1>t, <2>1, GrowsKeeps, ResponseStep
<1>l. \A s \in Seq(EventKind) : \A e \in Terminal : Ends(Append(s, e)) # {}
  BY LastAppend
<1>h. /\ pc[a] \in {"stream", "except", "finish", "loop", "answer", "close", "fail"} => bound = a
      /\ pc[a] = "clear" => target[a] = bound /\ target[a] \in Attempts
      /\ pc[a] = "stream" => seen[a] = "running"
      /\ pc[a] = "except" /\ seen[a] \in Ended => resp[a] = seen[a]
      /\ pc[a] # "stopped"
  BY <1>i, <1>t DEF BoundInv, ResponsesInv, SeenInv, ModeInv, TypeInv, TargetsKnown
<1>. HIDE DEF PC, RespStatus, EventKind, Terminal, Ended
<1>u. CASE UNCHANGED <<status, bound>>
  BY <1>u, <1>k, <1>t DEF EndIsTold
<1>s. CASE EndsRow /\ status' # status
  <2>b. bound' = bound
    BY <1>s DEF EndsRow
  <2>. USE DEF Leave, SetStatus
  <2>1. CASE StreamStops(a)
    <3>1. resp[a] = "canceled" /\ bound = a
      BY <2>1, <1>h, <1>t DEF StreamStops, PollCanceled
    <3>. QED BY <2>b, <3>1, <1>k
  <2>2. CASE StreamExcept(a) \/ FinishDirect(a)
    <3>1. bound = a /\ \E e \in Terminal : log' = [log EXCEPT ![a] = Append(@, e)]
      BY <1>s, <2>2, <1>h, <1>t DEF StreamExcept, FinishDirect, Goto, row
    <3>. QED BY <2>b, <3>1, <1>l, <1>t
  <2>3. CASE AgentClose(a)
    <3>1. bound = a /\ log' = [log EXCEPT ![a] = @ \o <<"closed", "finished">>]
      BY <1>s, <2>3, <1>h DEF AgentClose, Goto, row
    <3>2. log'[a] = Append(Append(log[a], "closed"), "finished")
      <4>1. "finished" \in EventKind
        BY DEF EventKind, Terminal
      <4>. QED BY <3>1, <4>1, <1>t, EventByEvent
    <3>3. Append(log[a], "closed") \in Seq(EventKind)
      BY <1>t
    <3>. QED BY <2>b, <3>1, <3>2, <3>3, <1>l, <1>t
  <2>4. CASE AgentFail(a)
    <3>e. "error" \in EventKind
      BY DEF EventKind, Terminal
    <3>1. PICK u \in {<<"closed", "error">>, <<"error">>, <<"text", "closed", "error">>} :
              log' = [log EXCEPT ![a] = @ \o u]
      BY <2>4 DEF AgentFail
    <3>2. bound = a /\ log'[a] = log[a] \o u
      BY <2>4, <3>1, <1>h, <1>t DEF AgentFail
    <3>3. \E s \in Seq(EventKind) : log[a] \o u = Append(s, "error")
      <4>1. CASE u = <<"closed", "error">>
        <5>1. log[a] \o u = Append(Append(log[a], "closed"), "error")
          BY <4>1, <3>e, <1>t, EventByEvent
        <5>2. Append(log[a], "closed") \in Seq(EventKind)
          BY <1>t
        <5>. QED BY <5>1, <5>2
      <4>2. CASE u = <<"error">>
        BY <4>2, <3>e, <1>t, EventByEvent
      <4>3. CASE u = <<"text", "closed", "error">>
        <5>1. log[a] \o u = Append(Append(Append(log[a], "text"), "closed"), "error")
          BY <4>3, <3>e, <1>t, EventByEvent
        <5>2. Append(Append(log[a], "text"), "closed") \in Seq(EventKind)
          BY <1>t
        <5>. QED BY <5>1, <5>2
      <4>. QED BY <4>1, <4>2, <4>3
    <3>. QED BY <2>b, <3>2, <3>3, <1>l, <1>t
  <2>5. CASE Rescue(a)
    BY <1>s, <2>5, <2>b DEF Rescue, row
  <2>6. CASE OrphanClear(a)
    <3>1. /\ target[a] = bound /\ bound \in Attempts /\ hasEnd[a] \in BOOLEAN
          /\ log' = [log EXCEPT ![target[a]] = IF hasEnd[a] THEN @ ELSE Append(@, EndEvent(a))]
      BY <1>s, <2>6, <1>h, <1>t DEF OrphanClear, Goto, row
    <3>2. CASE hasEnd[a]
      BY <2>6, <2>b, <3>1, <3>2, <1>k DEF OrphanClear, LogInv
    <3>3. CASE ~hasEnd[a]
      <4>1. EndEvent(a) \in Terminal
        BY DEF EndEvent, Terminal
      <4>. QED BY <2>b, <3>1, <3>3, <4>1, <1>l, <1>t
    <3>. QED BY <3>1, <3>2, <3>3
  <2>7. CASE ~StreamStops(a) /\ ~StreamExcept(a) /\ ~FinishDirect(a) /\ ~AgentClose(a)
             /\ ~AgentFail(a) /\ ~Rescue(a) /\ ~OrphanClear(a)
    <3>1. Binds(a) \/ status' = status
      BY <2>7, <1>h DEF Execute, AssertLease, LeaseLost, BindDirect, StreamText, StreamFails,
            CompleteResponse, LinkAgent, LinkFails, BindAgent, AgentLoop, AgentAnswer, AgentStopped,
            OrphanRead, Goto, row, Binds
    <3>. QED BY <3>1, <1>s, <1>t DEF Binds
  <2>. QED BY <2>1, <2>2, <2>3, <2>4, <2>5, <2>6, <2>7
<1>. QED BY <1>u, <1>s, <1>t, ExecuteRow DEF Binds, EndsRow, row

LEMMA EndIsToldStep ==
    ASSUME InteractionInv, InteractionInv', Tame, BoundInv, ModeInv, SeenInv, LogInv, EndIsTold,
           [Next]_vars
    PROVE  EndIsTold'
<1>i. TypeInv /\ FleetInv /\ ResponsesInv /\ log' \in [Attempts -> Seq(EventKind)]
  BY DEF InteractionInv, TypeInv, TypeOK
<1>t. /\ \A r \in Attempts : log[r] \in Seq(EventKind) /\ log'[r] \in Seq(EventKind)
      /\ mode \in {"direct", "agent"}
      /\ bound # 0 => bound \in Attempts
      /\ "running" \notin Ended /\ "queued" \notin Ended /\ "canceled" \in Ended
  BY <1>i, InteractionAssumption DEF TypeInv, TypeOK, Attempts, Ended
<1>g. \A r \in Attempts : Grows(log[r], log'[r])
  BY LogGrows
<1>u. CASE UNCHANGED <<status, bound>>
  <2>1. /\ \A r \in Attempts : Ends(log[r]) \subseteq Ends(log'[r])
        /\ \A r \in Attempts : resp[r] = "canceled" => resp'[r] = "canceled"
    BY <1>g, <1>i, <1>t, GrowsKeeps, ResponseStep
  <2>. QED BY <1>u, <1>t, <2>1 DEF EndIsTold
<1>1. ASSUME NEW a \in Attempts, Execute(a) PROVE EndIsTold'
  BY <1>1, <1>g, <1>i, ExecuteEndIsTold
<1>2. ASSUME NEW w \in Workers, Claim(w) PROVE EndIsTold'
  BY <1>2, <1>t DEF Claim, EndIsTold
<1>3. ASSUME NEW r \in Attempts, Cancel(r) PROVE EndIsTold'
  <2>1. resp[r] = "running" /\ resp'[r] = "canceled" /\ bound' = bound
    BY <1>3, <1>i, CancelResponse
  <2>2. mode = "direct"
    BY <1>3, <1>t DEF Cancel, Tame
  <2>3. r = bound
    BY <2>1, <2>2 DEF ModeInv
  <2>. QED BY <2>1, <2>3 DEF EndIsTold
<1>4. ASSUME NEW w \in Workers, Crash(w) \/ Drain(w) \/ Renew(w) PROVE UNCHANGED <<status, bound>>
  BY <1>4 DEF Crash, Drain, Renew, row
<1>5. ASSUME NEW w \in Workers, ReleaseClaims(w) PROVE EndIsTold'
  BY <1>5, <1>t, <1>u DEF ReleaseClaims, SetStatus, row, EndIsTold
<1>6. Lapse \/ CancelTold \/ UNCHANGED vars => UNCHANGED <<status, bound>>
  BY DEF Lapse, CancelTold, vars, row
<1>. QED BY <1>u, <1>1, <1>2, <1>3, <1>4, <1>5, <1>6 DEF Next

(* A response stays bound, and an interaction that ended stays so.         *)
LEMMA EndStays ==
    ASSUME InteractionInv, Tame, BoundInv, ModeInv, [Next]_vars
    PROVE  /\ bound # 0 => bound' = bound
           /\ status \in Ended => status' \in Ended
<1>i. TypeInv /\ FleetInv
  BY DEF InteractionInv
<1>t. "running" \notin Ended /\ "queued" \notin Ended /\ "canceled" \in Ended
  BY DEF Ended
<1>o. owner # NoWorker => status = "running"
  BY <1>i DEF FleetInv
<1>. HIDE DEF Ended
<1>1. ASSUME NEW a \in Attempts, Execute(a)
      PROVE  (bound # 0 => bound' = bound) /\ (status \in Ended => status' \in Ended)
  <2>1. Binds(a) => bound = 0 /\ status \notin Ended
    <3>1. Active(a)
      BY <1>1, ExecuteFrame
    <3>. QED BY <3>1, <1>t DEF Binds, BoundInv, ModeInv
  <2>. QED BY <1>1, <2>1, ExecuteRow DEF EndsRow, row
<1>2. ASSUME NEW w \in Workers, Claim(w)
      PROVE  (bound # 0 => bound' = bound) /\ (status \in Ended => status' \in Ended)
  BY <1>2, <1>t DEF Claim, Claimable
<1>3. ASSUME NEW w \in Workers, Crash(w) \/ Drain(w) \/ Renew(w) PROVE UNCHANGED <<status, bound>>
  BY <1>3 DEF Crash, Drain, Renew, row
<1>4. ASSUME NEW w \in Workers, ReleaseClaims(w)
      PROVE  (bound # 0 => bound' = bound) /\ (status \in Ended => status' \in Ended)
  <2>1. w # NoWorker
    BY InteractionAssumption
  <2>. QED BY <1>4, <1>o, <1>t, <2>1 DEF ReleaseClaims, Releasable, SetStatus, row
<1>5. ASSUME NEW r \in Attempts, Cancel(r) PROVE bound' = bound /\ status' \in Ended
  BY <1>5, <1>i, <1>t, CancelResponse
<1>6. Lapse \/ CancelTold \/ UNCHANGED vars => UNCHANGED <<status, bound>>
  BY DEF Lapse, CancelTold, vars, row
<1>. QED BY <1>1, <1>2, <1>3, <1>4, <1>5, <1>6 DEF Next

(* Everything up to the cursor, and what a page adds to it. *)
Whole(n) == [i \in 1..n |-> i]

LEMMA WholeIs ==
    ASSUME NEW n \in Nat, NEW s \in Seq(Nat), Len(s) = n, \A i \in 1..n : s[i] = i
    PROVE  s = Whole(n)
<1>1. s = [i \in 1..n |-> s[i]]
  OBVIOUS
<1>2. [i \in 1..n |-> s[i]] = [i \in 1..n |-> i]
  OBVIOUS
<1>. QED BY <1>1, <1>2 DEF Whole

LEMMA EventsFollow ==
    ASSUME NEW m \in Nat, NEW n \in Nat
    PROVE  /\ Events(m, n) \in Seq(Nat)
           /\ Len(Events(m, n)) = IF m <= n THEN n - m ELSE 0
           /\ Whole(m) \o Events(m, n) = Whole(m + Len(Events(m, n)))
<1>. DEFINE k == IF m <= n THEN n - m ELSE 0
<1>1. k \in Nat /\ 1..(n - m) = 1..k
  OBVIOUS
<1>2. Events(m, n) = [i \in 1..k |-> m + i]
  BY <1>1 DEF Events
<1>3. Events(m, n) \in Seq(Nat) /\ Len(Events(m, n)) = k
  <2>. HIDE DEF k
  <2>. QED BY <1>1, <1>2
<1>4. Whole(m) \in Seq(Nat) /\ Len(Whole(m)) = m /\ \A i \in 1..m : Whole(m)[i] = i
  BY DEF Whole
<1>5. Whole(m) \o Events(m, n) = Whole(m + k)
  <2>. HIDE DEF k
  <2>1. /\ Whole(m) \o Events(m, n) \in Seq(Nat)
        /\ Len(Whole(m) \o Events(m, n)) = m + k
    BY <1>1, <1>3, <1>4
  <2>2. \A i \in 1..m : (Whole(m) \o Events(m, n))[i] = i
    BY <1>1, <1>3, <1>4
  <2>3. \A i \in (m + 1)..(m + k) : (Whole(m) \o Events(m, n))[i] = i
    <3>. SUFFICES ASSUME NEW i \in (m + 1)..(m + k)
                  PROVE  (Whole(m) \o Events(m, n))[i] = i
      OBVIOUS
    <3>1. i - m \in 1..k /\ (Whole(m) \o Events(m, n))[i] = Events(m, n)[i - m]
      BY <1>1, <1>3, <1>4
    <3>2. Events(m, n)[i - m] = m + (i - m)
      BY <1>2, <3>1
    <3>. QED BY <3>1, <3>2
  <2>4. \A i \in 1..(m + k) : i \in 1..m \/ i \in (m + 1)..(m + k)
    BY <1>1
  <2>5. \A i \in 1..(m + k) : (Whole(m) \o Events(m, n))[i] = i
    BY <2>2, <2>3, <2>4
  <2>6. m + k \in Nat
    BY <1>1
  <2>. QED BY <2>1, <2>5, <2>6, WholeIs
<1>. QED BY <1>3, <1>5

Follows == at \in {"tail", "status", "last", "done"}

FollowInv ==
    /\ StreamTypeOK
    /\ Follows => followed \in Attempts
    /\ since <= cursor
    /\ told = Whole(cursor)

(* How the client learnt of the end. *)
EndSeen ==
    \/ \E i \in 1..cursor : i \in Ends(log[followed])
    \/ full
    \/ resp[followed] = "canceled" /\ "closed" \in Kinds(log[followed])

(* Once the client knows that the interaction ended it has, and stays so.  *)
EndInv ==
    /\ Follows => followed = bound
    /\ at = "last" => status \in Ended
    /\ at = "done" => EndSeen

LEMMA FollowStep == TypeInv /\ FollowInv /\ [StreamNext]_streamVars => FollowInv'
<1>. SUFFICES ASSUME TypeInv, FollowInv, [StreamNext]_streamVars PROVE FollowInv'
  OBVIOUS
<1>t. /\ Page \in Nat /\ MaxReconnects \in Nat
      /\ at \in {"absent", "claimed", "refused", "tail", "status", "last", "done"}
      /\ followed \in 0..MaxAttempts /\ cursor \in Nat /\ since \in Nat
      /\ told \in Seq(Nat) /\ full \in BOOLEAN /\ reconnects \in 0..MaxReconnects
      /\ since <= cursor /\ told = Whole(cursor)
      /\ Follows => followed \in Attempts
      /\ bound \in 0..MaxAttempts
  BY StreamAssumption DEF FollowInv, StreamTypeOK, TypeInv, TypeOK
<1>p. Follows => \A n \in Nat : PageEnd(n) \in Nat
  BY <1>t DEF PageEnd, TypeInv, TypeOK
<1>w. \A n \in Nat : Whole(n) \in Seq(Nat)
  BY DEF Whole
<1>1. CASE UNCHANGED reader
  BY <1>1, <1>t DEF reader, FollowInv, StreamTypeOK, Follows
<1>2. CASE AwaitResponse
  BY <1>2, <1>t DEF AwaitResponse, FollowInv, StreamTypeOK, Follows, Attempts
<1>3. CASE TailEvents
  <2>. DEFINE events == Events(cursor, PageEnd(cursor))
  <2>1. /\ told' = told \o events /\ cursor' = cursor + Len(events)
        /\ at' \in {"tail", "status"} /\ since' \in {0, cursor}
        /\ UNCHANGED <<followed, full, reconnects>> /\ Follows
    BY <1>3 DEF TailEvents, Listing, Follows
  <2>2. Len(events) \in Nat /\ told' = Whole(cursor')
    <3>1. PageEnd(cursor) \in Nat
      BY <1>t, <1>p, <2>1
    <3>2. events \in Seq(Nat) /\ Whole(cursor) \o events = Whole(cursor + Len(events))
      BY <1>t, <3>1, EventsFollow
    <3>. HIDE DEF events
    <3>. QED BY <1>t, <2>1, <3>2
  <2>. HIDE DEF events
  <2>3. cursor' \in Nat /\ since' \in Nat /\ since' <= cursor'
    BY <1>t, <2>1, <2>2
  <2>4. told' \in Seq(Nat)
    BY <1>w, <2>2, <2>3
  <2>. QED BY <1>t, <2>1, <2>2, <2>3, <2>4 DEF FollowInv, StreamTypeOK, Follows
<1>4. CASE TailStatus
  <2>1. at' \in {"last", "tail"} /\ since' \in {0, since}
    BY <1>4 DEF TailStatus
  <2>. QED BY <1>4, <1>t, <2>1 DEF TailStatus, FollowInv, StreamTypeOK, Follows
<1>5. CASE TailLast
  <2>. DEFINE events == Events(cursor, PageEnd(since))
  <2>1. /\ told' = told \o events /\ cursor' = cursor + Len(events)
        /\ at' = "done" /\ since' = 0 /\ full' \in BOOLEAN
        /\ UNCHANGED <<followed, reconnects>> /\ Follows
    BY <1>5 DEF TailLast, Follows
  <2>2. Len(events) \in Nat /\ told' = Whole(cursor')
    <3>1. PageEnd(since) \in Nat
      BY <1>t, <1>p, <2>1
    <3>2. events \in Seq(Nat) /\ Whole(cursor) \o events = Whole(cursor + Len(events))
      BY <1>t, <3>1, EventsFollow
    <3>. HIDE DEF events
    <3>. QED BY <1>t, <2>1, <3>2
  <2>. HIDE DEF events
  <2>3. cursor' \in Nat /\ since' <= cursor' /\ told' \in Seq(Nat)
    BY <1>t, <1>w, <2>1, <2>2
  <2>. QED BY <1>t, <2>1, <2>2, <2>3 DEF FollowInv, StreamTypeOK, Follows
<1>6. CASE Reconnect
  <2>1. PICK n \in 0..Len(told) : told' = SubSeq(told, 1, n) /\ cursor' = IF n = 0 THEN 0 ELSE told[n]
    BY <1>6 DEF Reconnect
  <2>2. Len(told) = cursor /\ \A i \in 1..cursor : told[i] = i
    BY <1>t DEF Whole
  <2>3. n \in Nat /\ n <= cursor /\ cursor' = n
    BY <1>t, <2>1, <2>2
  <2>4. told' = Whole(n)
    <3>1. SubSeq(told, 1, n) = [i \in 1..n |-> told[i]]
      BY <1>t, <2>2, <2>3
    <3>. QED BY <1>t, <2>1, <2>2, <2>3, <3>1 DEF Whole
  <2>5. /\ at' = "tail" /\ since' = 0 /\ full' = FALSE
        /\ reconnects' \in 0..MaxReconnects /\ followed' = followed /\ Follows
    BY <1>6, <1>t DEF Reconnect, Follows
  <2>6. told' \in Seq(Nat) /\ cursor' \in Nat /\ since' <= cursor'
    BY <1>w, <2>3, <2>4, <2>5
  <2>. QED BY <1>t, <2>3, <2>4, <2>5, <2>6 DEF FollowInv, StreamTypeOK, Follows
<1>. QED BY <1>1, <1>2, <1>3, <1>4, <1>5, <1>6 DEF StreamNext, Follow, streamVars

(* While others go on, what the client has been told stays true. *)
LEMMA EndInvKept ==
    ASSUME InteractionInv, InteractionInv', FollowInv, Tame, BoundInv, ModeInv, LogInv, EndInv,
           [Next]_vars, UNCHANGED reader
    PROVE  EndInv'
<1>1. /\ bound # 0 => bound' = bound
      /\ status \in Ended => status' \in Ended
  BY EndStays
<1>2. Follows' = Follows /\ (Follows => followed \in Attempts /\ followed # 0)
  BY DEF Follows, reader, FollowInv, Attempts
<1>3. ASSUME Follows, EndSeen PROVE EndSeen'
  <2>1. /\ log[followed] \in Seq(EventKind) /\ log'[followed] \in Seq(EventKind)
        /\ TypeInv /\ ResponsesInv
    BY <1>2, <1>3 DEF InteractionInv, TypeInv, TypeOK
  <2>2. /\ Kinds(log[followed]) \subseteq Kinds(log'[followed])
        /\ Ends(log[followed]) \subseteq Ends(log'[followed])
    BY <1>2, <1>3, <2>1, LogGrows, GrowsKeeps
  <2>3. resp[followed] = "canceled" => resp'[followed] = "canceled"
    BY <1>2, <1>3, <2>1, ResponseStep DEF Ended
  <2>. QED BY <1>3, <2>2, <2>3 DEF EndSeen, reader
<1>. QED BY <1>1, <1>2, <1>3 DEF EndInv, Follows, reader

LEMMA EndInvStep ==
    ASSUME InteractionInv, InteractionInv', FollowInv, Tame, BoundInv, ModeInv, VerdictAgrees, LogInv, EndIsTold,
           EndInv, [StreamNext]_streamVars
    PROVE  EndInv'
<1>t. /\ Page \in Nat \ {0} /\ cursor \in Nat /\ since \in Nat
      /\ at \in {"absent", "claimed", "refused", "tail", "status", "last", "done"}
      /\ Follows => followed \in Attempts /\ followed # 0 /\ log[followed] \in Seq(EventKind)
      /\ Follows => followed = bound
  <2>1. /\ Page \in Nat \ {0} /\ cursor \in Nat /\ since \in Nat
        /\ at \in {"absent", "claimed", "refused", "tail", "status", "last", "done"}
    BY StreamAssumption DEF FollowInv, StreamTypeOK
  <2>2. log \in [Attempts -> Seq(EventKind)] /\ 0 \notin Attempts
    BY DEF InteractionInv, TypeInv, TypeOK, Attempts
  <2>. QED BY <2>1, <2>2 DEF FollowInv, EndInv
<1>1. CASE [Next]_vars /\ UNCHANGED reader
  BY <1>1, EndInvKept
<1>2. CASE AwaitResponse /\ UNCHANGED vars
  BY <1>2, <1>t DEF AwaitResponse, vars, row, EndInv, Follows
<1>3. CASE (TailEvents \/ TailStatus \/ Reconnect) /\ UNCHANGED vars
  <2>1. /\ at' \in {"tail", "status", "last"}
        /\ at' = "last" => status \in Ended
        /\ followed' = followed /\ Follows
    BY <1>3 DEF TailEvents, TailStatus, Reconnect, Follows
  <2>. QED BY <1>3, <2>1, <1>t DEF vars, row, EndInv, Follows
<1>4. CASE TailLast /\ UNCHANGED vars
  <2>1. /\ cursor' = cursor + Len(Events(cursor, PageEnd(since)))
        /\ full' = (Len(Events(since, PageEnd(since))) = Page)
        /\ at' = "done" /\ followed' = followed /\ Follows /\ at = "last"
    BY <1>4 DEF TailLast, Follows, Listing
  <2>2. log' = log /\ resp' = resp /\ bound' = bound
    BY <1>4 DEF vars, row, outcome
  <2>3. Len(log[followed]) \in Nat /\ PageEnd(since) \in Nat
    <3>. HIDE DEF EventKind
    <3>. QED BY <1>t, <2>1 DEF PageEnd
  <2>4. ASSUME ~full' PROVE Len(log[followed]) <= cursor'
    <3>1. Len(log[followed]) < since + Page
      <4>1. Len(Events(since, PageEnd(since))) = IF since <= PageEnd(since) THEN PageEnd(since) - since ELSE 0
        BY <1>t, <2>3, EventsFollow
      <4>2. Len(Events(since, PageEnd(since))) # Page
        BY <2>1, <2>4
      <4>3. PageEnd(since) = IF Len(log[followed]) < since + Page
                               THEN Len(log[followed]) ELSE since + Page
        BY DEF PageEnd
      <4>. QED BY <1>t, <2>3, <4>1, <4>2, <4>3
    <3>2. PageEnd(since) = Len(log[followed])
      BY <3>1 DEF PageEnd
    <3>3. Len(Events(cursor, PageEnd(since))) =
              IF cursor <= PageEnd(since) THEN PageEnd(since) - cursor ELSE 0
      BY <1>t, <2>3, EventsFollow
    <3>. QED BY <1>t, <2>1, <2>3, <3>2, <3>3
  <2>5. ASSUME ~full' PROVE EndSeen'
    <3>1. status \in Ended /\ bound \in Attempts /\ bound # 0 /\ followed = bound
      BY <1>t, <2>1 DEF EndInv
    <3>2. CASE Ends(log[bound]) # {}
      <4>1. PICK i : i \in Ends(log[bound])
        BY <3>2
      <4>2. i \in 1..Len(log[bound])
        <5>. HIDE DEF EventKind
        <5>. QED BY <1>t, <2>1, <3>1, <4>1 DEF Ends
      <4>3. cursor' \in Nat
        BY <1>t, <2>1, <2>3, EventsFollow
      <4>4. i \in 1..cursor'
        BY <2>3, <2>4, <2>5, <3>1, <4>2, <4>3
      <4>. QED BY <2>1, <2>2, <3>1, <4>1, <4>4 DEF EndSeen
    <3>3. CASE Ends(log[bound]) = {}
      <4>1. resp[bound] = "canceled" /\ "closed" \in Kinds(log[bound])
        BY <3>1, <3>3 DEF EndIsTold, LogInv
      <4>. QED BY <2>1, <2>2, <3>1, <4>1 DEF EndSeen
    <3>. QED BY <3>2, <3>3
  <2>. QED BY <1>t, <2>1, <2>2, <2>5 DEF EndInv, EndSeen, Follows
<1>. QED BY <1>1, <1>2, <1>3, <1>4 DEF StreamNext, Follow, streamVars

(* What a client needs of the interaction, as far as it is tame. *)
TameFollowed == Tame => LogInv /\ EndIsTold /\ EndInv

StreamInv == InteractionInv /\ TameInv /\ FollowInv /\ TameFollowed

(* A client has the events of the response it follows in order, each once, *)
(* however often its connection broke; and when its stream ends, the last  *)
(* of them says how the interaction ended, but for a listing that was full *)
(* and a response canceled with its text open.                             *)
THEOREM StreamIsWholeHolds == StreamSpec => []StreamIsWhole
<1>1. StreamInit => StreamInv
  <2>. SUFFICES ASSUME StreamInit PROVE StreamInv
    OBVIOUS
  <2>1. Init
    BY DEF StreamInit
  <2>2. InteractionInv /\ TameInv /\ TameLogs
    BY <2>1, InitInteraction, InitTame, InitLog
  <2>3. FollowInv
    <3>1. Whole(0) = <<>>
      BY DEF Whole
    <3>2. followed = 0 /\ 0 \in 0..MaxAttempts /\ reconnects = 0 /\ 0 \in 0..MaxReconnects
      BY StreamAssumption, InteractionAssumption DEF StreamInit
    <3>3. cursor = 0 /\ since = 0 /\ told = <<>> /\ full = FALSE /\ at \in {"claimed", "absent"}
      BY DEF StreamInit
    <3>4. <<>> \in Seq(Nat)
      OBVIOUS
    <3>5. StreamTypeOK
      BY <3>2, <3>3, <3>4 DEF StreamTypeOK
    <3>. QED BY <3>1, <3>3, <3>5 DEF FollowInv, Follows
  <2>4. EndIsTold /\ EndInv
    BY <2>1 DEF Init, StreamInit, EndIsTold, EndInv, Follows, Ended
  <2>. QED BY <2>2, <2>3, <2>4 DEF StreamInv, TameFollowed, TameLogs
<1>2. StreamInv /\ [StreamNext]_streamVars => StreamInv'
  <2>. SUFFICES ASSUME StreamInv, [StreamNext]_streamVars PROVE StreamInv'
    OBVIOUS
  <2>1. [Next]_vars
    BY DEF StreamNext, streamVars
  <2>2. /\ InteractionInv' /\ TameInv' /\ UNCHANGED setting /\ (Tame' <=> Tame)
    BY <2>1, StepInteraction, TameStep, TameKept DEF StreamInv
  <2>3. FollowInv'
    BY FollowStep DEF StreamInv, InteractionInv
  <2>4. ASSUME Tame' PROVE LogInv' /\ EndIsTold' /\ EndInv'
    <3>1. /\ Tame /\ BoundInv /\ ModeInv /\ ModeInv' /\ SeenInv /\ VerdictAgrees
          /\ LogInv /\ EndIsTold /\ EndInv
      BY <2>2, <2>4 DEF StreamInv, TameInv, TameFollowed
    <3>. QED BY <2>1, <2>2, <3>1, LogStep, EndIsToldStep, EndInvStep DEF StreamInv
  <2>. QED BY <2>2, <2>3, <2>4 DEF StreamInv, TameFollowed
<1>3. StreamInv => StreamIsWhole
  <2>. SUFFICES ASSUME StreamInv PROVE StreamIsWhole
    OBVIOUS
  <2>1. told = [i \in 1..cursor |-> i]
    BY DEF StreamInv, FollowInv, Whole
  <2>2. ASSUME Tame, at = "done"
        PROVE  \/ \E i \in 1..cursor : log[followed][i] \in Terminal
               \/ full
               \/ resp[followed] = "canceled" /\ "closed" \in Log(followed)
    BY <2>2 DEF StreamInv, TameFollowed, EndInv, EndSeen, Ends, Kinds, Log
  <2>. QED BY <2>1, <2>2 DEF StreamIsWhole
<1>. QED BY <1>1, <1>2, <1>3, PTL DEF StreamSpec

=============================================================================
