------------------------ MODULE KnowledgeIngest_proofs ------------------------
(***************************************************************************)
(* Proofs about the ingestion of a document: what its rows say when        *)
(* nothing is under way, and what a deletion leaves.                       *)
(***************************************************************************)
EXTENDS KnowledgeIngest, TLAPS

(***************************************************************************)
(* Types.                                                                  *)
(***************************************************************************)
Places == {"claimed", "parse", "embed", "mark", "close", "finish", "failing", "requeue"}

Working == [at : Places, run : Nat, retries : Nat, saw : RunStatus \cup {"none"}]

Requests == [at : {"cancel", "retry", "retry run", "retry task", "redrive"}, owner : 0..MaxAttempts]
            \cup [at : {"delete"}, chunks : SUBSET Attempt]

ActorType ==
    /\ attempt \in [Attempt -> {Idle, Over} \cup Working]
    /\ member \in {Idle} \cup Requests
    /\ \A a \in Attempt : Live(a) /\ ~At(a, "claimed") => attempt[a].run # NoRun

TypeInv == TypeOK /\ ActorType

LEMMA WorkingFields ==
    ASSUME NEW x \in Working
    PROVE  /\ x.at \in Places /\ x.run \in Nat /\ x.retries \in Nat
           /\ x.saw \in RunStatus \cup {"none"}
           /\ x # Idle /\ x # Over
BY DEF Working, Places, Idle, Over

LEMMA Active ==
    ASSUME TypeInv, NEW a \in Attempt
    PROVE  /\ Live(a) <=> attempt[a] \in Working
           /\ Live(a) <=> attempt[a].at \in Places
           /\ attempt[a] = Idle \/ attempt[a] = Over \/ attempt[a] \in Working
           /\ Idle.at = "idle" /\ Over.at = "over"
<1>1. attempt[a] \in {Idle, Over} \cup Working
  BY DEF TypeInv, ActorType
<1>2. Idle.at \notin Places /\ Over.at \notin Places
  BY DEF Idle, Over, Places
<1>3. Idle.at = "idle" /\ Over.at = "over"
  BY DEF Idle, Over
<1>4. Idle \notin Working /\ Over \notin Working
  BY WorkingFields
<1>5. \A x \in Working : x.at \in Places
  BY WorkingFields
<1>. QED BY <1>1, <1>2, <1>3, <1>4, <1>5 DEF Live

(* An attempt moves to another place, or is over. *)
LEMMA GoesTo ==
    ASSUME TypeInv, NEW a \in Attempt, attempt[a] \in Working, NEW p \in Places, Goes(a, p)
    PROVE  /\ attempt' \in [Attempt -> {Idle, Over} \cup Working]
           /\ attempt'[a] \in Working /\ attempt'[a].at = p
           /\ attempt'[a].run = attempt[a].run /\ attempt'[a].retries = attempt[a].retries
           /\ attempt'[a].saw = attempt[a].saw
           /\ \A b \in Attempt : b # a => attempt'[b] = attempt[b]
<1>1. attempt \in [Attempt -> {Idle, Over} \cup Working]
  BY DEF TypeInv, ActorType
<1>. DEFINE x == [attempt[a] EXCEPT !.at = p]
<1>2. attempt' = [attempt EXCEPT ![a] = x]
  BY DEF Goes
<1>3. /\ x \in Working /\ x.at = p /\ x.run = attempt[a].run
      /\ x.retries = attempt[a].retries /\ x.saw = attempt[a].saw
  BY DEF Working
<1>. HIDE DEF x, Working
<1>. QED BY <1>1, <1>2, <1>3

LEMMA EndsAt ==
    ASSUME TypeInv, NEW a \in Attempt, Ends(a)
    PROVE  /\ attempt' \in [Attempt -> {Idle, Over} \cup Working]
           /\ attempt'[a] = Over
           /\ \A b \in Attempt : b # a => attempt'[b] = attempt[b]
<1>1. attempt \in [Attempt -> {Idle, Over} \cup Working]
  BY DEF TypeInv, ActorType
<1>. HIDE DEF Working, Over, Idle
<1>. QED BY <1>1 DEF Ends

(* What a conditional update of a run that is not finished can do. *)
LEMMA RunMoves ==
    ASSUME NEW seen, NEW old \in RunStatus, NEW target \in RunStatus
    PROVE  LET moved == ConditionalMove(RunTransitions, seen, old, target)
           IN  /\ moved.ok \in BOOLEAN /\ moved.row \in RunStatus
               /\ moved.seen = seen \/ moved.seen \in RunStatus
BY DEF ConditionalMove

(* From running a run succeeds and fails. *)
LEMMA RunEnds ==
    ASSUME NEW target \in {"succeeded", "failed"}
    PROVE  /\ ConditionalMove(RunTransitions, "running", "running", target).ok
           /\ ConditionalMove(RunTransitions, "running", "running", target).row = target
<1>1. "running" \in RunStatus
  BY DEF RunStatus
<1>2. target \in RunTransitions["running"]
  BY <1>1 DEF RunTransitions, Unsuccessful, RunStatus
<1>. QED BY <1>2 DEF ConditionalMove

(***************************************************************************)
(* What a deletion leaves.                                                 *)
(***************************************************************************)

(* A vector has the id of a chunk, until the deletion that removes both    *)
(* has written; from then on nobody works on the document.                 *)
Traceable ==
    ~raced =>
        /\ vectors \subseteq Stored
        /\ \A a \in Attempt : At(a, "embed") => chunks[a] # "none"

Removing ==
    ~raced =>
        /\ document.gone \/ member.at = "delete" =>
                vectors = {} /\ \A a \in Attempt : Live(a) => At(a, "claimed")
        /\ member.at = "delete" => Stored \subseteq member.chunks

DeleteInv == TypeInv /\ Traceable /\ Removing /\ DeletedIsGone

(***************************************************************************)
(* What is agreed while attempts follow one another.                       *)
(***************************************************************************)

(* The attempt under way is the one the task names, and holds the lease. *)
Alone ==
    /\ task.status # "canceled"
    /\ \A a \in Attempt :
        /\ a > task.attempt => attempt[a] = Idle
        /\ Live(a) => /\ a = task.attempt /\ task.owner = a
                      /\ task.status = "running" /\ ~task.lapsed
                      /\ attempt[a].run = task.run

(* Past its beginning it has a running run, as it knows. *)
RunsOn ==
    \A a \in Attempt :
        /\ Live(a) /\ ~At(a, "claimed") /\ ~At(a, "requeue") =>
            task.run # NoRun /\ run[task.run] = "running" /\ attempt[a].saw = "running"

(* An attempt's vectors are there, or a deletion under way or lost took    *)
(* them.                                                                   *)
Stayed(a) == a \in vectors \cup bared \/ (member.at = "delete" /\ a \in member.chunks)

Kept == ~document.gone

(* How far document, chunk and vector are, place by place. *)
Progress ==
    Kept => \A a \in Attempt :
        /\ At(a, "embed") => chunks[a] = "pending"
        /\ At(a, "mark") => chunks[a] = "pending" /\ Stayed(a)
        /\ At(a, "close") \/ At(a, "finish") => chunks[a] = "indexed" /\ Stayed(a)
        /\ At(a, "finish") => document.status = "indexed"
        /\ At(a, "failing") => document.status = "failed"

(* What a finished task says holds until a member has it tried again. *)
Retrying == member.at \in {"retry run", "retry task"}

Outcome ==
    Kept =>
        /\ task.status = "succeeded" =>
            /\ document.status = "indexed" /\ task.run # NoRun /\ run[task.run] = "succeeded"
            /\ \E a \in Attempt : Stayed(a) /\ chunks[a] = "indexed"
        /\ task.status = "failed" =>
            /\ document.status = IF torn \/ Retrying THEN "queued" ELSE "failed"
            /\ IF task.run = NoRun THEN torn \/ member.at = "retry task"
                                   ELSE run[task.run] = "failed"

Repeating ==
    torn \/ member.at \in {"retry", "retry run", "retry task", "redrive"} => task.status = "failed"

AgreeInv == TypeInv /\ (~beside => Alone /\ RunsOn /\ Progress /\ Outcome /\ Repeating)

-----------------------------------------------------------------------------
(* Types are kept. *)

TaskRow(runs) ==
    [status : {"queued", "running"} \cup Finished, owner : 0..MaxAttempts,
     lapsed : BOOLEAN, retries : Nat, run : 0..runs, attempt : 0..MaxAttempts]

DocumentRow == [status : {"queued", "working", "indexed", "failed", "deleted"}, gone : BOOLEAN]

Attempts == [Attempt -> {Idle, Over} \cup Working]

(* A lane of the type invariant for the rows, and one for the attempts. *)
RowsOK ==
    /\ run \in Seq(RunStatus) /\ task \in TaskRow(Len(run)) /\ document \in DocumentRow
    /\ chunks \in [Attempt -> {"none", "pending", "indexed"}] /\ vectors \subseteq Attempt

ActorsOK ==
    /\ attempt \in Attempts /\ member \in {Idle} \cup Requests
    /\ \A a \in Attempt : attempt[a] \in Working =>
        attempt[a].run <= Len(run) /\ (attempt[a].at # "claimed" => attempt[a].run # NoRun)

HistoryOK ==
    /\ raced \in BOOLEAN /\ beside \in BOOLEAN /\ trouble \in 0..MaxTrouble
    /\ torn \in BOOLEAN /\ bared \subseteq Attempt

LEMMA TypeParts == TypeInv <=> RowsOK /\ ActorsOK /\ HistoryOK
<1>. USE DEF TypeInv, TypeOK, ActorType, RowsOK, ActorsOK, HistoryOK, TaskRow, DocumentRow, Attempts
<1>. HIDE DEF Working, Requests
<1>1. ASSUME TypeInv PROVE RowsOK /\ ActorsOK /\ HistoryOK
  <2>1. RowsOK /\ HistoryOK
    BY <1>1
  <2>2. Len(run) \in Nat
    BY <1>1
  <2>3. ASSUME NEW a \in Attempt, attempt[a] \in Working PROVE attempt[a].run <= Len(run) /\ (attempt[a].at # "claimed" => attempt[a].run # NoRun)
    <3>1. Live(a)
      BY <1>1, <2>3, Active
    <3>2. attempt[a].run \in 0..Len(run)
      BY <1>1, <3>1
    <3>3. attempt[a].at # "claimed" => attempt[a].run # NoRun
      BY <1>1, <3>1 DEF At
    <3>. QED BY <2>2, <3>2, <3>3
  <2>. QED BY <1>1, <2>1, <2>3
<1>2. ASSUME RowsOK, ActorsOK, HistoryOK PROVE TypeInv
  <2>1. ASSUME NEW a \in Attempt, Live(a)
        PROVE  /\ attempt[a].run \in 0..Len(run) /\ attempt[a].retries \in Nat
               /\ attempt[a].saw \in RunStatus \cup {"none"}
               /\ ~At(a, "claimed") => attempt[a].run # NoRun
    <3>1. attempt[a] \in Working
      BY <1>2, <2>1 DEF Live
    <3>4. ~At(a, "claimed") => attempt[a].run # NoRun
      BY <1>2, <3>1 DEF At
    <3>2. attempt[a].run <= Len(run) /\ Len(run) \in Nat
      BY <1>2, <3>1
    <3>3. /\ attempt[a].run \in Nat /\ attempt[a].retries \in Nat
          /\ attempt[a].saw \in RunStatus \cup {"none"}
      BY <3>1, WorkingFields
    <3>. QED BY <3>2, <3>3, <3>4
  <2>2. ASSUME NEW a \in Attempt, Live(a)
        PROVE  /\ attempt[a].run \in 0..Len(run) /\ attempt[a].retries \in Nat
               /\ attempt[a].saw \in RunStatus \cup {"none"}
    BY <2>1, <2>2
  <2>3. ASSUME NEW a \in Attempt, Live(a), ~At(a, "claimed") PROVE attempt[a].run # NoRun
    BY <2>1, <2>3
  <2>. QED BY <1>2, <2>2, <2>3
<1>. QED BY <1>1, <1>2

LEMMA NextParts == RowsOK' /\ ActorsOK' /\ HistoryOK' => TypeInv'
BY TypeParts, PTL

LEMMA InitType == Init => TypeInv
<1>. SUFFICES ASSUME Init PROVE RowsOK /\ ActorsOK /\ HistoryOK
  BY TypeParts
<1>. USE IngestAssumption DEF Init
<1>1. "queued" \in RunStatus
  BY DEF RunStatus
<1>2. run \in Seq(RunStatus) /\ Len(run) = 1
  BY <1>1
<1>3. RowsOK
  BY <1>2 DEF RowsOK, TaskRow, DocumentRow, Finished, Nobody
<1>4. ActorsOK
  <2>1. \A a \in Attempt : attempt[a] = Idle
    OBVIOUS
  <2>2. Idle \notin Working
    BY WorkingFields
  <2>. HIDE DEF Working, Requests, Idle, Over
  <2>. QED BY <2>1, <2>2 DEF ActorsOK, Attempts
<1>5. HistoryOK
  <2>1. trouble \in 0..MaxTrouble
    OBVIOUS
  <2>2. raced \in BOOLEAN /\ beside \in BOOLEAN /\ torn \in BOOLEAN
    BY Zenon
  <2>3. bared \subseteq Attempt
    OBVIOUS
  <2>. QED BY <2>1, <2>2, <2>3 DEF HistoryOK
<1>. QED BY <1>3, <1>4, <1>5

(* The attempts' lane, where no attempt is given another run. *)
LEMMA KeepsRuns ==
    ASSUME TypeInv, run' \in Seq(RunStatus), Len(run') >= Len(run), attempt' \in Attempts,
           member' \in {Idle} \cup Requests,
           \A b \in Attempt : attempt'[b] \in Working =>
                /\ attempt[b] \in Working /\ attempt'[b].run = attempt[b].run
                /\ attempt'[b].at # "claimed" => attempt[b].at # "claimed"
    PROVE  ActorsOK'
<1>1. ActorsOK /\ run \in Seq(RunStatus)
  BY TypeParts DEF RowsOK
<1>2. Len(run) \in Nat /\ Len(run') \in Nat
  BY <1>1
<1>3. ASSUME NEW b \in Attempt, attempt'[b] \in Working 
      PROVE  attempt'[b].run <= Len(run') /\ (attempt'[b].at # "claimed" => attempt'[b].run # NoRun)
  <2>1. /\ attempt[b] \in Working /\ attempt'[b].run = attempt[b].run /\ attempt[b].run <= Len(run)
        /\ attempt'[b].at # "claimed" => attempt[b].run # NoRun
    BY <1>1, <1>3 DEF ActorsOK
  <2>2. attempt[b].run \in Nat
    BY <2>1, WorkingFields
  <2>. QED BY <1>2, <2>1, <2>2
<1>. QED BY <1>3 DEF ActorsOK

LEMMA Goer ==
    ASSUME TypeInv, NEW a \in Attempt, NEW q \in Places, NEW p \in Places, At(a, q), Goes(a, p)
    PROVE  /\ attempt' \in Attempts
           /\ attempt[a] \in Working /\ attempt'[a] \in Working /\ attempt'[a].at = p
           /\ attempt'[a].run = attempt[a].run /\ attempt'[a].retries = attempt[a].retries
           /\ attempt'[a].saw = attempt[a].saw
           /\ \A b \in Attempt : b # a => attempt'[b] = attempt[b]
<1>1. attempt[a] \in Working
  BY Active DEF At
<1>. HIDE DEF Places, Working
<1>. QED BY <1>1, GoesTo DEF Attempts

LEMMA Ender ==
    ASSUME TypeInv, NEW a \in Attempt, Ends(a)
    PROVE  /\ attempt' \in Attempts /\ attempt'[a] = Over /\ attempt'[a] \notin Working
           /\ \A b \in Attempt : b # a => attempt'[b] = attempt[b]
<1>1. Over \notin Working
  BY WorkingFields
<1>. HIDE DEF Working
<1>. QED BY <1>1, EndsAt DEF Attempts

(* The rows an action writes, by the fields that change. *)
LEMMA Recorded ==
    ASSUME TypeInv, NEW status \in {"queued", "running"} \cup Finished, NEW n \in Nat, Record(status, n)
    PROVE  /\ task' \in TaskRow(Len(run))
           /\ task'.status = status /\ task'.owner = Nobody /\ task'.lapsed = FALSE
           /\ task'.run = task.run /\ task'.attempt = task.attempt
<1>1. task \in TaskRow(Len(run))
  BY TypeParts DEF RowsOK
<1>2. Nobody \in 0..MaxAttempts
  BY IngestAssumption DEF Nobody
<1>. QED BY <1>1, <1>2 DEF Record, TaskRow

LEMMA MemberWrote ==
    ASSUME TypeInv, NEW status \in {"queued", "canceled"}, NEW number \in 0..Len(run),
           Writes(status, number)
    PROVE  /\ member' = Idle /\ task' \in TaskRow(Len(run))
           /\ task'.status = status /\ task'.run = number /\ task'.attempt = task.attempt
           /\ task'.lapsed = task.lapsed /\ torn' = FALSE /\ bared' = bared
<1>1. task \in TaskRow(Len(run))
  BY TypeParts DEF RowsOK
<1>2. Nobody \in 0..MaxAttempts
  BY IngestAssumption DEF Nobody
<1>. QED BY <1>1, <1>2 DEF Writes, TaskRow, Finished

LEMMA MoreTrouble == TypeInv /\ Troubles => trouble' \in 0..MaxTrouble
<1>1. ASSUME TypeInv PROVE trouble \in 0..MaxTrouble
  BY <1>1, TypeParts DEF HistoryOK
<1>. QED BY <1>1, IngestAssumption DEF Troubles

LEMMA MemberRead ==
    ASSUME TypeInv, NEW kind \in {"cancel", "retry", "redrive"}, NEW statuses,
           Reads(kind, statuses)
    PROVE  /\ member = Idle /\ member' \in Requests /\ member'.at = kind
           /\ task.status \in statuses /\ trouble' \in 0..MaxTrouble
           /\ UNCHANGED <<task, run, document, index, attempt, history>>
<1>1. task.owner \in 0..MaxAttempts
  BY TypeParts DEF RowsOK, TaskRow
<1>2. trouble' \in 0..MaxTrouble
  BY MoreTrouble DEF Reads
<1>. QED BY <1>1, <1>2 DEF Reads, Requests

LEMMA LongerRuns ==
    ASSUME NEW n \in Nat, NEW m \in Nat, m >= n, NEW t \in TaskRow(n)
    PROVE  t \in TaskRow(m)
BY DEF TaskRow

LEMMA TypeStep == TypeInv /\ [Next]_vars => TypeInv' /\ Len(run') >= Len(run)
<1>. SUFFICES ASSUME TypeInv, [Next]_vars PROVE RowsOK' /\ ActorsOK' /\ HistoryOK' /\ Len(run') >= Len(run)
  BY NextParts
<1>. USE DEF index, history, cut
<1>t. RowsOK /\ ActorsOK /\ HistoryOK
  BY TypeParts
<1>r. /\ run \in Seq(RunStatus) /\ Len(run) \in Nat
      /\ task \in TaskRow(Len(run)) /\ document \in DocumentRow
      /\ task.run \in 0..Len(run) /\ task.owner \in 0..MaxAttempts /\ task.retries \in Nat
      /\ task.attempt \in 0..MaxAttempts
      /\ member \in {Idle} \cup Requests /\ attempt \in Attempts
  BY <1>t DEF RowsOK, ActorsOK, TaskRow
<1>m. Idle \in {Idle} \cup Requests
  OBVIOUS
<1>. HIDE DEF Working, Requests, Places, Finished, Idle, Over, Nobody, RunStatus
<1>1. CASE UNCHANGED vars
  <2>1. UNCHANGED <<task, run, document, chunks, vectors, attempt, member, raced, beside, torn, bared, trouble>>
    BY <1>1 DEF vars
  <2>. QED BY <1>t, <1>r, <2>1 DEF RowsOK, ActorsOK, HistoryOK
<1>2. CASE Claim
  <2>1. PICK a \in Attempt : a = task.attempt + 1
    BY <1>2, <1>r, IngestAssumption DEF Claim, Attempt
  <2>. DEFINE x == [at |-> "claimed", run |-> task.run, retries |-> task.retries, saw |-> "none"]
  <2>2. /\ task' = [task EXCEPT !.status = "running", !.owner = a, !.lapsed = FALSE, !.attempt = a]
        /\ attempt' = [attempt EXCEPT ![a] = x]
        /\ UNCHANGED <<run, document, chunks, vectors, member, raced, beside, torn, bared, trouble>>
    BY <1>2, <2>1 DEF Claim
  <2>3. a \in 0..MaxAttempts
    BY DEF Attempt
  <2>4. task' \in TaskRow(Len(run))
    BY <1>r, <2>2, <2>3 DEF TaskRow
  <2>5. x \in Working /\ x.run = task.run /\ x.at = "claimed"
    BY <1>r DEF Working, Places
  <2>. HIDE DEF x
  <2>6. attempt' \in Attempts
    BY <1>r, <2>2, <2>5 DEF Attempts
  <2>7. \A b \in Attempt : attempt'[b] \in Working =>
            attempt'[b].run <= Len(run) /\ (attempt'[b].at # "claimed" => attempt'[b].run # NoRun)
    BY <1>t, <1>r, <2>2, <2>5 DEF ActorsOK, Attempts
  <2>. QED BY <1>t, <1>r, <2>2, <2>4, <2>6, <2>7 DEF RowsOK, ActorsOK, HistoryOK
<1>3. CASE Lapse
  <2>1. /\ task' = [task EXCEPT !.lapsed = TRUE]
        /\ UNCHANGED <<run, document, chunks, vectors, attempt, member, raced, torn, bared>>
        /\ (Troubles /\ beside' = TRUE) \/ UNCHANGED <<trouble, beside>>
    BY <1>3 DEF Lapse
  <2>3. trouble' \in 0..MaxTrouble /\ beside' \in BOOLEAN
    BY <1>t, <2>1, MoreTrouble DEF HistoryOK
  <2>2. task' \in TaskRow(Len(run))
    BY <1>r, <2>1 DEF TaskRow
  <2>. QED BY <1>t, <1>r, <2>1, <2>2, <2>3 DEF RowsOK, ActorsOK, HistoryOK
<1>4. CASE Members
  <2>1. CASE CancelReads \/ RetryReads \/ RedriveReads
    <3>2. /\ member' \in Requests /\ trouble' \in 0..MaxTrouble
          /\ UNCHANGED <<task, run, document, chunks, vectors, attempt, raced, beside, torn, bared>>
      BY <2>1, MemberRead DEF CancelReads, RetryReads, RedriveReads
    <3>3. member' \in {Idle} \cup Requests
      BY <3>2
    <3>4. RowsOK' /\ Len(run') >= Len(run)
      <4>1. UNCHANGED <<task, run, document, chunks, vectors>>
        BY <3>2
      <4>. QED BY <1>t, <1>r, <4>1 DEF RowsOK
    <3>5. ActorsOK'
      BY <1>t, <3>2, <3>3 DEF ActorsOK
    <3>6. HistoryOK'
      BY <1>t, <3>2 DEF HistoryOK
    <3>. QED BY <3>4, <3>5, <3>6
  <2>2. CASE CancelWrites \/ RetryTask \/ RedriveWrites
    <3>1. PICK status \in {"queued", "canceled"}, number \in 0..Len(run) : Writes(status, number)
      <4>1. CASE CancelWrites
        BY <1>r, <4>1 DEF CancelWrites
      <4>2. CASE RetryTask
        BY <1>r, <4>2 DEF RetryTask
      <4>3. CASE RedriveWrites
        BY <1>r, <4>3 DEF RedriveWrites
      <4>. QED BY <2>2, <4>1, <4>2, <4>3
    <3>2. UNCHANGED <<run, document, chunks, vectors, attempt, raced, trouble>> /\ beside' \in BOOLEAN
      BY <2>2, <1>t DEF CancelWrites, RetryTask, RedriveWrites, HistoryOK
    <3>3. /\ member' = Idle /\ task' \in TaskRow(Len(run)) /\ torn' = FALSE /\ bared' = bared
      BY <3>1, MemberWrote
    <3>4. RowsOK' /\ ActorsOK'
      BY <1>t, <1>r, <1>m, <3>2, <3>3 DEF RowsOK, ActorsOK
    <3>5. HistoryOK'
      BY <1>t, <3>2, <3>3 DEF HistoryOK
    <3>. QED BY <1>r, <3>2, <3>4, <3>5
  <2>3. CASE RetryDocument \/ RetryRun
    <3>1. document' \in DocumentRow /\ task' \in TaskRow(Len(run))
      <4>1. NoRun \in 0..Len(run)
        BY <1>r DEF NoRun
      <4>2. RetryRun => document' = document /\ task' = [task EXCEPT !.run = NoRun]
        BY DEF RetryRun
      <4>3. RetryRun => document' \in DocumentRow /\ task' \in TaskRow(Len(run))
        BY <1>r, <4>1, <4>2 DEF TaskRow
      <4>4. RetryDocument => document' \in DocumentRow /\ task' \in TaskRow(Len(run))
        BY <1>r DEF RetryDocument, DocumentRow
      <4>. QED BY <2>3, <4>3, <4>4
    <3>2. member' \in Requests
      <4>1. Idle.at \notin {"retry", "retry run"}
        BY DEF Idle
      <4>2. member \in Requests /\ member.at \in {"retry", "retry run"}
        BY <1>r, <2>3, <4>1 DEF RetryDocument, RetryRun
      <4>3. \E p \in {"retry run", "retry task"} : member' = [member EXCEPT !.at = p]
        BY <2>3 DEF RetryDocument, RetryRun
      <4>. QED BY <4>2, <4>3 DEF Requests
    <3>3. UNCHANGED <<run, chunks, vectors, attempt, raced, beside, torn, bared, trouble>>
      BY <2>3 DEF RetryDocument, RetryRun
    <3>4. RowsOK' /\ Len(run') >= Len(run)
      BY <1>t, <1>r, <3>1, <3>3 DEF RowsOK
    <3>5. ActorsOK'
      BY <1>t, <3>2, <3>3 DEF ActorsOK
    <3>6. HistoryOK'
      BY <1>t, <3>3 DEF HistoryOK
    <3>. QED BY <3>4, <3>5, <3>6
  <2>4. CASE DeleteReads
    <3>0. PICK found \in SUBSET Attempt :
             member' = [at |-> "delete", chunks |-> found] /\ vectors' = vectors \ found
      BY <2>4 DEF DeleteReads, Listings, Stored
    <3>1. member' \in Requests
      BY <3>0 DEF Requests
    <3>2. vectors' \subseteq Attempt /\ raced' \in BOOLEAN /\ trouble' \in 0..MaxTrouble
      BY <2>4, <3>0, <1>t, IngestAssumption DEF DeleteReads, RowsOK, HistoryOK, Troubles
    <3>3. UNCHANGED <<task, run, document, chunks, attempt, beside, torn, bared>>
      BY <2>4 DEF DeleteReads
    <3>4. RowsOK' /\ ActorsOK'
      BY <1>t, <1>r, <3>1, <3>2, <3>3 DEF RowsOK, ActorsOK
    <3>5. HistoryOK'
      BY <1>t, <3>2, <3>3 DEF HistoryOK
    <3>. QED BY <1>r, <3>3, <3>4, <3>5
  <2>5. CASE DeleteWrites
    <3>1. document' \in DocumentRow /\ chunks' \in [Attempt -> {"none", "pending", "indexed"}]
      BY <2>5, <1>t DEF DeleteWrites, DocumentRow, RowsOK
    <3>. QED BY <1>t, <1>r, <1>m, <2>5, <3>1 DEF DeleteWrites, RowsOK, ActorsOK, HistoryOK
  <2>6. CASE RetryLost \/ DeleteLost
    <3>1. /\ member' = Idle /\ UNCHANGED <<task, run, document, chunks, vectors, attempt>>
          /\ UNCHANGED <<raced, beside, trouble>>
      BY <2>6 DEF RetryLost, DeleteLost
    <3>2. torn' \in BOOLEAN /\ bared' \subseteq Attempt
      <4>1. CASE RetryLost
        BY <1>t, <4>1 DEF RetryLost, HistoryOK
      <4>2. CASE DeleteLost
        <5>1. Idle.at # "delete"
          BY DEF Idle
        <5>2. member \in Requests /\ member.at = "delete"
          BY <1>r, <4>2, <5>1 DEF DeleteLost
        <5>3. member.chunks \subseteq Attempt
          BY <5>2 DEF Requests
        <5>. QED BY <1>t, <4>2, <5>3 DEF DeleteLost, HistoryOK
      <4>. QED BY <2>6, <4>1, <4>2
    <3>3. RowsOK' /\ ActorsOK'
      BY <1>t, <1>r, <1>m, <3>1 DEF RowsOK, ActorsOK
    <3>4. HistoryOK'
      BY <1>t, <3>1, <3>2 DEF HistoryOK
    <3>. QED BY <1>r, <3>1, <3>3, <3>4
  <2>. QED BY <1>4, <2>1, <2>2, <2>3, <2>4, <2>5, <2>6 DEF Members
<1>5. ASSUME NEW a \in Attempt, Step(a) \/ Die(a)
      PROVE  RowsOK' /\ ActorsOK' /\ HistoryOK' /\ Len(run') >= Len(run)
  <2>. USE <1>t, <1>r
  <2>1. CASE Orphaned(a) \/ Requeue(a) \/ Die(a)
    <3>1. Ends(a) /\ UNCHANGED <<document, chunks, vectors, member, raced, beside, torn, bared>>
      BY <2>1 DEF Orphaned, Requeue, Die
    <3>2. trouble' \in 0..MaxTrouble
      BY <2>1, IngestAssumption DEF Orphaned, Requeue, Die, Troubles, HistoryOK
    <3>3. run' \in Seq(RunStatus) /\ Len(run') = Len(run)
      <4>1. "failed" \in RunStatus
        BY DEF RunStatus
      <4>. QED BY <2>1, <4>1 DEF Orphaned, Requeue, Die
    <3>4. task' \in TaskRow(Len(run))
      <4>1. CASE Orphaned(a)
        BY <4>1, Recorded DEF Orphaned, Finished
      <4>2. CASE Requeue(a)
        <5>1. attempt[a].retries + 1 \in Nat
          <6>1. attempt[a] \in Working
            BY <4>2, Active DEF Requeue, At, Places
          <6>. QED BY <6>1, WorkingFields
        <5>. QED BY <4>2, <5>1, Recorded DEF Requeue
      <4>. QED BY <2>1, <4>1, <4>2 DEF Die
    <3>5. ActorsOK'
      BY <3>1, <3>3, Ender, KeepsRuns
    <3>. QED BY <3>1, <3>2, <3>3, <3>4, <3>5 DEF RowsOK, HistoryOK
  <2>2. CASE Begin(a)
    <3>1. /\ attempt[a] \in Working /\ attempt[a].run \in Nat /\ attempt[a].run <= Len(run)
      BY <2>2, Active, WorkingFields DEF Begin, At, Places, ActorsOK
    <3>. DEFINE old == attempt[a].run
                reuse == old # NoRun /\ run[old] \notin TerminalStatus
    <3>0. raced' \in BOOLEAN
      BY <2>2, <1>t DEF Begin, HistoryOK
    <3>2. PICK new \in Nat :
            /\ new = IF reuse THEN old ELSE Len(run) + 1
            /\ run' = IF reuse THEN [run EXCEPT ![old] = "running"] ELSE Append(run, "running")
            /\ task' = IF reuse THEN task ELSE [task EXCEPT !.run = new]
            /\ attempt' = [attempt EXCEPT ![a].at = "parse", ![a].run = new, ![a].saw = "running"]
            /\ UNCHANGED <<document, chunks, vectors, member, beside, torn, bared, trouble>>
      <4>. DEFINE n == IF reuse THEN old ELSE Len(run) + 1
      <4>1. n \in Nat
        BY <3>1
      <4>. QED BY <2>2, <4>1 DEF Begin
    <3>. HIDE DEF reuse
    <3>3. "running" \in RunStatus
      BY DEF RunStatus
    <3>4. /\ run' \in Seq(RunStatus) /\ Len(run') \in Nat /\ Len(run') >= Len(run)
          /\ new <= Len(run') /\ new # NoRun
      <4>1. CASE reuse
        <5>1. old # NoRun /\ run' = [run EXCEPT ![old] = "running"] /\ new = old
          BY <3>2, <4>1 DEF reuse
        <5>2. old \in 1..Len(run)
          BY <3>1, <5>1 DEF NoRun
        <5>. QED BY <3>1, <3>3, <5>1, <5>2
      <4>2. CASE ~reuse
        BY <3>1, <3>2, <3>3, <4>2 DEF NoRun
      <4>. QED BY <4>1, <4>2
    <3>5. task' \in TaskRow(Len(run'))
      <4>1. task \in TaskRow(Len(run'))
        BY <3>4, LongerRuns
      <4>2. new \in 0..Len(run')
        BY <3>4
      <4>. QED BY <3>2, <4>1, <4>2 DEF TaskRow
    <3>. DEFINE x == [[[attempt[a] EXCEPT !.at = "parse"] EXCEPT !.run = new] EXCEPT !.saw = "running"]
    <3>6. attempt' = [attempt EXCEPT ![a] = x]
      BY <3>2 DEF Attempts
    <3>7. x \in Working /\ x.run = new
      BY <3>1, <3>3 DEF Working, Places
    <3>. HIDE DEF x
    <3>8. attempt' \in Attempts /\ attempt'[a] = x /\ \A b \in Attempt : b # a => attempt'[b] = attempt[b]
      BY <3>6, <3>7 DEF Attempts
    <3>9. ASSUME NEW b \in Attempt, attempt'[b] \in Working
          PROVE  attempt'[b].run <= Len(run') /\ (attempt'[b].at # "claimed" => attempt'[b].run # NoRun)
      <4>1. CASE b = a
        BY <3>4, <3>7, <3>8, <4>1
      <4>2. CASE b # a
        <5>1. attempt'[b] = attempt[b] /\ attempt[b] \in Working
          BY <3>8, <3>9, <4>2
        <5>2. /\ attempt[b].run \in Nat /\ attempt[b].run <= Len(run)
              /\ attempt[b].at # "claimed" => attempt[b].run # NoRun
          BY <5>1, WorkingFields DEF ActorsOK
        <5>. QED BY <3>4, <5>1, <5>2
      <4>. QED BY <4>1, <4>2
    <3>. QED BY <3>0, <3>2, <3>4, <3>5, <3>8, <3>9 DEF RowsOK, ActorsOK, HistoryOK
  <2>3. CASE Chunk(a) \/ Insert(a) \/ Mark(a) \/ Indexed(a) \/ PipelineFails(a)
    <3>1. UNCHANGED <<task, run, member, raced, beside, torn, bared, trouble>>
      BY <2>3 DEF Chunk, Insert, Mark, Indexed, PipelineFails
    <3>2. RowsOK'
      BY <2>3 DEF Chunk, Insert, Mark, Indexed, PipelineFails, RowsOK, DocumentRow
    <3>3. PICK p \in Places : Goes(a, p) \/ Ends(a)
      BY <2>3 DEF Chunk, Insert, Mark, Indexed, PipelineFails, Places
    <3>4. PICK q \in Places : At(a, q) /\ q # "claimed"
      BY <2>3 DEF Chunk, Insert, Mark, Indexed, PipelineFails, Places, At
    <3>5. ActorsOK'
      BY <3>1, <3>3, <3>4, Goer, Ender, KeepsRuns DEF At
    <3>. QED BY <3>1, <3>2, <3>5 DEF HistoryOK
  <2>4. CASE Succeed(a) \/ Fail(a)
    <3>0. attempt[a] \in Working /\ attempt[a].at # "claimed"
      BY <2>4, Active DEF Succeed, Fail, At, Places
    <3>1. /\ attempt[a].run \in 1..Len(run) /\ attempt[a].retries \in Nat
          /\ attempt[a].saw \in RunStatus \cup {"none"}
      BY <3>0, WorkingFields DEF ActorsOK, NoRun
    <3>2. UNCHANGED <<chunks, vectors, member, raced, beside, torn, bared, trouble>>
      BY <2>4 DEF Succeed, Fail
    <3>. DEFINE r == attempt[a].run
                ending(target) == MoveRun(a, target)
    <3>m. \A target \in {"succeeded", "failed"} :
            ending(target).row \in RunStatus /\ ending(target).seen \in RunStatus \cup {"none"}
      <4>1. run[r] \in RunStatus /\ "succeeded" \in RunStatus /\ "failed" \in RunStatus
        BY <3>1 DEF RunStatus
      <4>. QED BY <3>1, <4>1, RunMoves DEF MoveRun
    <3>. HIDE DEF ending
    <3>3. /\ run' \in Seq(RunStatus) /\ Len(run') = Len(run)
      <4>1. run' = run \/ \E target \in {"succeeded", "failed"} : run' = [run EXCEPT ![r] = ending(target).row]
        BY <2>4 DEF Succeed, Fail, ending
      <4>. QED BY <3>1, <3>m, <4>1
    <3>4. task' \in TaskRow(Len(run)) /\ document' \in DocumentRow
      <4>1. CASE Succeed(a)
        <5>1. document' = document
          BY <4>1 DEF Succeed
        <5>2. \/ task' = task
              \/ task' = [task EXCEPT !.status = "succeeded", !.owner = Nobody, !.lapsed = FALSE,
                                      !.run = attempt[a].run]
          BY <4>1 DEF Succeed
        <5>3. Nobody \in 0..MaxAttempts /\ attempt[a].run \in 0..Len(run)
          BY <3>1, IngestAssumption DEF Nobody
        <5>. QED BY <5>1, <5>2, <5>3 DEF TaskRow, Finished
      <4>2. CASE Fail(a)
        <5>1. document' \in DocumentRow
          BY <4>2 DEF Fail, DocumentRow
        <5>2. task' = task \/ Record("failed", attempt[a].retries + 1)
          BY <4>2 DEF Fail
        <5>3. attempt[a].retries + 1 \in Nat /\ "failed" \in Finished
          BY <3>1 DEF Finished
        <5>. QED BY <5>1, <5>2, <5>3, Recorded
      <4>. QED BY <2>4, <4>1, <4>2
    <3>p. "finish" \in Places /\ "failing" \in Places /\ "requeue" \in Places
      BY DEF Places
    <3>5. /\ attempt' \in Attempts
          /\ \A b \in Attempt : attempt'[b] \in Working =>
                /\ attempt[b] \in Working /\ attempt'[b].run = attempt[b].run
                /\ attempt'[b].at # "claimed" => attempt[b].at # "claimed"
      <4>1. CASE Ends(a) \/ Goes(a, "requeue")
        <5>1. PICK q \in Places : At(a, q)
          BY <2>4, <3>p DEF Succeed, Fail
        <5>. QED BY <3>0, <3>p, <4>1, <5>1, Ender, Goer
      <4>2. CASE attempt' = [attempt EXCEPT ![a].at = "failing", ![a].saw = ending("succeeded").seen]
        <5>. DEFINE x == [[attempt[a] EXCEPT !.at = "failing"] EXCEPT !.saw = ending("succeeded").seen]
        <5>1. attempt' = [attempt EXCEPT ![a] = x]
          BY <4>2 DEF Attempts
        <5>2. x \in Working /\ x.run = attempt[a].run
          BY <3>0, <3>m, <3>p DEF Working
        <5>. HIDE DEF x
        <5>. QED BY <3>0, <5>1, <5>2 DEF Attempts
      <4>. QED BY <2>4, <4>1, <4>2 DEF Succeed, Fail, ending
    <3>6. ActorsOK'
      BY <3>2, <3>3, <3>5, KeepsRuns
    <3>. QED BY <3>2, <3>3, <3>4, <3>6 DEF RowsOK, HistoryOK
  <2>. QED BY <1>5, <2>1, <2>2, <2>3, <2>4 DEF Step
<1>. QED BY <1>1, <1>2, <1>3, <1>4, <1>5 DEF Next

(* Types are what the names of the variables say, for any number of        *)
(* workers, retries, claims and troubles.                                  *)
THEOREM IngestTypeCorrect == Spec => []TypeOK
<1>1. TypeInv /\ [Next]_vars => TypeInv'
  BY TypeStep
<1>2. TypeInv => TypeOK
  BY DEF TypeInv
<1>. QED BY InitType, <1>1, <1>2, PTL DEF Spec

-----------------------------------------------------------------------------
(* What a step of an attempt leaves alone. *)
LEMMA StepFrame ==
    ASSUME TypeInv, NEW a \in Attempt, Step(a) \/ Die(a)
    PROVE  /\ attempt' \in Attempts /\ Live(a)
           /\ \A b \in Attempt : b # a => attempt'[b] = attempt[b]
           /\ member' = member /\ beside' = beside /\ document'.gone = document.gone
           /\ torn' = torn /\ bared' = bared
           /\ raced => raced'
<1>. USE DEF index, history, cut
<1>1. document \in DocumentRow /\ attempt \in Attempts
  BY TypeParts DEF RowsOK, ActorsOK
<1>2. /\ member' = member /\ beside' = beside /\ document'.gone = document.gone
      /\ torn' = torn /\ bared' = bared
  BY <1>1 DEF Step, Die, Orphaned, Begin, Chunk, Insert, Mark, Indexed, PipelineFails, Succeed, Fail,
              Requeue, DocumentRow
<1>3. raced => raced'
  <2>1. raced' = raced \/ raced' = (raced \/ member.at = "delete")
    BY DEF Step, Die, Orphaned, Begin, Chunk, Insert, Mark, Indexed, PipelineFails, Succeed, Fail, Requeue
  <2>. QED BY <2>1, Zenon
<1>4. Live(a)
  BY Active DEF Step, Die, Orphaned, Begin, Chunk, Insert, Mark, Indexed, PipelineFails, Succeed, Fail,
                Requeue, At, Places
<1>5. \A b \in Attempt : b # a => attempt'[b] = attempt[b]
  BY <1>1 DEF Step, Die, Orphaned, Begin, Chunk, Insert, Mark, Indexed, PipelineFails, Succeed, Fail,
              Requeue, Goes, Ends, Attempts
<1>6. attempt' \in Attempts
  <2>1. TypeInv'
    BY TypeStep DEF Next
  <2>2. TypeInv => attempt \in Attempts
    BY TypeParts DEF ActorsOK
  <2>. QED BY <2>1 DEF TypeInv, ActorType, Attempts
<1>. QED BY <1>2, <1>3, <1>4, <1>5, <1>6

(* The place an attempt goes to. *)
LEMMA NextPlace ==
    ASSUME TypeInv, NEW a \in Attempt
    PROVE  /\ \A p \in Places : Live(a) /\ Goes(a, p) => attempt'[a].at = p
           /\ Ends(a) => attempt'[a].at = "over"
           /\ Begin(a) => attempt'[a].at = "parse"
<1>1. attempt \in Attempts
  BY TypeParts DEF ActorsOK
<1>2. Over.at = "over"
  BY DEF Over
<1>3. Ends(a) => attempt'[a].at = "over"
  BY <1>1, <1>2 DEF Ends, Attempts
<1>4. ASSUME NEW p \in Places, Live(a), Goes(a, p) PROVE attempt'[a].at = p
  <2>1. attempt[a] \in Working
    BY <1>4, Active
  <2>. QED BY <1>4, <2>1, GoesTo
<1>5. ASSUME Begin(a) PROVE attempt'[a].at = "parse"
  <2>1. attempt[a] \in Working
    BY <1>5, Active DEF Begin, At, Places
  <2>2. \E new : attempt' = [attempt EXCEPT ![a].at = "parse", ![a].run = new, ![a].saw = "running"]
    BY <1>5 DEF Begin
  <2>. QED BY <1>1, <2>1, <2>2 DEF Attempts, Working
<1>. QED BY <1>3, <1>4, <1>5

-----------------------------------------------------------------------------
(* What a deletion leaves. *)

LEMMA InitDelete == Init => DeleteInv
<1>. SUFFICES ASSUME Init PROVE DeleteInv
  OBVIOUS
<1>1. \A a \in Attempt : attempt[a].at = "idle" /\ chunks[a] = "none"
  BY DEF Init, Idle
<1>2. vectors = {} /\ ~document.gone /\ member.at = "idle"
  BY DEF Init, Idle
<1>3. Traceable /\ Removing
  BY <1>1, <1>2 DEF Traceable, Removing, At
<1>4. DeletedIsGone
  BY <1>2 DEF DeletedIsGone
<1>. QED BY <1>3, <1>4, InitType DEF DeleteInv

LEMMA DeleteStep == ~Overlong /\ DeleteInv /\ [Next]_vars => DeleteInv'
<1>. SUFFICES ASSUME ~Overlong, DeleteInv, [Next]_vars, ~raced' PROVE Traceable' /\ Removing' /\ DeletedIsGone'
  BY TypeStep DEF DeleteInv, Traceable, Removing, DeletedIsGone
<1>. USE DEF index, history, cut
<1>t. TypeInv /\ TypeInv' /\ RowsOK /\ ActorsOK
  BY TypeStep, TypeParts DEF DeleteInv
<1>r. /\ document \in DocumentRow /\ chunks \in [Attempt -> {"none", "pending", "indexed"}]
      /\ vectors \subseteq Attempt /\ attempt \in Attempts
  BY <1>t DEF RowsOK, ActorsOK
<1>n. ~raced
  <2>1. CASE \E a \in Attempt : Step(a) \/ Die(a)
    BY <1>t, <2>1, StepFrame
  <2>2. CASE Claim \/ Lapse \/ Members \/ UNCHANGED vars
    <3>1. raced' = raced \/ raced' = (raced \/ \E a \in Attempt : Live(a) /\ ~At(a, "claimed"))
      BY <2>2 DEF Claim, Lapse, Members, CancelReads, CancelWrites, RetryReads, RetryDocument, RetryRun,
                  RetryTask, RetryLost, RedriveReads, RedriveWrites, DeleteReads, DeleteWrites,
                  DeleteLost, Reads, vars
    <3>. QED BY <3>1, Zenon
  <2>. QED BY <2>1, <2>2 DEF Next
<1>i. /\ vectors \subseteq Stored
      /\ \A a \in Attempt : At(a, "embed") => chunks[a] # "none"
      /\ document.gone \/ member.at = "delete" =>
            vectors = {} /\ \A a \in Attempt : Live(a) => At(a, "claimed")
      /\ member.at = "delete" => Stored \subseteq member.chunks
      /\ document.gone => \A a \in Attempt : chunks[a] = "none"
  BY <1>n DEF DeleteInv, Traceable, Removing, DeletedIsGone
<1>g. /\ vectors' \subseteq Stored'
      /\ \A a \in Attempt : At(a, "embed")' => chunks'[a] # "none"
      /\ document'.gone \/ member'.at = "delete" =>
            vectors' = {} /\ \A a \in Attempt : Live(a)' => At(a, "claimed")'
      /\ member'.at = "delete" => Stored' \subseteq member'.chunks
      /\ document'.gone => \A a \in Attempt : chunks'[a] = "none"
  <2>. DEFINE Goal ==
        /\ vectors' \subseteq Stored'
        /\ \A a \in Attempt : At(a, "embed")' => chunks'[a] # "none"
        /\ document'.gone \/ member'.at = "delete" =>
              vectors' = {} /\ \A a \in Attempt : Live(a)' => At(a, "claimed")'
        /\ member'.at = "delete" => Stored' \subseteq member'.chunks
        /\ document'.gone => \A a \in Attempt : chunks'[a] = "none"
  <2>. SUFFICES Goal
    OBVIOUS
  <2>1. CASE UNCHANGED vars \/ Lapse
    <3>1. UNCHANGED <<document, chunks, vectors, attempt, member>>
      BY <2>1 DEF vars, Lapse
    <3>. QED BY <1>i, <3>1 DEF Stored, At, Live
  <2>2. CASE Claim
    <3>1. /\ UNCHANGED <<document, chunks, vectors, member>>
          /\ \A b \in Attempt : attempt'[b] = attempt[b] \/ attempt'[b].at = "claimed"
      BY <1>r, <2>2 DEF Claim, Attempts
    <3>. QED BY <1>i, <3>1 DEF Stored, At, Live
  <2>3. CASE Members
    <3>1. CASE CancelReads \/ RetryReads \/ RedriveReads
      <4>1. /\ UNCHANGED <<document, chunks, vectors, attempt>>
            /\ member'.at # "delete"
        BY <1>t, <3>1, MemberRead DEF CancelReads, RetryReads, RedriveReads
      <4>. QED BY <1>i, <4>1 DEF Stored, At, Live
    <3>2. CASE CancelWrites \/ RetryTask \/ RedriveWrites
      <4>1. /\ UNCHANGED <<document, chunks, vectors, attempt>>
            /\ member' = Idle
        BY <3>2 DEF CancelWrites, RetryTask, RedriveWrites, Writes
      <4>2. member'.at # "delete"
        BY <4>1 DEF Idle
      <4>. QED BY <1>i, <4>1, <4>2 DEF Stored, At, Live
    <3>3. CASE RetryDocument \/ RetryRun
      <4>1. /\ UNCHANGED <<chunks, vectors, attempt>>
            /\ document'.gone = document.gone
        BY <1>r, <3>3 DEF RetryDocument, RetryRun, DocumentRow
      <4>2. member'.at # "delete"
        <5>1. Idle.at \notin {"retry", "retry run"}
          BY DEF Idle
        <5>2. member \in Requests /\ \E p \in {"retry run", "retry task"} : member' = [member EXCEPT !.at = p]
          BY <1>t, <3>3, <5>1 DEF RetryDocument, RetryRun, ActorsOK
        <5>. QED BY <5>2 DEF Requests
      <4>. QED BY <1>i, <4>1, <4>2 DEF Stored, At, Live
    <3>4. CASE DeleteReads
      <4>1. /\ UNCHANGED <<document, chunks, attempt>>
            /\ vectors' = {} /\ member'.chunks = Stored /\ ~document.gone
        BY <1>i, <3>4 DEF DeleteReads, Listings
      <4>2. \A a \in Attempt : Live(a) => At(a, "claimed")
        <5>1. raced' = (raced \/ \E a \in Attempt : Live(a) /\ ~At(a, "claimed"))
          BY <3>4 DEF DeleteReads
        <5>. QED BY <5>1, Zenon
      <4>. QED BY <1>i, <4>1, <4>2 DEF Stored, At, Live
    <3>5. CASE DeleteWrites
      <4>1. /\ UNCHANGED <<vectors, attempt>>
            /\ member' = Idle /\ member.at = "delete"
            /\ \A a \in Attempt : chunks'[a] = IF a \in member.chunks THEN "none" ELSE chunks[a]
        BY <3>5 DEF DeleteWrites
      <4>2. member'.at # "delete"
        BY <4>1 DEF Idle
      <4>3. vectors' = {} /\ \A a \in Attempt : chunks'[a] = "none"
        BY <1>i, <4>1 DEF Stored
      <4>4. \A a \in Attempt : Live(a)' => At(a, "claimed")'
        BY <1>i, <4>1 DEF Live, At
      <4>5. \A a \in Attempt : ~At(a, "embed")'
        <5>1. \A a \in Attempt : At(a, "embed") => Live(a) /\ ~At(a, "claimed")
          BY <1>t, Active DEF At, Places
        <5>. QED BY <1>i, <4>1, <5>1 DEF At
      <4>. QED BY <4>2, <4>3, <4>4, <4>5
    <3>6. CASE RetryLost \/ DeleteLost
      <4>1. member' = Idle /\ UNCHANGED <<document, chunks, vectors, attempt>>
        BY <3>6 DEF RetryLost, DeleteLost
      <4>2. member'.at # "delete"
        BY <4>1 DEF Idle
      <4>. QED BY <1>i, <4>1, <4>2 DEF Stored, At, Live
    <3>. QED BY <2>3, <3>1, <3>2, <3>3, <3>4, <3>5, <3>6 DEF Members
  <2>4. ASSUME NEW a \in Attempt, Step(a) \/ Die(a) PROVE Goal
    <3>f. /\ attempt' \in Attempts /\ Live(a)
          /\ \A b \in Attempt : b # a => attempt'[b] = attempt[b]
          /\ member' = member /\ document'.gone = document.gone
      BY <1>t, <2>4, StepFrame
    <3>p. \A q \in {"parse", "embed", "mark", "close", "finish", "failing", "requeue"} :
             At(a, q) => q \in Places /\ ~(document.gone \/ member.at = "delete")
      BY <1>i, <3>f DEF At, Places
    <3>o. \A b \in Attempt : (Live(b) => attempt[b].at \in Places) /\ (Live(b)' => attempt'[b].at \in Places)
      <4>1. \A b \in Attempt : Live(b)' => attempt'[b].at \in Places
        <5>1. \A b \in Attempt : Live(b)' => attempt'[b] \in Working
          BY <3>f DEF Live, Attempts
        <5>. QED BY <5>1, WorkingFields
      <4>. QED BY <1>t, <4>1, Active
    <3>1. CASE Orphaned(a) \/ Requeue(a) \/ Die(a)
      <4>1. UNCHANGED <<chunks, vectors>> /\ attempt'[a].at = "over"
        BY <1>t, <3>1, NextPlace DEF Orphaned, Requeue, Die
      <4>. QED BY <1>i, <3>f, <3>o, <4>1 DEF Stored, At, Live, Places
    <3>2. CASE Begin(a)
      <4>1. UNCHANGED <<chunks, vectors>> /\ attempt'[a].at = "parse" /\ ~document.gone
        BY <1>t, <3>2, NextPlace DEF Begin
      <4>2. member.at # "delete"
        <5>1. raced' = (raced \/ member.at = "delete")
          BY <3>2 DEF Begin
        <5>. QED BY <5>1, Zenon
      <4>. QED BY <1>i, <3>f, <4>1, <4>2 DEF Stored, At, Live
    <3>3. CASE Chunk(a)
      <4>1. vectors' = vectors /\ At(a, "parse") /\ chunks' = [chunks EXCEPT ![a] = "pending"]
        BY <3>3 DEF Chunk
      <4>. QED BY <1>i, <1>r, <3>f, <3>p, <4>1 DEF Stored, At, Live
    <3>4. CASE Insert(a)
      <4>1. /\ chunks' = chunks /\ At(a, "embed") /\ vectors' = vectors \cup {a} /\ attempt'[a].at = "mark"
        BY <1>t, <3>4, <3>f, NextPlace DEF Insert, Places
      <4>. QED BY <1>i, <1>r, <3>f, <3>p, <4>1 DEF Stored, At, Live
    <3>5. CASE Mark(a)
      <4>1. /\ vectors' = vectors /\ At(a, "mark") /\ attempt'[a].at # "embed"
            /\ chunks' = chunks \/ chunks' = [chunks EXCEPT ![a] = "indexed"]
        BY <1>t, <3>5, <3>f, NextPlace DEF Mark, Places
      <4>. QED BY <1>i, <1>r, <3>f, <3>p, <4>1 DEF Stored, At, Live
    <3>6. CASE Indexed(a) \/ PipelineFails(a) \/ Succeed(a) \/ Fail(a)
      <4>1. PICK q \in {"parse", "embed", "mark", "close", "finish", "failing"} : At(a, q)
        BY <3>6 DEF Indexed, PipelineFails, Succeed, Fail, At
      <4>2. UNCHANGED <<chunks, vectors>>
        BY <3>6 DEF Indexed, PipelineFails, Succeed, Fail
      <4>3. attempt'[a].at # "embed"
        <5>1. CASE \E p \in {"finish", "failing", "requeue"} : Goes(a, p)
          BY <1>t, <3>f, <5>1, NextPlace DEF Places
        <5>2. CASE Ends(a)
          BY <1>t, <5>2, NextPlace
        <5>3. CASE \E seen : attempt' = [attempt EXCEPT ![a].at = "failing", ![a].saw = seen]
          <6>1. attempt[a] \in Working
            BY <1>t, <3>f, Active
          <6>. QED BY <1>r, <5>3, <6>1 DEF Attempts, Working
        <5>. QED BY <3>6, <5>1, <5>2, <5>3 DEF Indexed, PipelineFails, Succeed, Fail
      <4>. QED BY <1>i, <1>r, <3>f, <3>p, <4>1, <4>2, <4>3 DEF Stored, At, Live
    <3>. QED BY <2>4, <3>1, <3>2, <3>3, <3>4, <3>5, <3>6 DEF Step
  <2>. QED BY <2>1, <2>2, <2>3, <2>4 DEF Next
<1>. QED BY <1>g DEF Traceable, Removing, DeletedIsGone

(* A deleted document leaves neither vector nor chunk, unless an attempt   *)
(* was already at work on it: delete_document reads the chunks and takes   *)
(* their vectors away in one step, and their rows in another.  One listing *)
(* has to hold them all.                                                   *)
THEOREM DeletedIsGoneHolds ==
    ASSUME ~Overlong
    PROVE  Spec => []DeletedIsGone
<1>1. DeleteInv => DeletedIsGone
  BY DEF DeleteInv
<1>2. DeleteInv /\ [Next]_vars => DeleteInv'
  BY DeleteStep
<1>. QED BY InitDelete, <1>1, <1>2, PTL DEF Spec

-----------------------------------------------------------------------------
(* What is agreed. *)

Agreement == Alone /\ RunsOn /\ Progress /\ Outcome /\ Repeating

LEMMA InitAgree == Init => AgreeInv
<1>. SUFFICES ASSUME Init PROVE Agreement
  BY InitType DEF AgreeInv, Agreement
<1>1. \A a \in Attempt : attempt[a] = Idle /\ attempt[a].at = "idle"
  BY DEF Init, Idle
<1>2. task.status = "queued" /\ member.at = "idle" /\ ~torn
  BY DEF Init, Idle
<1>3. Alone /\ RunsOn
  BY <1>1, <1>2 DEF Alone, RunsOn, Live, At
<1>4. Progress /\ Outcome /\ Repeating
  BY <1>1, <1>2 DEF Progress, Outcome, Repeating, At
<1>. QED BY <1>3, <1>4 DEF Agreement

(* Where no attempt is under way, only the outcome is at stake. *)
LEMMA NobodyWorks ==
    ASSUME TypeInv, Alone, \A a \in Attempt : ~Live(a), UNCHANGED attempt,
           task'.status # "canceled", task'.attempt = task.attempt
    PROVE  Alone' /\ RunsOn' /\ Progress'
<1>1. \A a \in Attempt : ~Live(a)'
  BY DEF Live
<1>2. \A a \in Attempt : attempt'[a].at \notin Places
  BY Active
<1>. QED BY <1>1, <1>2 DEF Alone, RunsOn, Progress, At, Places

LEMMA AgreeOthers ==
    ASSUME TypeInv, TypeInv', ~beside', Agreement, ~beside, Claim \/ Lapse \/ Members \/ UNCHANGED vars
    PROVE  Agreement'
<1>. USE DEF index, history, cut, Agreement
<1>r. /\ document \in DocumentRow /\ attempt \in Attempts /\ task \in TaskRow(Len(run))
      /\ member \in {Idle} \cup Requests
  BY TypeParts DEF RowsOK, ActorsOK
<1>l. task.status # "running" \/ task.lapsed => \A a \in Attempt : ~Live(a)
  BY DEF Alone
<1>i. Idle.at = "idle"
  BY DEF Idle
<1>1. CASE UNCHANGED vars
  <2>1. UNCHANGED <<task, run, document, chunks, vectors, attempt, member, torn, bared>>
    BY <1>1 DEF vars
  <2>2. Alone' /\ RunsOn'
    BY <2>1 DEF Alone, RunsOn, Live, At
  <2>3. Repeating'
    BY <2>1 DEF Repeating
  <2>4. \A a : Stayed(a)' <=> Stayed(a)
    BY <2>1 DEF Stayed
  <2>5. Progress' /\ Outcome'
    BY <2>1, <2>4 DEF Progress, Outcome, Kept, At, Retrying
  <2>. QED BY <2>2, <2>3, <2>5
<1>2. CASE Claim
  <2>1. PICK a \in Attempt : a = task.attempt + 1
    BY <1>2, <1>r, IngestAssumption DEF Claim, Attempt, TaskRow
  <2>. DEFINE x == [at |-> "claimed", run |-> task.run, retries |-> task.retries, saw |-> "none"]
  <2>2. /\ task' = [task EXCEPT !.status = "running", !.owner = a, !.lapsed = FALSE, !.attempt = a]
        /\ attempt' = [attempt EXCEPT ![a] = x]
        /\ member' = member /\ torn' = torn /\ (task.status = "queued" \/ task.lapsed)
    BY <1>2, <2>1 DEF Claim, Claimable
  <2>3. \A b \in Attempt : ~Live(b)
    BY <1>l, <2>2
  <2>4. /\ task'.status = "running" /\ task'.owner = a /\ ~task'.lapsed /\ task'.attempt = a
        /\ task'.run = task.run
    BY <1>r, <2>2 DEF TaskRow
  <2>5. attempt'[a] = x /\ \A b \in Attempt : b # a => attempt'[b] = attempt[b]
    BY <1>r, <2>2 DEF Attempts
  <2>6. x.at = "claimed" /\ x.run = task.run
    OBVIOUS
  <2>. HIDE DEF x
  <2>7. \A b \in Attempt : b # a => ~Live(b)' /\ attempt'[b].at \notin Places
    BY <2>3, <2>5, Active DEF Live
  <2>8. Alone'
    <3>1. task.attempt \in Nat
      BY <1>r DEF TaskRow
    <3>2. ASSUME NEW b \in Attempt, b > a PROVE attempt'[b] = Idle
      <4>1. b > task.attempt /\ b # a
        BY <2>1, <3>1, <3>2 DEF Attempt
      <4>. QED BY <2>5, <4>1 DEF Alone
    <3>. QED BY <2>4, <2>5, <2>6, <2>7, <3>2 DEF Alone
  <2>9. RunsOn' /\ Progress'
    BY <2>5, <2>6, <2>7 DEF RunsOn, Progress, At, Places
  <2>10. Outcome' /\ Repeating'
    <3>1. task.status # "failed"
      BY <1>2 DEF Claim, Claimable
    <3>. QED BY <2>2, <2>4, <3>1 DEF Outcome, Repeating
  <2>. QED BY <2>8, <2>9, <2>10
<1>3. CASE Lapse
  <2>1. /\ task' = [task EXCEPT !.lapsed = TRUE] /\ task.status = "running" /\ ~Live(task.attempt)
        /\ UNCHANGED <<run, document, chunks, vectors, attempt, member, torn, bared>>
    BY <1>3 DEF Lapse
  <2>2. task'.status = "running" /\ task'.attempt = task.attempt
    BY <1>r, <2>1 DEF TaskRow
  <2>3. \A a \in Attempt : ~Live(a)
    BY <2>1 DEF Alone
  <2>4. Alone' /\ RunsOn' /\ Progress'
    BY <2>1, <2>2, <2>3, NobodyWorks
  <2>. QED BY <2>1, <2>2, <2>4 DEF Outcome, Repeating
<1>4. CASE CancelReads \/ RetryReads \/ RedriveReads
  <2>1. /\ UNCHANGED <<task, run, document, chunks, vectors, attempt, torn, bared>>
        /\ member = Idle /\ member'.at \in {"cancel", "retry", "redrive"}
        /\ member'.at \in {"retry", "redrive"} => task.status \in {"failed", "canceled"}
    BY <1>4, MemberRead DEF CancelReads, RetryReads, RedriveReads
  <2>2. member.at = "idle"
    BY <1>i, <2>1
  <2>3. Alone' /\ RunsOn'
    BY <2>1 DEF Alone, RunsOn, Live, At
  <2>4. \A a : Stayed(a)' <=> Stayed(a)
    BY <2>1, <2>2 DEF Stayed
  <2>5. Progress' /\ Outcome'
    BY <2>1, <2>2, <2>4 DEF Progress, Outcome, Kept, At, Retrying
  <2>6. Repeating'
    BY <2>1 DEF Repeating, Alone
  <2>. QED BY <2>3, <2>5, <2>6
<1>5. CASE CancelWrites
  BY <1>5 DEF CancelWrites
(* A retry has the failed task to itself. *)
<1>6. CASE RetryDocument \/ RetryRun \/ RetryLost
  <2>1. /\ member.at \in {"retry", "retry run", "retry task"}
        /\ UNCHANGED <<run, chunks, vectors, attempt, bared>>
        /\ document'.gone = document.gone /\ task'.status = task.status
        /\ task'.attempt = task.attempt
    BY <1>6, <1>r DEF RetryDocument, RetryRun, RetryLost, DocumentRow, TaskRow
  <2>2. task.status = "failed" /\ \A a \in Attempt : ~Live(a)
    BY <1>l, <2>1 DEF Repeating
  <2>3. Alone' /\ RunsOn' /\ Progress'
    BY <2>1, <2>2, NobodyWorks
  <2>4. Repeating'
    BY <2>1, <2>2 DEF Repeating
  <2>5. member \in Requests
    BY <1>i, <1>r, <2>1
  <2>6. CASE RetryDocument
    <3>1. /\ member.at = "retry" /\ member'.at = "retry run" /\ UNCHANGED <<task, torn>>
          /\ ~document.gone => document'.status = "queued"
      BY <1>r, <2>5, <2>6 DEF RetryDocument, Requests, DocumentRow
    <3>. QED BY <2>1, <2>2, <2>3, <2>4, <3>1 DEF Outcome, Kept, Retrying
  <2>7. CASE RetryRun
    <3>1. /\ member.at = "retry run" /\ member'.at = "retry task" /\ UNCHANGED <<document, torn>>
          /\ task'.run = NoRun
      BY <1>r, <2>5, <2>7 DEF RetryRun, Requests, TaskRow
    <3>. QED BY <2>1, <2>2, <2>3, <2>4, <3>1 DEF Outcome, Kept, Retrying
  <2>8. CASE RetryLost
    <3>1. /\ member.at \in {"retry run", "retry task"} /\ member'.at = "idle" /\ torn'
          /\ UNCHANGED <<document, task>>
      BY <1>i, <2>8 DEF RetryLost
    <3>. QED BY <2>1, <2>2, <2>3, <2>4, <3>1 DEF Outcome, Kept, Retrying
  <2>. QED BY <1>6, <2>6, <2>7, <2>8
<1>7. CASE RetryTask \/ RedriveWrites
  <2>1. /\ UNCHANGED <<run, document, chunks, vectors, attempt>> /\ member' = Idle
        /\ task'.status = "queued" /\ task'.attempt = task.attempt /\ torn' = FALSE
        /\ member.at \in {"retry task", "redrive"}
    <3>1. task.run \in 0..Len(run)
      BY <1>r DEF TaskRow
    <3>. QED BY <1>7, <3>1, MemberWrote DEF RetryTask, RedriveWrites
  <2>2. \A a \in Attempt : ~Live(a)
    BY <1>l, <2>1 DEF Repeating
  <2>3. Alone' /\ RunsOn' /\ Progress'
    BY <2>1, <2>2, NobodyWorks
  <2>. QED BY <1>i, <2>1, <2>3 DEF Outcome, Repeating
(* What a deletion takes away stays told of, until the document is gone. *)
<1>8. CASE DeleteReads \/ DeleteLost
  <2>1. /\ UNCHANGED <<task, run, document, chunks, attempt, torn>>
        /\ {member.at, member'.at} = {"idle", "delete"}
    BY <1>8, <1>i DEF DeleteReads, DeleteLost
  <2>2. Alone' /\ RunsOn'
    BY <2>1 DEF Alone, RunsOn, Live, At
  <2>3. ASSUME NEW a, Stayed(a) PROVE Stayed(a)'
    <3>1. CASE DeleteReads
      BY <1>i, <2>3, <3>1 DEF DeleteReads, Stayed
    <3>2. CASE DeleteLost
      BY <2>3, <3>2 DEF DeleteLost, Stayed
    <3>. QED BY <1>8, <3>1, <3>2
  <2>4. Repeating'
    BY <2>1 DEF Repeating
  <2>5. Progress'
    BY <2>1, <2>3 DEF Progress, Kept, At
  <2>6. Outcome'
    BY <2>1, <2>3 DEF Outcome, Kept, Retrying
  <2>. QED BY <2>2, <2>4, <2>5, <2>6
<1>9. CASE DeleteWrites
  <2>1. UNCHANGED <<task, run, attempt, torn>> /\ document'.gone /\ member' = Idle
    BY <1>9 DEF DeleteWrites
  <2>2. Alone' /\ RunsOn'
    BY <2>1 DEF Alone, RunsOn, Live, At
  <2>. QED BY <1>i, <2>1, <2>2 DEF Progress, Outcome, Repeating, Kept
<1>. QED BY <1>1, <1>2, <1>3, <1>4, <1>5, <1>6, <1>7, <1>8, <1>9 DEF Members

(* What a step of the attempt under way has to show: it is the only one.   *)
LEMMA OneAtWork ==
    ASSUME TypeInv, TypeInv', Agreement, NEW a \in Attempt, Step(a) \/ Die(a),
           task'.attempt = task.attempt, task'.status # "canceled",
           Live(a)' => /\ task'.owner = task.owner /\ task'.status = task.status
                       /\ task'.lapsed = task.lapsed /\ attempt'[a].run = task'.run,
           Live(a)' /\ ~At(a, "claimed")' /\ ~At(a, "requeue")' =>
                run'[task'.run] = "running" /\ attempt'[a].saw = "running",
           Kept' =>
              /\ At(a, "embed")' => chunks'[a] = "pending"
              /\ At(a, "mark")' => chunks'[a] = "pending" /\ Stayed(a)'
              /\ At(a, "close")' \/ At(a, "finish")' => chunks'[a] = "indexed" /\ Stayed(a)'
              /\ At(a, "finish")' => document'.status = "indexed"
              /\ At(a, "failing")' => document'.status = "failed",
           task'.status # "running" => Outcome'
    PROVE  Agreement'
<1>. USE DEF Agreement
<1>1. /\ Live(a) /\ member' = member /\ torn' = torn
      /\ \A b \in Attempt : b # a => attempt'[b] = attempt[b]
  BY StepFrame
<1>2. a = task.attempt /\ task.status = "running" /\ task.owner = a /\ ~task.lapsed
  BY <1>1 DEF Alone
<1>3. \A b \in Attempt : b # a => ~Live(b)' /\ attempt'[b].at \notin Places
  <2>1. \A b \in Attempt : b # a => ~Live(b)
    BY <1>2 DEF Alone
  <2>. QED BY <1>1, <2>1, Active DEF Live
<1>4. Alone'
  <2>1. ASSUME NEW b \in Attempt, b > task'.attempt PROVE attempt'[b] = Idle
    <3>1. b # a /\ b > task.attempt
      BY <1>2, <2>1 DEF Attempt
    <3>. QED BY <1>1, <3>1 DEF Alone
  <2>. QED BY <1>2, <1>3, <2>1 DEF Alone
<1>5. RunsOn'
  <2>1. ASSUME Live(a)', ~At(a, "claimed")' PROVE attempt'[a].run # NoRun
    BY <2>1 DEF TypeInv, ActorType
  <2>. QED BY <1>3, <2>1 DEF RunsOn
<1>6. Progress'
  BY <1>3 DEF Progress, At, Places
<1>7. Outcome'
  BY DEF Outcome
<1>8. Repeating'
  BY <1>1, <1>2 DEF Repeating
<1>. QED BY <1>4, <1>5, <1>6, <1>7, <1>8

LEMMA AgreeAttempt ==
    ASSUME TypeInv, TypeInv', Agreement, NEW a \in Attempt, Step(a) \/ Die(a)
    PROVE  Agreement'
<1>. USE DEF index, history, cut
<1>r. /\ document \in DocumentRow /\ attempt \in Attempts /\ task \in TaskRow(Len(run))
      /\ chunks \in [Attempt -> {"none", "pending", "indexed"}] /\ vectors \subseteq Attempt
      /\ run \in Seq(RunStatus)
  BY TypeParts DEF RowsOK, ActorsOK
<1>f. /\ attempt' \in Attempts /\ Live(a) /\ member' = member /\ document'.gone = document.gone
  BY StepFrame
<1>w. attempt[a] \in Working /\ attempt[a].run \in Nat
  BY <1>f, Active, WorkingFields
<1>a. /\ a = task.attempt /\ task.status = "running" /\ task.owner = a /\ ~task.lapsed
      /\ attempt[a].run = task.run
  BY <1>f DEF Agreement, Alone
<1>k. Kept' <=> Kept
  BY <1>f DEF Kept
<1>t. ~torn /\ ~torn' /\ ~Retrying /\ ~Retrying'
  BY <1>f, <1>a, StepFrame DEF Agreement, Repeating, Retrying
<1>y. vectors \subseteq vectors' => \A b : Stayed(b) => Stayed(b)'
  BY <1>f, StepFrame DEF Stayed
<1>s. \A q \in {"parse", "embed", "mark", "close", "finish", "failing"} : At(a, q) =>
        /\ attempt[a].run \in 1..Len(run) /\ run[task.run] = "running" /\ attempt[a].saw = "running"
  BY <1>f, <1>a, <1>r, <1>w DEF Agreement, RunsOn, At, TaskRow, NoRun
<1>p. Kept =>
        /\ At(a, "embed") => chunks[a] = "pending"
        /\ At(a, "mark") => chunks[a] = "pending" /\ Stayed(a)
        /\ At(a, "close") \/ At(a, "finish") => chunks[a] = "indexed" /\ Stayed(a)
        /\ At(a, "finish") => document.status = "indexed"
        /\ At(a, "failing") => document.status = "failed"
  BY DEF Agreement, Progress
<1>o. attempt'[a].at = "over" => ~Live(a)'
  <2>1. \A x \in Working : x.at # "over"
    BY WorkingFields DEF Places
  <2>2. Idle.at # "over"
    BY DEF Idle
  <2>. QED BY <1>f, <2>1, <2>2 DEF Live, Attempts
(* The place is another, nothing else of the attempt is. *)
<1>g. ASSUME NEW p \in Places, Goes(a, p)
      PROVE  /\ attempt'[a].at = p /\ attempt'[a].run = attempt[a].run
             /\ attempt'[a].saw = attempt[a].saw
  BY <1>w, <1>g, GoesTo
<1>1. CASE Orphaned(a)
  <2>1. /\ Ends(a) /\ document.gone
        /\ task' = task \/ Record("failed", task.retries)
    BY <1>1 DEF Orphaned
  <2>2. attempt'[a].at = "over" /\ ~Live(a)' /\ ~Kept'
    BY <1>o, <1>k, <2>1, NextPlace DEF Kept
  <2>3. task'.attempt = task.attempt /\ task'.status # "canceled"
    <3>1. task.retries \in Nat /\ "failed" \in {"queued", "running"} \cup Finished
      BY <1>r DEF TaskRow, Finished
    <3>2. Record("failed", task.retries) => task'.attempt = task.attempt /\ task'.status = "failed"
      BY <3>1, Recorded
    <3>. QED BY <1>a, <2>1, <3>2
  <2>. QED BY <2>2, <2>3, OneAtWork DEF Outcome
<1>2. CASE Begin(a)
  <2>. DEFINE old == attempt[a].run
              reuse == old # NoRun /\ run[old] \notin TerminalStatus
  <2>1. PICK new \in Nat :
          /\ new = IF reuse THEN old ELSE Len(run) + 1
          /\ run' = IF reuse THEN [run EXCEPT ![old] = "running"] ELSE Append(run, "running")
          /\ task' = IF reuse THEN task ELSE [task EXCEPT !.run = new]
          /\ attempt' = [attempt EXCEPT ![a].at = "parse", ![a].run = new, ![a].saw = "running"]
    <3>1. (IF reuse THEN old ELSE Len(run) + 1) \in Nat
      BY <1>r, <1>w
    <3>. QED BY <1>2, <3>1 DEF Begin
  <2>. HIDE DEF reuse
  <2>2. run'[new] = "running" /\ task'.run = new
    <3>1. CASE reuse
      <4>1. old \in 1..Len(run) /\ new = old /\ run' = [run EXCEPT ![old] = "running"] /\ task' = task
        BY <1>a, <1>r, <1>w, <2>1, <3>1 DEF reuse, TaskRow, NoRun
      <4>. QED BY <1>a, <1>r, <4>1
    <3>2. CASE ~reuse
      BY <1>r, <2>1, <3>2 DEF TaskRow
    <3>. QED BY <3>1, <3>2
  <2>3. /\ task'.attempt = task.attempt /\ task'.status = task.status /\ task'.owner = task.owner
        /\ task'.lapsed = task.lapsed
    BY <1>r, <2>1 DEF TaskRow
  <2>4. attempt'[a].at = "parse" /\ attempt'[a].run = new /\ attempt'[a].saw = "running"
    BY <1>r, <1>w, <2>1 DEF Attempts, Working
  <2>. QED BY <1>a, <2>2, <2>3, <2>4, OneAtWork DEF At
<1>3. CASE Chunk(a)
  <2>1. /\ At(a, "parse") /\ Goes(a, "embed") /\ UNCHANGED <<task, run>>
        /\ chunks' = [chunks EXCEPT ![a] = "pending"]
    BY <1>3 DEF Chunk
  <2>2. attempt'[a].at = "embed" /\ attempt'[a].run = attempt[a].run /\ attempt'[a].saw = attempt[a].saw
    BY <1>g, <2>1 DEF Places
  <2>3. chunks'[a] = "pending"
    BY <1>r, <2>1
  <2>. QED BY <1>a, <1>s, <2>1, <2>2, <2>3, OneAtWork DEF At
<1>4. CASE Insert(a)
  <2>1. /\ At(a, "embed") /\ Goes(a, "mark") /\ UNCHANGED <<task, run, chunks>> /\ Stayed(a)'
    BY <1>4 DEF Insert, Stayed
  <2>2. attempt'[a].at = "mark" /\ attempt'[a].run = attempt[a].run /\ attempt'[a].saw = attempt[a].saw
    BY <1>g, <2>1 DEF Places
  <2>. QED BY <1>a, <1>s, <1>k, <1>p, <2>1, <2>2, OneAtWork DEF At
<1>5. CASE Mark(a)
  <2>1. /\ At(a, "mark") /\ UNCHANGED <<task, run, vectors>>
        /\ \/ Goes(a, "close") /\ chunks' = [chunks EXCEPT ![a] = "indexed"]
           \/ chunks[a] = "none" /\ (Goes(a, "close") \/ Ends(a))
    BY <1>5 DEF Mark
  <2>2. CASE Goes(a, "close") /\ (Kept => chunks'[a] = "indexed")
    <3>1. attempt'[a].at = "close" /\ attempt'[a].run = attempt[a].run /\ attempt'[a].saw = attempt[a].saw
      BY <1>g, <2>2 DEF Places
    <3>. QED BY <1>a, <1>s, <1>k, <1>p, <1>y, <2>1, <2>2, <3>1, OneAtWork DEF At
  <2>3. CASE Ends(a)
    <3>1. attempt'[a].at = "over" /\ ~Live(a)'
      BY <1>o, <2>3, NextPlace
    <3>. QED BY <1>a, <2>1, <3>1, OneAtWork DEF At
  <2>4. (Kept => chunks'[a] = "indexed") \/ Ends(a)
    BY <1>p, <1>r, <2>1
  <2>5. Goes(a, "close") \/ Ends(a)
    BY <2>1
  <2>. QED BY <2>2, <2>3, <2>4, <2>5
<1>6. CASE Indexed(a)
  <2>1. /\ At(a, "close") /\ Goes(a, "finish") /\ UNCHANGED <<task, run, chunks, vectors>>
        /\ document'.status = "indexed"
    BY <1>6, <1>r DEF Indexed, DocumentRow
  <2>3. Stayed(a) => Stayed(a)'
    BY <1>y, <2>1
  <2>2. attempt'[a].at = "finish" /\ attempt'[a].run = attempt[a].run /\ attempt'[a].saw = attempt[a].saw
    BY <1>g, <2>1 DEF Places
  <2>. QED BY <1>a, <1>s, <1>k, <1>p, <2>1, <2>2, <2>3, OneAtWork DEF At
<1>7. CASE PipelineFails(a)
  <2>1. /\ attempt[a].at \in {"parse", "embed", "mark", "close", "finish"} /\ Goes(a, "failing")
        /\ UNCHANGED <<task, run, chunks, vectors>> /\ document'.status = "failed"
    BY <1>7, <1>r DEF PipelineFails, DocumentRow
  <2>2. attempt'[a].at = "failing" /\ attempt'[a].run = attempt[a].run /\ attempt'[a].saw = attempt[a].saw
    BY <1>g, <2>1 DEF Places
  <2>3. run[task.run] = "running" /\ attempt[a].saw = "running"
    BY <1>s, <2>1 DEF At
  <2>. QED BY <1>a, <2>1, <2>2, <2>3, OneAtWork DEF At
<1>8. CASE Succeed(a)
  <2>1. /\ At(a, "finish") /\ UNCHANGED <<document, chunks, vectors>>
        /\ MoveRun(a, "succeeded").ok /\ MoveRun(a, "succeeded").row = "succeeded" /\ Owns(a)
    <3>1. run[attempt[a].run] = "running" /\ attempt[a].saw = "running"
      BY <1>8, <1>a, <1>s DEF Succeed
    <3>. QED BY <1>8, <1>a, <3>1, RunEnds DEF Succeed, MoveRun, Owns
  <2>2. /\ Ends(a) /\ run' = [run EXCEPT ![task.run] = "succeeded"]
        /\ task' = [task EXCEPT !.status = "succeeded", !.owner = Nobody, !.lapsed = FALSE,
                                !.run = task.run]
    BY <1>8, <1>a, <2>1 DEF Succeed
  <2>3. attempt'[a].at = "over" /\ ~Live(a)'
    BY <1>o, <2>2, NextPlace
  <2>4. task'.attempt = task.attempt /\ task'.status = "succeeded" /\ task'.run = task.run
    BY <1>r, <2>2 DEF TaskRow
  <2>5. run'[task.run] = "succeeded" /\ task.run # NoRun
    BY <1>r, <1>s, <1>a, <2>1, <2>2 DEF NoRun
  <2>6. Outcome'
    BY <1>k, <1>p, <1>y, <2>1, <2>4, <2>5 DEF Outcome
  <2>. QED BY <2>3, <2>4, <2>6, OneAtWork DEF At
<1>9. CASE Fail(a)
  <2>1. /\ At(a, "failing") /\ UNCHANGED <<chunks, vectors>>
        /\ MoveRun(a, "failed").ok /\ MoveRun(a, "failed").row = "failed" /\ Owns(a)
    <3>1. run[attempt[a].run] = "running" /\ attempt[a].saw = "running"
      BY <1>9, <1>a, <1>s DEF Fail
    <3>. QED BY <1>9, <1>a, <3>1, RunEnds DEF Fail, MoveRun, Owns
  <2>2. run' = [run EXCEPT ![task.run] = "failed"]
    BY <1>9, <1>a, <2>1 DEF Fail
  <2>3. \/ Goes(a, "requeue") /\ task' = task
        \/ Ends(a) /\ document' = document /\ Record("failed", attempt[a].retries + 1)
    BY <1>9, <2>1 DEF Fail
  <2>4. CASE Goes(a, "requeue") /\ task' = task
    <3>1. attempt'[a].at = "requeue" /\ attempt'[a].run = attempt[a].run
      BY <1>g, <2>4 DEF Places
    <3>. QED BY <1>a, <2>4, <3>1, OneAtWork DEF At
  <2>5. CASE Ends(a) /\ document' = document /\ Record("failed", attempt[a].retries + 1)
    <3>1. attempt'[a].at = "over" /\ ~Live(a)'
      BY <1>o, <2>5, NextPlace
    <3>2. task'.attempt = task.attempt /\ task'.status = "failed" /\ task'.run = task.run
      <4>1. attempt[a].retries + 1 \in Nat /\ "failed" \in Finished
        BY <1>w, WorkingFields DEF Finished
      <4>. QED BY <2>5, <4>1, Recorded
    <3>3. run'[task.run] = "failed" /\ task.run # NoRun
      BY <1>r, <1>s, <1>a, <2>1, <2>2 DEF NoRun
    <3>4. Outcome'
      BY <1>k, <1>p, <1>t, <2>1, <2>5, <3>2, <3>3 DEF Outcome
    <3>. QED BY <3>1, <3>2, <3>4, OneAtWork DEF At
  <2>. QED BY <2>3, <2>4, <2>5
<1>10. CASE Requeue(a)
  <2>1. attempt'[a].at = "over" /\ ~Live(a)'
    BY <1>o, <1>10, NextPlace DEF Requeue
  <2>2. task'.attempt = task.attempt /\ task'.status = "queued"
    <3>1. attempt[a].retries + 1 \in Nat
      BY <1>w, WorkingFields
    <3>. QED BY <1>10, <3>1, Recorded DEF Requeue
  <2>. QED BY <2>1, <2>2, OneAtWork DEF At, Outcome
<1>11. CASE Die(a)
  <2>1. attempt'[a].at = "over" /\ ~Live(a)' /\ task' = task
    BY <1>o, <1>11, NextPlace DEF Die
  <2>. QED BY <1>a, <2>1, OneAtWork DEF At
<1>. QED BY <1>1, <1>2, <1>3, <1>4, <1>5, <1>6, <1>7, <1>8, <1>9, <1>10, <1>11 DEF Step

LEMMA AgreeStep == AgreeInv /\ [Next]_vars => AgreeInv'
<1>. SUFFICES ASSUME AgreeInv, [Next]_vars PROVE AgreeInv'
  OBVIOUS
<1>1. TypeInv /\ TypeInv'
  BY TypeStep DEF AgreeInv
<1>2. ASSUME ~beside' PROVE Agreement'
  <2>1. CASE \E a \in Attempt : Step(a) \/ Die(a)
    <3>1. beside' = beside
      BY <1>1, <2>1, StepFrame
    <3>2. Agreement
      BY <1>2, <3>1 DEF AgreeInv, Agreement
    <3>. QED BY <1>1, <2>1, <3>2, AgreeAttempt
  <2>2. CASE Claim \/ Lapse \/ Members \/ UNCHANGED vars
    <3>1. beside' = beside \/ beside' = TRUE
      BY <2>2 DEF Claim, Lapse, Members, CancelReads, CancelWrites, RetryReads, RetryDocument, RetryRun,
                  RetryTask, RetryLost, RedriveReads, RedriveWrites, DeleteReads, DeleteWrites,
                  DeleteLost, Reads, vars, history
    <3>2. ~beside
      BY <1>2, <3>1
    <3>3. Agreement
      BY <3>2 DEF AgreeInv, Agreement
    <3>. QED BY <1>1, <1>2, <2>2, <3>2, <3>3, AgreeOthers
  <2>. QED BY <2>1, <2>2 DEF Next
<1>. QED BY <1>1, <1>2 DEF AgreeInv, Agreement

(* When nothing is under way, task, run, document and index tell the same  *)
(* story, through lost workers and retries of either kind, as long as no   *)
(* attempt went on beside the next one; what a request of a member that    *)
(* was lost between its commits leaves is said, and is all.                *)
THEOREM IngestAgreesHolds == Spec => []IngestAgrees
<1>1. AgreeInv => IngestAgrees
  <2>1. Idle.at = "idle"
    BY DEF Idle
  <2>. SUFFICES ASSUME AgreeInv, Quiet, ~beside, ~document.gone
                PROVE  /\ task.status = "succeeded" =>
                            /\ document.status = "indexed" /\ run[task.run] = "succeeded"
                            /\ \E a \in vectors \cup bared : chunks[a] = "indexed"
                       /\ task.status = "failed" =>
                            /\ document.status = IF torn THEN "queued" ELSE "failed"
                            /\ IF task.run = NoRun THEN torn ELSE run[task.run] = "failed"
    BY DEF IngestAgrees
  <2>2. member.at = "idle" /\ ~Retrying /\ \A a : Stayed(a) => a \in vectors \cup bared
    BY <2>1 DEF Quiet, Retrying, Stayed
  <2>3. Outcome /\ Kept
    BY DEF AgreeInv, Kept
  <2>. QED BY <2>2, <2>3 DEF Outcome
<1>. QED BY InitAgree, AgreeStep, <1>1, PTL DEF Spec

=============================================================================
