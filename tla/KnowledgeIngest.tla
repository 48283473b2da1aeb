--------------------------- MODULE KnowledgeIngest ---------------------------
(***************************************************************************)
(* One ingestion task of one document: the task's operations in            *)
(* modules/knowledge/application/runtime_service.py, its workers           *)
(* (runtime/ingest_worker.py), the pipeline they run (runtime/pipeline.py, *)
(* runtime/index_builder.py) and the dead-letter page's re-drive.          *)
(*                                                                         *)
(* Every attempt works in a session of its own on the copies of the rows   *)
(* it loaded, and commits after every stage.  It looks at the task again   *)
(* only where it records the outcome: update_status refreshes the row and  *)
(* compares the lease's owner, for every outcome but the retry.            *)
(*                                                                         *)
(* Abstracted: what a document holds; an attempt's chunks are one row,     *)
(* and there is one at least; the stages between two writes of the same    *)
(* kind; the index's own row, statistics, stored files, steps.             *)
(***************************************************************************)
EXTENDS Naturals, Sequences, FiniteSets, RuntimeStatus

CONSTANTS
    WorkerCount,    \* the workers, each with a task at a time (concurrency 1)
    MaxRetries,     \* KnowledgeIngestTask.max_retries
    MaxAttempts,    \* bound on the claims
    MaxTrouble,     \* bound on the workers lost, the leases that run out under a
                    \* living attempt and the requests of members together
    Overlong        \* whether the document's chunks outgrow one listing

Attempt == 1..MaxAttempts
NoRun == 0
Nobody == 0

ASSUME IngestAssumption ==
    /\ WorkerCount \in Nat \ {0} /\ MaxAttempts \in Nat \ {0} /\ MaxRetries \in Nat
    /\ MaxTrouble \in Nat /\ Overlong \in BOOLEAN

VARIABLES
    task,       \* KnowledgeIngestTask
    run,        \* the traced runs, as they were created
    document,   \* .status, and whether .deleted_at is set
    chunks,     \* the chunk row of each attempt
    vectors,    \* the attempts whose vectors are in the store
    attempt,    \* where each attempt is, with what it loaded
    member,     \* the request of a member in progress
    raced,      \* history: a deletion met an attempt under way
    beside,     \* history: an attempt may have gone on beside the next one, its
                \* lease or its task lost
    torn,       \* history: a retry was lost half-way, and the task not queued since
    bared,      \* history: the attempts whose vectors a deletion took that was lost
    trouble

index == <<chunks, vectors>>
cut == <<torn, bared>>
history == <<raced, beside, cut>>
vars == <<task, run, document, index, attempt, member, history, trouble>>

Finished == {"succeeded", "failed", "canceled"}
Idle == [at |-> "idle"]
Over == [at |-> "over"]

Init ==
    /\ task = [status |-> "queued", owner |-> Nobody, lapsed |-> FALSE,
               retries |-> 0, run |-> 1, attempt |-> 0]
    /\ run = <<"queued">>
    /\ document = [status |-> "queued", gone |-> FALSE]
    /\ chunks = [a \in Attempt |-> "none"] /\ vectors = {}
    /\ attempt = [a \in Attempt |-> Idle]
    /\ member = Idle /\ raced = FALSE /\ beside = FALSE
    /\ torn = FALSE /\ bared = {}
    /\ trouble = 0

-----------------------------------------------------------------------------
(* Helpers *)

Live(a) == attempt[a] \notin {Idle, Over}
At(a, place) == attempt[a].at = place
Goes(a, place) == attempt' = [attempt EXCEPT ![a].at = place]
Ends(a) == attempt' = [attempt EXCEPT ![a] = Over]

(* The lease as the outcome compares it.  Its owner is a worker, which is  *)
(* as good as an attempt where a worker has one task at a time.            *)
Owns(a) == task.owner = a

(* update_run_status with the run as the attempt's session has it. *)
MoveRun(a, target) ==
    ConditionalMove(RunTransitions, attempt[a].saw, run[attempt[a].run], target)

Troubles == trouble < MaxTrouble /\ trouble' = trouble + 1

(* update_status of a row that was just refreshed. *)
Record(status, retries) ==
    task' = [task EXCEPT !.status = status, !.owner = Nobody, !.lapsed = FALSE, !.retries = retries]

-----------------------------------------------------------------------------
(* Claim and lease *)

(* Mutant: a task whose worker was lost is nobody's to claim. *)
Claimable_Queued == task.status = "queued"

Claimable == task.status = "queued" \/ (task.status = "running" /\ task.lapsed)

(* A worker that is free takes the task. *)
Claim ==
    /\ Claimable /\ task.attempt < MaxAttempts
    /\ Cardinality({a \in Attempt : Live(a)}) < WorkerCount
    /\ LET a == task.attempt + 1
       IN /\ task' = [task EXCEPT !.status = "running", !.owner = a, !.lapsed = FALSE, !.attempt = a]
          /\ attempt' = [attempt EXCEPT ![a] = [at |-> "claimed", run |-> task.run,
                                                retries |-> task.retries, saw |-> "none"]]
    /\ UNCHANGED <<run, document, index, member, history, trouble>>

(* A lease runs out when its attempt is over, or its heartbeat starves; *)
(* that the lease was lost is never looked at.                          *)
Lapse ==
    /\ task.status = "running" /\ ~task.lapsed
    /\ task' = [task EXCEPT !.lapsed = TRUE]
    /\ IF Live(task.attempt) THEN Troubles /\ beside' = TRUE
                             ELSE UNCHANGED <<trouble, beside>>
    /\ UNCHANGED <<run, document, index, attempt, member, raced, cut>>

-----------------------------------------------------------------------------
(* process_ingest_task *)

(* _orphaned: the document was deleted; the task fails for good. *)
Orphaned(a) ==
    /\ At(a, "claimed") /\ document.gone
    /\ Ends(a)
    /\ LET r == attempt[a].run
           fails == r = NoRun \/ run[r] = "failed" \/ "failed" \in RunTransitions[run[r]]
       IN IF fails /\ Owns(a)
          THEN /\ run' = IF r = NoRun THEN run ELSE [run EXCEPT ![r] = "failed"]
               /\ Record("failed", task.retries)
          ELSE UNCHANGED <<run, task>>
    /\ UNCHANGED <<document, index, member, history, trouble>>

(* The run of an earlier attempt is gone on with unless it ended; a number *)
(* the copy already has is not written again.                              *)
Begin(a) ==
    /\ At(a, "claimed") /\ ~document.gone
    /\ LET old == attempt[a].run
           reuse == old # NoRun /\ run[old] \notin TerminalStatus
           new == IF reuse THEN old ELSE Len(run) + 1
       IN /\ run' = IF reuse THEN [run EXCEPT ![old] = "running"] ELSE Append(run, "running")
          /\ task' = IF reuse THEN task ELSE [task EXCEPT !.run = new]
          /\ attempt' = [attempt EXCEPT ![a].at = "parse", ![a].run = new, ![a].saw = "running"]
    /\ raced' = (raced \/ member.at = "delete")
    /\ UNCHANGED <<document, index, member, beside, cut, trouble>>

(* The pipeline parses and chunks; its document is "working" whatever      *)
(* became of it.                                                           *)
Chunk(a) ==
    /\ At(a, "parse") /\ Goes(a, "embed")
    /\ document' = [document EXCEPT !.status = "working"]
    /\ chunks' = [chunks EXCEPT ![a] = "pending"]
    /\ UNCHANGED <<task, run, vectors, member, history, trouble>>

Insert(a) ==
    /\ At(a, "embed") /\ Goes(a, "mark")
    /\ vectors' = vectors \cup {a}
    /\ UNCHANGED <<task, run, document, chunks, member, history, trouble>>

(* The chunks are marked in one flush.  Where a deletion took the rows,    *)
(* the flush may notice, which breaks the session for good, or not: one    *)
(* row's UPDATE is counted, those of many only by some drivers.            *)
Mark(a) ==
    /\ At(a, "mark")
    /\ \/ /\ chunks[a] = "pending" /\ Goes(a, "close")
          /\ chunks' = [chunks EXCEPT ![a] = "indexed"]
       \/ /\ chunks[a] = "none" /\ UNCHANGED chunks
          /\ Goes(a, "close") \/ Ends(a)
    /\ UNCHANGED <<task, run, document, vectors, member, history, trouble>>

Indexed(a) ==
    /\ At(a, "close") /\ Goes(a, "finish")
    /\ document' = [document EXCEPT !.status = "indexed"]
    /\ UNCHANGED <<task, run, index, member, history, trouble>>

(* Mutant: an error of the pipeline is not written to the document. *)
PipelineFails_Silent(a) ==
    /\ attempt[a].at \in {"parse", "embed", "mark", "close", "finish"}
    /\ Goes(a, "failing")
    /\ UNCHANGED <<task, run, document, index, member, history, trouble>>

(* An error of any stage, of the statistics after the last one too. *)
PipelineFails(a) ==
    /\ attempt[a].at \in {"parse", "embed", "mark", "close", "finish"}
    /\ Goes(a, "failing")
    /\ document' = [document EXCEPT !.status = "failed"]
    /\ UNCHANGED <<task, run, index, member, history, trouble>>

(* The run and the task succeed in one commit.  An attempt whose run was   *)
(* ended otherwise goes on as failed.  One that lost the task to another   *)
(* worker, or to a cancellation, records nothing: the failure it would     *)
(* record is no move of a run it has just taken to success.                *)
Succeed(a) ==
    /\ At(a, "finish")
    /\ LET moved == MoveRun(a, "succeeded")
       IN \/ /\ ~moved.ok
             /\ attempt' = [attempt EXCEPT ![a].at = "failing", ![a].saw = moved.seen]
             /\ UNCHANGED <<task, run>>
          \/ /\ moved.ok /\ ~Owns(a) /\ Ends(a)
             /\ UNCHANGED <<task, run>>
          \/ /\ moved.ok /\ Owns(a) /\ Ends(a)
             /\ run' = [run EXCEPT ![attempt[a].run] = moved.row]
             /\ task' = [task EXCEPT !.status = "succeeded", !.owner = Nobody, !.lapsed = FALSE,
                                     !.run = attempt[a].run]
    /\ UNCHANGED <<document, index, member, history, trouble>>

(* The except clause.  With retries left the document goes back first, in  *)
(* the commit that ends the run ...                                        *)
Fail(a) ==
    /\ At(a, "failing")
    /\ LET moved == MoveRun(a, "failed")
           retries == attempt[a].retries + 1
           failed == [run EXCEPT ![attempt[a].run] = moved.row]
       IN \/ /\ ~moved.ok /\ Ends(a)
             /\ UNCHANGED <<task, run, document>>
          \/ /\ moved.ok /\ retries <= MaxRetries /\ Goes(a, "requeue")
             /\ run' = failed
             /\ document' = [document EXCEPT !.status = "queued"]
             /\ UNCHANGED task
          \/ /\ moved.ok /\ retries > MaxRetries /\ Ends(a)
             /\ IF Owns(a) THEN run' = failed /\ Record("failed", retries)
                           ELSE UNCHANGED <<run, task>>
             /\ UNCHANGED document
    /\ UNCHANGED <<index, member, history, trouble>>

(* ... then the task, whoever holds it by now. *)
Requeue(a) ==
    /\ At(a, "requeue") /\ Ends(a)
    /\ Record("queued", attempt[a].retries + 1)
    /\ UNCHANGED <<run, document, index, member, history, trouble>>

(* The process of an attempt dies, or its session breaks. *)
Die(a) ==
    /\ Live(a) /\ Troubles /\ Ends(a)
    /\ UNCHANGED <<task, run, document, index, member, history>>

-----------------------------------------------------------------------------
(* Members.  A request reads the task, and later writes what differs from  *)
(* its copy: a lease only where the copy has one.  One that is lost before *)
(* its first write has done nothing.                                       *)

Reads(kind, statuses) ==
    /\ member = Idle /\ Troubles
    /\ task.status \in statuses
    /\ member' = [at |-> kind, owner |-> task.owner]
    /\ UNCHANGED <<task, run, document, index, attempt, history>>

Writes(status, number) ==
    /\ member' = Idle
    /\ task' = [task EXCEPT !.status = status, !.run = number,
                            !.owner = IF member.owner = Nobody THEN @ ELSE Nobody]
    /\ torn' = FALSE /\ UNCHANGED bared

CancelReads == Reads("cancel", {"queued", "running"})

CancelWrites ==
    /\ member.at = "cancel" /\ Writes("canceled", task.run)
    /\ beside' = TRUE
    /\ UNCHANGED <<run, document, index, attempt, raced, trouble>>

RetryReads == Reads("retry", {"failed", "canceled"})

(* The document goes back in a commit of its own, if it is there; then the *)
(* run is forgotten, and then the task queued.                             *)
RetryDocument ==
    /\ member.at = "retry"
    /\ member' = [member EXCEPT !.at = "retry run"]
    /\ document' = IF document.gone THEN document ELSE [document EXCEPT !.status = "queued"]
    /\ UNCHANGED <<task, run, index, attempt, history, trouble>>

RetryRun ==
    /\ member.at = "retry run"
    /\ member' = [member EXCEPT !.at = "retry task"]
    /\ task' = [task EXCEPT !.run = NoRun]
    /\ UNCHANGED <<run, document, index, attempt, history, trouble>>

RetryTask ==
    /\ member.at = "retry task" /\ Writes("queued", task.run)
    /\ UNCHANGED <<run, document, index, attempt, raced, beside, trouble>>

(* The request is lost between two of its commits. *)
RetryLost ==
    /\ member.at \in {"retry run", "retry task"} /\ member' = Idle
    /\ torn' = TRUE
    /\ UNCHANGED <<task, run, document, index, attempt, raced, beside, bared, trouble>>

(* The dead-letter page queues a failed task as it is. *)
RedriveReads == Reads("redrive", {"failed"})

RedriveWrites ==
    /\ member.at = "redrive" /\ Writes("queued", task.run)
    /\ UNCHANGED <<run, document, index, attempt, raced, beside, trouble>>

(* Mutant: only the vectors of chunks that are marked are removed. *)
Stored_Marked == {a \in Attempt : chunks[a] = "indexed"}

(* The chunks of the document; a vector has the id of its chunk. *)
Stored == {a \in Attempt : chunks[a] # "none"}

(* What delete_document lists of them: no more than its limit. *)
Listings == IF Overlong THEN SUBSET Stored ELSE {Stored}

(* delete_document removes the vectors of the chunks it finds ... *)
DeleteReads ==
    /\ member = Idle /\ Troubles
    /\ ~document.gone
    /\ \E found \in Listings :
        /\ member' = [at |-> "delete", chunks |-> found]
        /\ vectors' = vectors \ found
    /\ raced' = (raced \/ \E a \in Attempt : Live(a) /\ ~At(a, "claimed"))
    /\ UNCHANGED <<task, run, document, chunks, attempt, beside, cut>>

(* ... and later, in one commit, their rows and the document. *)
DeleteWrites ==
    /\ member.at = "delete" /\ member' = Idle
    /\ chunks' = [a \in Attempt |-> IF a \in member.chunks THEN "none" ELSE chunks[a]]
    /\ document' = [status |-> "deleted", gone |-> TRUE]
    /\ UNCHANGED <<task, run, vectors, attempt, history, trouble>>

(* A stored file that cannot be removed, a write that fails, a process     *)
(* that is gone: the rows stay as they are, without their vectors.         *)
DeleteLost ==
    /\ member.at = "delete" /\ member' = Idle
    /\ bared' = bared \cup member.chunks
    /\ UNCHANGED <<task, run, document, index, attempt, raced, beside, torn, trouble>>

-----------------------------------------------------------------------------
Step(a) ==
    \/ Orphaned(a) \/ Begin(a)
    \/ Chunk(a) \/ Insert(a) \/ Mark(a) \/ Indexed(a)
    \/ PipelineFails(a) \/ Succeed(a) \/ Fail(a) \/ Requeue(a)

Members ==
    \/ CancelReads \/ CancelWrites
    \/ RetryReads \/ RetryDocument \/ RetryRun \/ RetryTask \/ RetryLost
    \/ RedriveReads \/ RedriveWrites
    \/ DeleteReads \/ DeleteWrites \/ DeleteLost

Next ==
    \/ Claim \/ Lapse \/ Members
    \/ \E a \in Attempt : Step(a) \/ Die(a)

(* Workers poll, an attempt goes on, leases run out. *)
Fairness ==
    /\ WF_vars(Claim) /\ WF_vars(Lapse)
    /\ \A a \in Attempt : WF_vars(Step(a))

Spec == Init /\ [][Next]_vars
FairSpec == Spec /\ Fairness

-----------------------------------------------------------------------------
(* What each variable holds. *)
TypeOK ==
    /\ task \in [status : {"queued", "running"} \cup Finished, owner : 0..MaxAttempts,
                 lapsed : BOOLEAN, retries : Nat, run : 0..Len(run), attempt : 0..MaxAttempts]
    /\ run \in Seq(RunStatus)
    /\ document \in [status : {"queued", "working", "indexed", "failed", "deleted"}, gone : BOOLEAN]
    /\ chunks \in [Attempt -> {"none", "pending", "indexed"}] /\ vectors \subseteq Attempt
    /\ \A a \in Attempt : Live(a) =>
        /\ attempt[a].run \in 0..Len(run)
        /\ attempt[a].retries \in Nat /\ attempt[a].saw \in RunStatus \cup {"none"}
    /\ raced \in BOOLEAN /\ beside \in BOOLEAN /\ torn \in BOOLEAN /\ bared \subseteq Attempt
    /\ trouble \in 0..MaxTrouble

(* When nothing is under way, the task, its document, its run and the      *)
(* index say the same, through lost workers, retries and members' retries: *)
(* an ingested document is found, a failed one is not called ingested.  A  *)
(* member's request that was lost between its commits is repaired by       *)
(* nothing, and leaves this and no more: after a deletion, a document that *)
(* is there without the vectors it removed; after a retry, one that waits  *)
(* for an ingestion nobody queued, until the task is tried again.          *)
(* Not so where two attempts overlapped, or a cancellation let the attempt *)
(* go on beside the next one.                                              *)
Quiet == member = Idle /\ \A a \in Attempt : ~Live(a)

IngestAgrees ==
    Quiet /\ ~beside /\ ~document.gone =>
        /\ task.status = "succeeded" =>
            /\ document.status = "indexed" /\ run[task.run] = "succeeded"
            /\ \E a \in vectors \cup bared : chunks[a] = "indexed"
        /\ task.status = "failed" =>
            /\ document.status = IF torn THEN "queued" ELSE "failed"
            /\ IF task.run = NoRun THEN torn ELSE run[task.run] = "failed"

(* A deleted document leaves nothing that can be found, whatever its       *)
(* attempts left behind: one that died with its vectors stored and its     *)
(* chunks not marked has their ids all the same.  An attempt under way     *)
(* when the document is deleted does not know and adds its own.  A         *)
(* document with more chunks than one listing holds keeps the others.      *)
DeletedIsGone ==
    document.gone /\ ~raced => vectors = {} /\ \A a \in Attempt : chunks[a] = "none"

(* What is queued or running ends, unless an attempt goes on beside the    *)
(* next one.                                                               *)
IngestSettles ==
    task.status \in {"queued", "running"} ~> task.status \in Finished \/ beside

(* "Raising without a status write would leave it claimed until the lease  *)
(* expires and the queue would retry it forever."                          *)
OrphanFails ==
    document.gone /\ task.status \in {"queued", "running"} ~> task.status \in Finished

(* "Another worker owns this task now.  Its result stands." *)
ResultStands ==
    [][task.status = "succeeded" => task'.status = "succeeded"]_vars

(* "Re-ingesting rebuilds the document's chunks under the same key, so a   *)
(* repeat is not additive."                                                *)
RepeatNotAdditive == \A a, b \in Stored : a = b
=============================================================================
