---------------------------- MODULE KnowledgeSync ----------------------------
(***************************************************************************)
(* The sync of one knowledge source with what its remote holds:            *)
(* modules/knowledge/application/connector_sync.py, its worker             *)
(* runtime/sync_worker.py and the operations of connector_service.py that  *)
(* queue, cancel and end runs.                                             *)
(*                                                                         *)
(* A worker claims the source's run, lists the remote, ingests what        *)
(* changed as new versions of a document, and retires what a complete      *)
(* listing no longer holds.  It works on copies of the rows it loaded and  *)
(* a commit writes the columns that differ from the copy, whatever the row *)
(* holds by then.  The remote changes and members delete documents under   *)
(* its hands; its process may die between any two commits, and its lease   *)
(* may run out while it lives.                                             *)
(*                                                                         *)
(* Abstracted: an item's content, its hash and the markers a listing has   *)
(* of it are one number; limits are the point where a listing stops;       *)
(* counters, recorded outcomes, audit; the ingest of a queued document.    *)
(***************************************************************************)
EXTENDS Naturals, Sequences

CONSTANTS
    Item, Worker,
    ProcessOf,              \* tasks of one process share its worker id
    Nobody, NoRow,
    MaxVersion,             \* bound on the contents of an item
    MaxAttempts,            \* knowledge_sync_max_attempts
    MaxRuns,                \* bound on the runs
    MaxTrouble              \* bound on what goes on besides, see Quiet

(* KnowledgeSourceItem: its markers and hash, and its document, 0 for none. *)
ItemRow == [status : {"present", "failed", "removed"}, content : Nat, document : Nat]

Run == 1..MaxRuns
Process == {ProcessOf[w] : w \in Worker}
Content == 1..MaxVersion
Absent == 0

ASSUME SyncAssumption ==
    /\ ProcessOf \in [Worker -> Process] /\ Nobody \notin Process
    /\ MaxVersion \in Nat \ {0} /\ MaxAttempts \in Nat \ {0} /\ MaxRuns \in Nat \ {0}
    /\ MaxTrouble \in Nat
    /\ NoRow \notin ItemRow

VARIABLES
    deleteRemoved,  \* KnowledgeSource.delete_removed
    remote,         \* [Item -> what the remote holds of it]
    source,         \* .alive, .due
    run,            \* [Run -> the sync run]
    item,           \* [Item -> KnowledgeSourceItem]
    document,       \* [Item -> the versions stored under its document key]
    work,           \* [Worker -> its session and memory]
    member,         \* the cancellation or deletion in progress
    changes,        \* of the remote and by members
    faults,         \* processes lost
    overlaps        \* how often a living worker lost its lease, or its run to a
                    \* cancellation that did not see it

store == <<source, run, item, document>>
bounds == <<changes, faults, overlaps>>
vars == <<deleteRemoved, remote, store, work, member, bounds>>

Active == {"queued", "running"}
Ended == {"succeeded", "partial", "failed", "canceled"}

NewRun == [status |-> "queued", owner |-> Nobody, lapsed |-> FALSE,
           attempts |-> 0, cancel |-> FALSE]
NoRun == [NewRun EXCEPT !.status = "none"]
Idle == [at |-> "idle"]
Anything == CHOOSE i \in Item : TRUE

(* What a worker has in memory: the copies of the items it loaded (items)  *)
(* and those whose document was there (live), what is to be listed (left), *)
(* was listed (seen), is to be retired (todo); the item in hand (cur), the *)
(* content found of it (got), its versions at hand (old); and as history   *)
(* what the remote held all along (there), and whether nothing changed     *)
(* outside (calm).                                                         *)
Memory(place, r, attempts) ==
    [at |-> place, run |-> r, attempts |-> attempts,
     items |-> [i \in Item |-> NoRow], live |-> {}, left |-> {}, seen |-> {}, todo |-> {},
     cur |-> Anything, got |-> Absent, old |-> {},
     truncated |-> FALSE, failed |-> FALSE, result |-> "none", there |-> {}, calm |-> FALSE]

(* What earlier runs left of an item: ingested, and maybe failed since. *)
Earlier == {NoRow} \cup [status : {"present", "failed"}, content : {1}, document : {1}]
FirstVersion == [content |-> 1, live |-> TRUE, tasked |-> TRUE]

Init ==
    /\ deleteRemoved \in BOOLEAN
    /\ remote \in [Item -> {Absent, 1}]
    /\ source = [alive |-> TRUE, due |-> TRUE]
    /\ run = [r \in Run |-> NoRun]
    /\ item \in [Item -> Earlier]
    /\ document = [i \in Item |-> IF item[i] = NoRow THEN <<>> ELSE <<FirstVersion>>]
    /\ work = [w \in Worker |-> Idle]
    /\ member = Idle
    /\ changes = 0 /\ faults = 0 /\ overlaps = 0

-----------------------------------------------------------------------------
(* Helpers *)

At(w, place) == work[w].at = place
Moves(w, memory) == work' = [work EXCEPT ![w] = memory]
Goes(w, place) == Moves(w, [work[w] EXCEPT !.at = place])
Row(w) == run[work[w].run]
Owns(w) == Row(w).owner = ProcessOf[w]

LiveDocuments(i) == {k \in DOMAIN document[i] : document[i][k].live}

(* A loaded row of an item, and whether its document was there. *)
Copy(w, i) == work[w].items[i]
HasLive(w, i) == Copy(w, i) # NoRow /\ i \in work[w].live

(* The commit of an item: an insert, which fails if another session was    *)
(* first, or the columns that differ from the copy.                        *)
Storable(w, i) == Copy(w, i) = NoRow => item[i] = NoRow

Stores(w, i, new) ==
    /\ Storable(w, i)
    /\ item' = [item EXCEPT ![i] =
        IF Copy(w, i) = NoRow THEN new
        ELSE [f \in DOMAIN new |-> IF new[f] # Copy(w, i)[f] THEN new[f] ELSE item[i][f]]]

Blank == [status |-> "present", content |-> Absent, document |-> 0]
Base(w, i) == IF Copy(w, i) = NoRow THEN Blank ELSE Copy(w, i)

-----------------------------------------------------------------------------
(* What happens to a source from outside *)

Quiet == changes + faults + overlaps < MaxTrouble

RemoteChanges(i, c) ==
    /\ Quiet /\ c # remote[i]
    /\ remote' = [remote EXCEPT ![i] = c]
    /\ work' = [w \in Worker |->
        IF work[w] = Idle THEN Idle
        ELSE [work[w] EXCEPT !.calm = FALSE,
                             !.there = IF c = Absent THEN @ \ {i} ELSE @]]
    /\ changes' = changes + 1
    /\ UNCHANGED <<deleteRemoved, store, member, faults, overlaps>>

(* A member deletes the document of an item. *)
DocumentDeleted(i, k) ==
    /\ Quiet /\ k \in LiveDocuments(i)
    /\ document' = [document EXCEPT ![i][k].live = FALSE]
    /\ work' = [w \in Worker |-> IF work[w] = Idle THEN Idle ELSE [work[w] EXCEPT !.calm = FALSE]]
    /\ changes' = changes + 1
    /\ UNCHANGED <<deleteRemoved, remote, source, run, item, member, faults, overlaps>>

FallsDue ==
    /\ source.alive /\ ~source.due
    /\ source' = [source EXCEPT !.due = TRUE]
    /\ UNCHANGED <<deleteRemoved, remote, run, item, document, work, member, bounds>>

(* create_sync_run: the store allows one active run per source. *)
Idles == \A r \in Run : run[r].status \notin Active

Queues ==
    \E r \in Run :
        /\ run[r].status = "none" /\ \A q \in 1..(r - 1) : run[q].status # "none"
        /\ run' = [run EXCEPT ![r] = NewRun]

TriggerSync ==
    /\ source.alive /\ Idles /\ Queues
    /\ UNCHANGED <<deleteRemoved, remote, source, item, document, work, member, bounds>>

(* A due schedule moves on, whether or not its run could be queued. *)
EnqueueDueRun ==
    /\ source.alive /\ source.due
    /\ source' = [source EXCEPT !.due = FALSE]
    /\ IF Idles THEN Queues ELSE UNCHANGED run
    /\ UNCHANGED <<deleteRemoved, remote, item, document, work, member, bounds>>

(* cancel_run and delete_source read the run and decide ... *)
MemberReads(act, r) ==
    /\ Quiet /\ member = Idle /\ source.alive /\ run[r].status \in Active
    /\ member' = [at |-> act, run |-> r, queued |-> run[r].status = "queued"]
    /\ changes' = changes + 1
    /\ UNCHANGED <<deleteRemoved, remote, store, work, faults, overlaps>>

(* ... and commit: a queued run is canceled, another asked to stop. *)
MemberWrites ==
    /\ member # Idle
    /\ run' = [run EXCEPT ![member.run] =
        IF member.queued THEN [@ EXCEPT !.status = "canceled"] ELSE [@ EXCEPT !.cancel = TRUE]]
    /\ source' = IF member.at = "delete" THEN [alive |-> FALSE, due |-> FALSE] ELSE source
    /\ member' = Idle
    /\ overlaps' = overlaps + (IF member.queued /\ run[member.run].status # "queued" THEN 1 ELSE 0)
    /\ UNCHANGED <<deleteRemoved, remote, item, document, work, changes, faults>>

-----------------------------------------------------------------------------
(* The claim and its loss *)

(* Mutant: a run whose worker was lost is nobody's to claim. *)
Claimable_Queued(r) == run[r].status = "queued"

Claimable(r) ==
    \/ run[r].status = "queued"
    \/ run[r].status = "running" /\ run[r].lapsed

ClaimNextRun(w, r) ==
    /\ At(w, "idle") /\ Claimable(r)
    /\ run' = [run EXCEPT ![r] = [run[r] EXCEPT !.status = "running", !.owner = ProcessOf[w],
                                                !.lapsed = FALSE, !.attempts = @ + 1]]
    /\ Moves(w, Memory("claimed", r, run[r].attempts + 1))
    /\ UNCHANGED <<deleteRemoved, remote, source, item, document, member, bounds>>

(* Nobody renews the lease of a worker that died; that of a living one     *)
(* runs out if its heartbeats are late.                                    *)
Holder(r) == {w \in Worker : work[w] # Idle /\ work[w].run = r /\ work[w].attempts = run[r].attempts}

Lapse(r) ==
    /\ run[r].status = "running" /\ ~run[r].lapsed
    /\ IF Holder(r) = {} THEN UNCHANGED overlaps
       ELSE Quiet /\ overlaps' = overlaps + 1
    /\ run' = [run EXCEPT ![r].lapsed = TRUE]
    /\ UNCHANGED <<deleteRemoved, remote, source, item, document, work, member, changes, faults>>

Dies(w) ==
    /\ work[w] # Idle /\ Quiet
    /\ Moves(w, Idle)
    /\ faults' = faults + 1
    /\ UNCHANGED <<deleteRemoved, remote, store, member, changes, overlaps>>

(* The end of a run as its worker writes it, over whatever it holds.       *)
Closes(w, status) ==
    /\ run' = [run EXCEPT ![work[w].run] =
        [@ EXCEPT !.status = status, !.owner = Nobody, !.lapsed = FALSE]]
    /\ Moves(w, Idle)

(* fail_if_attempts_exhausted *)
GiveUp(w) ==
    /\ At(w, "claimed") /\ work[w].attempts > MaxAttempts
    /\ Closes(w, "failed")
    /\ UNCHANGED <<deleteRemoved, remote, source, item, document, member, bounds>>

(* A statement failed and the crash is recorded, if the run is still ours. *)
FailCrashed(w) ==
    /\ At(w, "crashed")
    /\ IF Owns(w) THEN Closes(w, "failed")
       ELSE Moves(w, Idle) /\ UNCHANGED run
    /\ UNCHANGED <<deleteRemoved, remote, source, item, document, member, bounds>>

-----------------------------------------------------------------------------
(* The execution of a run *)

(* It goes to _finish with a result. *)
Concludes(w, result, truncated) ==
    Moves(w, [Memory("finishing", work[w].run, work[w].attempts) EXCEPT
                !.result = result, !.truncated = truncated, !.calm = work[w].calm])

Begin(w) ==
    /\ At(w, "claimed") /\ work[w].attempts <= MaxAttempts
    /\ IF source.alive
       THEN Moves(w, [work[w] EXCEPT
            !.at = "listing", !.left = Item, !.items = item, !.calm = TRUE,
            !.live = {i \in Item : item[i] # NoRow /\ item[i].document \in LiveDocuments(i)},
            !.there = {i \in Item : remote[i] # Absent}])
       ELSE Concludes(w, "failed", FALSE)
    /\ UNCHANGED <<deleteRemoved, remote, store, member, bounds>>

(* The remote or its credentials fail: so does the run. *)
ListingFails(w) ==
    /\ At(w, "listing")
    /\ Concludes(w, "failed", FALSE)
    /\ UNCHANGED <<deleteRemoved, remote, store, member, bounds>>

(* _checkpoint before an item that is listed or to be retired. *)
AtCheckpoint(w) ==
    \/ At(w, "listing") /\ \E i \in work[w].left : remote[i] # Absent
    \/ At(w, "removing") /\ work[w].todo # {}

Superseded(w) ==
    /\ AtCheckpoint(w) \/ At(w, "finishing")
    /\ ~Owns(w)
    /\ Moves(w, Idle)
    /\ UNCHANGED <<deleteRemoved, remote, store, member, bounds>>

Stopped(w) ==
    /\ AtCheckpoint(w) /\ Owns(w) /\ Row(w).cancel
    /\ Concludes(w, "canceled", FALSE)
    /\ UNCHANGED <<deleteRemoved, remote, store, member, bounds>>

GoesOn(w) == Owns(w) /\ ~Row(w).cancel

(* The listing passes an item the remote does not hold. *)
PassAbsent(w, i) ==
    /\ At(w, "listing") /\ i \in work[w].left /\ remote[i] = Absent
    /\ Moves(w, [work[w] EXCEPT !.left = @ \ {i}])
    /\ UNCHANGED <<deleteRemoved, remote, store, member, bounds>>

Result(w) == IF work[w].failed THEN "partial" ELSE "succeeded"

(* A cap, or a connector that did not see everything: nothing is retired.  *)
Truncate(w) ==
    /\ At(w, "listing")
    /\ Concludes(w, Result(w), TRUE)
    /\ UNCHANGED <<deleteRemoved, remote, store, member, bounds>>

(* Mutant: an item that could not be synced does not count as listed. *)
Enter_Unseen(w, i) ==
    /\ At(w, "listing") /\ i \in work[w].left /\ remote[i] # Absent /\ GoesOn(w)
    /\ Moves(w, [work[w] EXCEPT !.at = "item", !.cur = i, !.left = @ \ {i},
                                !.got = remote[i]])
    /\ UNCHANGED <<deleteRemoved, remote, store, member, bounds>>

(* The next listed item, with the marker the listing has of it. *)
Enter(w, i) ==
    /\ At(w, "listing") /\ i \in work[w].left /\ remote[i] # Absent /\ GoesOn(w)
    /\ Moves(w, [work[w] EXCEPT !.at = "item", !.cur = i, !.left = @ \ {i},
                                !.got = remote[i], !.seen = @ \cup {i}])
    /\ UNCHANGED <<deleteRemoved, remote, store, member, bounds>>

(* Done with an item: the session takes the new row for its copy. *)
Keeps(w, place, i, new, extra) ==
    Moves(w, [work[w] EXCEPT
        !.at = place, !.items[i] = new, !.live = @ \cup extra,
        !.cur = Anything, !.got = Absent, !.old = {},
        !.failed = @ \/ new.status = "failed"])

StaysSame(w, i) ==
    LET new == [Base(w, i) EXCEPT !.status = "present"]
    IN Stores(w, i, new) /\ Keeps(w, "listing", i, new, {})

(* Mutant: nobody looks whether the document is still there. *)
UnchangedByMetadata_Gone(w) ==
    LET i == work[w].cur IN
    Copy(w, i) # NoRow /\ Copy(w, i).status # "failed" /\ Copy(w, i).content = work[w].got

(* Its markers, or the bytes, are those of the last sync. *)
UnchangedByMetadata(w) ==
    LET i == work[w].cur IN
    HasLive(w, i) /\ Copy(w, i).status # "failed" /\ Copy(w, i).content = work[w].got

LeaveByMetadata(w) ==
    /\ At(w, "item") /\ UnchangedByMetadata(w)
    /\ StaysSame(w, work[w].cur)
    /\ UNCHANGED <<deleteRemoved, remote, source, run, document, member, bounds>>

(* Mutant: bytes are not compared with those ingested last. *)
SameBytes_Never(w) == FALSE

SameBytes(w) ==
    LET i == work[w].cur IN HasLive(w, i) /\ Copy(w, i).content = remote[i]

Fetchable(w) == At(w, "item") /\ ~UnchangedByMetadata(w) /\ remote[work[w].cur] # Absent

LeaveByHash(w) ==
    /\ Fetchable(w) /\ SameBytes(w)
    /\ StaysSame(w, work[w].cur)
    /\ UNCHANGED <<deleteRemoved, remote, source, run, document, member, bounds>>

(* enqueue_ingest_task commits the new version of the document: no key     *)
(* keeps two sessions from the same number ...                             *)
CreateVersion(w) ==
    /\ Fetchable(w) /\ ~SameBytes(w)
    /\ LET i == work[w].cur IN
        /\ document' = [document EXCEPT ![i] =
                Append(@, [content |-> remote[i], live |-> TRUE, tasked |-> FALSE])]
        /\ Moves(w, [work[w] EXCEPT !.at = "versioned", !.got = remote[i],
                                    !.old = {Len(document[i]) + 1}])
    /\ UNCHANGED <<deleteRemoved, remote, source, run, item, member, bounds>>

(* ... and then the task that will ingest it ... *)
CreateTask(w) ==
    /\ At(w, "versioned")
    /\ document' = [document EXCEPT ![work[w].cur] =
            [k \in DOMAIN @ |-> IF k \in work[w].old THEN [@[k] EXCEPT !.tasked = TRUE] ELSE @[k]]]
    /\ Goes(w, "tasked")
    /\ UNCHANGED <<deleteRemoved, remote, source, run, item, member, bounds>>

(* ... before the sync commits what it ingested. *)
RecordItem(w) ==
    /\ At(w, "tasked")
    /\ \E k \in work[w].old :
        LET i == work[w].cur
            new == [status |-> "present", content |-> work[w].got, document |-> k]
        IN Stores(w, i, new) /\ Keeps(w, "listing", i, new, {i})
    /\ UNCHANGED <<deleteRemoved, remote, source, run, document, member, bounds>>

(* The fetch, the limits or the storage refuse the item; the run goes on.  *)
ItemFails(w) ==
    /\ (At(w, "item") /\ ~UnchangedByMetadata(w)) \/ At(w, "versioned")
    /\ LET i == work[w].cur
           new == [Base(w, i) EXCEPT !.status = "failed"]
       IN Stores(w, i, new) /\ Keeps(w, "listing", i, new, {})
    /\ UNCHANGED <<deleteRemoved, remote, source, run, document, member, bounds>>

(* Another session inserted the item first. *)
InsertConflicts(w) ==
    /\ At(w, "item") \/ At(w, "versioned") \/ At(w, "tasked")
    /\ ~Storable(w, work[w].cur)
    /\ Moves(w, Memory("crashed", work[w].run, work[w].attempts))
    /\ UNCHANGED <<deleteRemoved, remote, store, member, bounds>>

(* A listing that came to its end: what it did not show is to be retired.  *)
EndListing(w) ==
    /\ At(w, "listing") /\ work[w].left = {}
    /\ Moves(w, [work[w] EXCEPT !.at = "removing",
        !.todo = {i \in Item \ work[w].seen :
                        Copy(w, i) # NoRow /\ Copy(w, i).status # "removed"}])
    /\ UNCHANGED <<deleteRemoved, remote, store, member, bounds>>

(* With delete_removed, every live version under the item's key goes ... *)
Retire(w, i) ==
    /\ At(w, "removing") /\ i \in work[w].todo /\ GoesOn(w)
    /\ Moves(w, [work[w] EXCEPT !.at = "deleting", !.cur = i, !.todo = @ \ {i},
        !.old = IF deleteRemoved /\ Copy(w, i).content # Absent THEN LiveDocuments(i) ELSE {}])
    /\ UNCHANGED <<deleteRemoved, remote, store, member, bounds>>

DeleteVersion(w, k) ==
    /\ At(w, "deleting") /\ k \in work[w].old
    /\ document' = [document EXCEPT ![work[w].cur][k].live = FALSE]
    /\ Moves(w, [work[w] EXCEPT !.old = @ \ {k}])
    /\ UNCHANGED <<deleteRemoved, remote, source, run, item, member, bounds>>

(* ... before the item is marked. *)
MarkRemoved(w) ==
    /\ At(w, "deleting") /\ work[w].old = {}
    /\ LET i == work[w].cur
           new == [Copy(w, i) EXCEPT !.status = "removed",
                       !.document = IF deleteRemoved /\ Copy(w, i).content # Absent THEN 0 ELSE @]
       IN Stores(w, i, new) /\ Keeps(w, "removing", i, new, {})
    /\ UNCHANGED <<deleteRemoved, remote, source, run, document, member, bounds>>

RemovalFails(w) ==
    /\ At(w, "deleting") /\ work[w].old # {}
    /\ Moves(w, [work[w] EXCEPT !.at = "removing", !.failed = TRUE,
                                !.cur = Anything, !.old = {}])
    /\ UNCHANGED <<deleteRemoved, remote, store, member, bounds>>

EndRemoval(w) ==
    /\ At(w, "removing") /\ work[w].todo = {}
    /\ Concludes(w, Result(w), FALSE)
    /\ UNCHANGED <<deleteRemoved, remote, store, member, bounds>>

(* _finish reads the owner once more, and then writes. *)
FinishReads(w) ==
    /\ At(w, "finishing") /\ Owns(w)
    /\ Goes(w, "ending")
    /\ UNCHANGED <<deleteRemoved, remote, store, member, bounds>>

FinishWrites(w) ==
    /\ At(w, "ending")
    /\ Closes(w, work[w].result)
    /\ UNCHANGED <<deleteRemoved, remote, source, item, document, member, bounds>>

-----------------------------------------------------------------------------
ItemStep(w) ==
    \/ \E i \in Item : PassAbsent(w, i) \/ Enter(w, i) \/ Retire(w, i)
    \/ LeaveByMetadata(w) \/ LeaveByHash(w) \/ CreateVersion(w) \/ CreateTask(w)
    \/ RecordItem(w) \/ ItemFails(w) \/ InsertConflicts(w)
    \/ MarkRemoved(w) \/ RemovalFails(w)
    \/ At(w, "deleting") /\ \E k \in work[w].old : DeleteVersion(w, k)

Execute(w) ==
    \/ GiveUp(w) \/ Begin(w) \/ ItemStep(w)
    \/ ListingFails(w) \/ Truncate(w) \/ Superseded(w) \/ Stopped(w)
    \/ EndListing(w) \/ EndRemoval(w)
    \/ FinishReads(w) \/ FinishWrites(w) \/ FailCrashed(w)

Next ==
    \/ \E i \in Item, c \in {Absent} \cup Content : RemoteChanges(i, c)
    \/ \E i \in Item : \E k \in LiveDocuments(i) : DocumentDeleted(i, k)
    \/ FallsDue \/ TriggerSync \/ EnqueueDueRun \/ MemberWrites
    \/ \E r \in Run :
        \/ Lapse(r)
        \/ \E act \in {"cancel", "delete"} : MemberReads(act, r)
        \/ \E w \in Worker : ClaimNextRun(w, r)
    \/ \E w \in Worker : Execute(w) \/ Dies(w)

(* Workers poll and go on, and the lease of a dead one runs out. *)
Fairness ==
    /\ \A r \in Run : WF_vars(Holder(r) = {} /\ Lapse(r))
    /\ \A w \in Worker :
        WF_vars(Execute(w)) /\ WF_vars(\E r \in Run : ClaimNextRun(w, r))

Spec == Init /\ [][Next]_vars
FairSpec == Spec /\ Fairness

-----------------------------------------------------------------------------
(* The document a search sees of an item: its newest version. *)
Newest(i) == CHOOSE k \in LiveDocuments(i) : \A j \in LiveDocuments(i) : j <= k

Mirrors(i) ==
    IF remote[i] = Absent
    THEN item[i] # NoRow => item[i].status = "removed"
    ELSE /\ item[i] # NoRow /\ item[i].status = "present" /\ item[i].content = remote[i]
         /\ item[i].document \in LiveDocuments(i)
         /\ document[i][item[i].document].content = remote[i]
         /\ document[i][item[i].document].tasked

(* A run that succeeds has brought the knowledge base in step: if nothing  *)
(* changed outside while it ran, and no other worker took its run for its  *)
(* own, every item is as the remote has it.                                *)
InStep ==
    \A w \in Worker :
        At(w, "ending") /\ work[w].result = "succeeded" /\ ~work[w].truncated
        /\ work[w].calm /\ overlaps = 0 =>
            \A i \in Item : Mirrors(i)

(* What a search finds is what the remote holds: the newest version of an  *)
(* item is the one the sync recorded.                                      *)
NewestIsRecorded ==
    \A w \in Worker :
        At(w, "ending") /\ work[w].result = "succeeded" /\ ~work[w].truncated
        /\ work[w].calm /\ overlaps = 0 =>
            \A i \in Item : remote[i] # Absent => Newest(i) = item[i].document

(* Removal is decided only from a complete listing: an item that the       *)
(* remote held all along is never retired, though it failed, was cut off   *)
(* by a limit, or was listed by another worker.                            *)
RemovedWasGone ==
    \A w \in Worker : At(w, "deleting") => work[w].cur \notin work[w].there

(* A repeat skips what was done: one content of an item is ingested twice  *)
(* in a row only if a worker was lost, a member deleted the first, or the  *)
(* first never got a task.                                                 *)
IngestedOnce ==
    faults = 0 /\ overlaps = 0 =>
        \A i \in Item : \A k \in 2..Len(document[i]) :
            document[i][k].content = document[i][k - 1].content =>
                ~document[i][k - 1].live \/ ~document[i][k - 1].tasked

(* A canceled run ingests nothing. *)
CanceledRests ==
    \A w \in Worker : At(w, "versioned") => Row(w).status # "canceled"

(* Every run ends, whatever is lost. *)
EveryRunEnds ==
    \A r \in Run : run[r].status \in Active ~> run[r].status \in Ended
=============================================================================
