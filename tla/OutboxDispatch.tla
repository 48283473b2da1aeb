---------------------------- MODULE OutboxDispatch ----------------------------
(***************************************************************************)
(* The transactional outbox (kernel/events): rows published with the       *)
(* business change, dispatchers that take a batch of them through their    *)
(* consumers in one transaction, checkpoints, retries, dead letters, the   *)
(* retention purge, and the replay of dead letters by hand.                *)
(*                                                                         *)
(* A dispatcher's uncommitted writes are kept apart from the database: the *)
(* rows it changed (and so has locked) in held, the checkpoints it         *)
(* inserted in staged, what its consumers wrote in acted.  Durations are   *)
(* flags that time sets: a backoff that is over (due), a lease that runs   *)
(* (leased), a retention window that has passed (old).                     *)
(***************************************************************************)
EXTENDS Naturals

CONSTANTS
    Event, Consumer, Worker,
    HandlersOf,         \* the consumers registered for an event's type
    Driver,             \* consumers that commit in mid-tick: task retries
    Invalid,            \* events of a payload version nobody knows
    Lost,               \* task retries whose execution snapshot may be gone
    Slot,               \* consumers that insert their checkpoint before they write
    Messy,              \* <<event, consumer>> whose handler may raise half-way
    Poison,             \* <<event, consumer>> whose handler may break the transaction
    MaxAttempts,
    OutliveRetention,   \* rows may stay undelivered for longer than the window
    MaxFaults,          \* bound on ticks lost to crashes and database errors
    MaxRepeats,         \* bound on how often one effect is committed
    NoRow, NoEvent, NoConsumer

Row == [status : {"absent", "pending", "processing", "done", "failed", "purged"},
        attempts : Nat, due : BOOLEAN, leased : BOOLEAN, old : BOOLEAN]

ASSUME OutboxAssumption ==
    /\ HandlersOf \in [Event -> SUBSET Consumer]
    /\ Driver \subseteq Consumer
    /\ \A e \in Event : \A c, d \in HandlersOf[e] \cap Driver : c = d
    /\ Invalid \subseteq Event
    /\ Lost \subseteq Event
    /\ Slot \subseteq Consumer \ Driver
    /\ Messy \subseteq Event \X (Consumer \ Driver)
    /\ Poison \subseteq Event \X Consumer
    /\ MaxAttempts \in Nat \ {0}
    /\ OutliveRetention \in BOOLEAN
    /\ MaxFaults \in Nat /\ MaxRepeats \in Nat
    /\ NoRow \notin Row /\ NoEvent \notin Event /\ NoConsumer \notin Consumer

VARIABLES
    row,         \* event_outbox
    checkpoint,  \* event_consumer_checkpoint: absent, within the window, or past it
    effect,      \* how often a consumer's writes for an event were committed
    moved,       \* tasks that a retry has moved on (a guard of Driver)
    pc, todo, seen, cur, left, doing,   \* of each dispatcher's tick
    held, staged, acted, moving,        \* of its transaction
    faults,
    errors       \* history: failed deliveries committed since publish or replay

table == <<row, checkpoint, effect, moved>>
tick == <<pc, todo, seen, cur, left, doing>>
tx == <<held, staged, acted, moving>>
vars == <<table, tick, tx, faults, errors>>

OutboxTypeOK ==
    /\ row \in [Event -> Row]
    /\ checkpoint \in [Event -> [Consumer -> {"none", "fresh", "old"}]]
    /\ effect \in [Event -> [Consumer -> Nat]]
    /\ moved \subseteq Event
    /\ pc \in [Worker -> {"idle", "batch", "row", "driving", "record"}]
    /\ todo \in [Worker -> SUBSET Event]
    /\ seen \in [Worker -> [Event -> Nat]]
    /\ cur \in [Worker -> Event \cup {NoEvent}]
    /\ left \in [Worker -> SUBSET Consumer]
    /\ doing \in [Worker -> Consumer \cup {NoConsumer}]
    /\ held \in [Worker -> [Event -> Row \cup {NoRow}]]
    /\ staged \in [Worker -> SUBSET (Event \X Consumer)]
    /\ acted \in [Worker -> SUBSET (Event \X Consumer)]
    /\ moving \in [Worker -> SUBSET Event]
    /\ faults \in Nat
    /\ errors \in [Event -> Nat]

NothingHeld == [e \in Event |-> NoRow]

Init ==
    /\ row = [e \in Event |-> [status |-> "absent", attempts |-> 0, due |-> FALSE,
                               leased |-> FALSE, old |-> FALSE]]
    /\ checkpoint = [e \in Event |-> [c \in Consumer |-> "none"]]
    /\ effect = [e \in Event |-> [c \in Consumer |-> 0]]
    /\ moved = {}
    /\ pc = [w \in Worker |-> "idle"]
    /\ todo = [w \in Worker |-> {}]
    /\ seen = [w \in Worker |-> [e \in Event |-> 0]]
    /\ cur = [w \in Worker |-> NoEvent]
    /\ left = [w \in Worker |-> {}]
    /\ doing = [w \in Worker |-> NoConsumer]
    /\ held = [w \in Worker |-> NothingHeld]
    /\ staged = [w \in Worker |-> {}]
    /\ acted = [w \in Worker |-> {}]
    /\ moving = [w \in Worker |-> {}]
    /\ faults = 0
    /\ errors = [e \in Event |-> 0]

-----------------------------------------------------------------------------
(* Rows, locks and transactions *)

Holds(w, e) == held[w][e] # NoRow

FreeFor(w, e) == \A v \in Worker \ {w} : ~Holds(v, e)

Unlocked(e) == \A v \in Worker : ~Holds(v, e)

(* Mutant: a row whose dispatcher died is not taken over. *)
Due_PendingOnly(e) == row[e].status = "pending" /\ row[e].due

Due(e) ==
    \/ row[e].status = "pending" /\ row[e].due
    \/ row[e].status = "processing" /\ ~row[e].leased

(* What a session finds of a consumer's checkpoint: the committed row or   *)
(* its own. *)
IsProcessed(w, e, c) == checkpoint[e][c] # "none" \/ <<e, c>> \in staged[w]

(* The transaction of w commits, with the pairs in extra applied and the   *)
(* tasks in over moved on as well.                                         *)
Publishes(w, extra, over) ==
    /\ row' = [e \in Event |-> IF Holds(w, e) THEN held[w][e] ELSE row[e]]
    /\ checkpoint' = [e \in Event |-> [c \in Consumer |->
                        IF <<e, c>> \in staged[w] THEN "fresh" ELSE checkpoint[e][c]]]
    /\ effect' = [e \in Event |-> [c \in Consumer |->
                        effect[e][c] + (IF <<e, c>> \in acted[w] THEN 1 ELSE 0)
                                     + (IF <<e, c>> \in extra THEN 1 ELSE 0)]]
    /\ moved' = moved \cup moving[w] \cup over
    /\ errors' = [e \in Event |-> IF Holds(w, e) /\ held[w][e].status \in {"pending", "failed"}
                                  THEN errors[e] + 1 ELSE errors[e]]

EmptyTx(w) ==
    /\ held' = [held EXCEPT ![w] = NothingHeld]
    /\ staged' = [staged EXCEPT ![w] = {}]
    /\ acted' = [acted EXCEPT ![w] = {}]
    /\ moving' = [moving EXCEPT ![w] = {}]

EndTick(w) ==
    /\ pc' = [pc EXCEPT ![w] = "idle"]
    /\ todo' = [todo EXCEPT ![w] = {}]
    /\ cur' = [cur EXCEPT ![w] = NoEvent]
    /\ left' = [left EXCEPT ![w] = {}]
    /\ doing' = [doing EXCEPT ![w] = NoConsumer]
    /\ UNCHANGED seen

Rollback(w) == EmptyTx(w) /\ EndTick(w)

Stage(w, e, r) == held' = [held EXCEPT ![w][e] = r]

(* The row is settled in this transaction and the batch goes on. *)
SettleRow(w, r) ==
    /\ FreeFor(w, cur[w])
    /\ Stage(w, cur[w], r)
    /\ pc' = [pc EXCEPT ![w] = "batch"]
    /\ cur' = [cur EXCEPT ![w] = NoEvent]
    /\ left' = [left EXCEPT ![w] = {}]
    /\ UNCHANGED <<table, todo, seen, doing, moving, faults, errors>>

Settle(w, r) == SettleRow(w, r) /\ UNCHANGED <<staged, acted>>

Claimed(e) == [row[e] EXCEPT !.status = "processing", !.leased = TRUE]

Done(r) == [r EXCEPT !.status = "done", !.leased = FALSE, !.old = FALSE]

Failed(r) == [r EXCEPT !.status = "failed", !.leased = FALSE]

(* attempts is the count as the batch was listed: the claim refreshes only *)
(* the columns it sets.                                                    *)
Retried(r, attempts) ==
    [status |-> "pending", attempts |-> attempts + 1, due |-> FALSE, leased |-> FALSE,
     old |-> r.old]

(* The row as this transaction last wrote it, or as the database has it.   *)
Current(w, e) == IF Holds(w, e) THEN held[w][e] ELSE row[e]

(* What becomes of a row that a consumer failed. *)
Missed(w) ==
    IF seen[w][cur[w]] + 1 >= MaxAttempts THEN Failed(Current(w, cur[w]))
                                          ELSE Retried(Current(w, cur[w]), seen[w][cur[w]])

-----------------------------------------------------------------------------
(* Publishing and time *)

Publish(e) ==
    /\ row[e].status = "absent"
    /\ row' = [row EXCEPT ![e] = [@ EXCEPT !.status = "pending", !.due = TRUE]]
    /\ UNCHANGED <<checkpoint, effect, moved, tick, tx, faults, errors>>

BackoffEnds(e) ==
    /\ row[e].status = "pending" /\ ~row[e].due
    /\ row' = [row EXCEPT ![e].due = TRUE]
    /\ UNCHANGED <<checkpoint, effect, moved, tick, tx, faults, errors>>

LeaseEnds(e) ==
    /\ row[e].status = "processing" /\ row[e].leased
    /\ row' = [row EXCEPT ![e].leased = FALSE]
    /\ UNCHANGED <<checkpoint, effect, moved, tick, tx, faults, errors>>

RowAges(e) ==
    /\ row[e].status = "done" /\ ~row[e].old
    /\ row' = [row EXCEPT ![e].old = TRUE]
    /\ UNCHANGED <<checkpoint, effect, moved, tick, tx, faults, errors>>

CheckpointAges(e, c) ==
    /\ checkpoint[e][c] = "fresh"
    /\ OutliveRetention \/ row[e].status \in {"done", "purged"}
    /\ checkpoint' = [checkpoint EXCEPT ![e][c] = "old"]
    /\ UNCHANGED <<row, effect, moved, tick, tx, faults, errors>>

-----------------------------------------------------------------------------
(* A dispatcher's tick *)

(* list_pending_due; the batch limit is larger than any instance here.     *)
List(w) ==
    /\ pc[w] = "idle"
    /\ \E e \in Event : Due(e)
    /\ todo' = [todo EXCEPT ![w] = {e \in Event : Due(e)}]
    /\ seen' = [seen EXCEPT ![w] = [e \in Event |-> row[e].attempts]]
    /\ pc' = [pc EXCEPT ![w] = "batch"]
    /\ UNCHANGED <<table, cur, left, doing, tx, faults, errors>>

(* A poll that finds nothing due. *)
PollNothing(w) ==
    /\ pc[w] = "idle" /\ \A e \in Event : ~Due(e)
    /\ UNCHANGED vars

(* Mutant: a row that was listed is claimed, whatever became of it since.  *)
Claim_AsListed(w, e) ==
    /\ pc[w] = "batch" /\ e \in todo[w] /\ FreeFor(w, e)
    /\ todo' = [todo EXCEPT ![w] = @ \ {e}]
    /\ Stage(w, e, Claimed(e))
    /\ cur' = [cur EXCEPT ![w] = e]
    /\ left' = [left EXCEPT ![w] = HandlersOf[e]]
    /\ pc' = [pc EXCEPT ![w] = "row"]
    /\ UNCHANGED <<table, seen, doing, staged, acted, moving, faults, errors>>

(* try_claim: an update that waits for another transaction's row lock and  *)
(* then looks at the row as that transaction left it.                      *)
Claim(w, e) ==
    /\ pc[w] = "batch" /\ e \in todo[w] /\ FreeFor(w, e) /\ Due(e)
    /\ todo' = [todo EXCEPT ![w] = @ \ {e}]
    /\ Stage(w, e, Claimed(e))
    /\ cur' = [cur EXCEPT ![w] = e]
    /\ left' = [left EXCEPT ![w] = HandlersOf[e]]
    /\ pc' = [pc EXCEPT ![w] = "row"]
    /\ UNCHANGED <<table, seen, doing, staged, acted, moving, faults, errors>>

ClaimLost(w, e) ==
    /\ pc[w] = "batch" /\ e \in todo[w] /\ FreeFor(w, e) /\ ~Due(e)
    /\ todo' = [todo EXCEPT ![w] = @ \ {e}]
    /\ UNCHANGED <<table, pc, seen, cur, left, doing, tx, faults, errors>>

Refuse(w) ==
    /\ pc[w] = "row" /\ cur[w] \in Invalid
    /\ Settle(w, Failed(Current(w, cur[w])))

Dispatchable(w, c) == pc[w] = "row" /\ cur[w] \notin Invalid /\ c \in left[w]

Skip(w, c) ==
    /\ Dispatchable(w, c) /\ IsProcessed(w, cur[w], c)
    /\ left' = [left EXCEPT ![w] = @ \ {c}]
    /\ UNCHANGED <<table, pc, todo, seen, cur, doing, tx, faults, errors>>

Invokable(w, c) ==
    /\ Dispatchable(w, c) /\ ~IsProcessed(w, cur[w], c)

Acts(w, c) == acted' = [acted EXCEPT ![w] = @ \cup {<<cur[w], c>>}]

(* The insert of a checkpoint waits for another transaction's insert of    *)
(* the same key.                                                           *)
Stages(w, c) ==
    /\ \A v \in Worker \ {w} : <<cur[w], c>> \notin staged[v]
    /\ staged' = [staged EXCEPT ![w] = @ \cup {<<cur[w], c>>}]

(* A consumer that writes only in the dispatcher's transaction. *)
Handle(w, c) ==
    /\ Invokable(w, c) /\ c \notin Driver \cup Slot
    /\ Acts(w, c)
    /\ doing' = [doing EXCEPT ![w] = c]
    /\ pc' = [pc EXCEPT ![w] = "record"]
    /\ UNCHANGED <<table, todo, seen, cur, left, held, staged, moving, faults, errors>>

(* One that inserts its checkpoint first, as if it were a lock. *)
HandleSlot(w, c) ==
    /\ Invokable(w, c) /\ c \in Slot
    /\ Acts(w, c) /\ Stages(w, c)
    /\ doing' = [doing EXCEPT ![w] = c]
    /\ pc' = [pc EXCEPT ![w] = "record"]
    /\ UNCHANGED <<table, todo, seen, cur, left, held, moving, faults, errors>>

(* The consumer of a task retry commits the replay it queues, and with it  *)
(* everything the tick has staged so far; then it moves the task on.       *)
Drive(w, c) ==
    /\ Invokable(w, c) /\ c \in Driver
    /\ cur[w] \notin moved \cup moving[w] /\ effect[cur[w]][c] < MaxRepeats
    /\ Publishes(w, {<<cur[w], c>>}, {})
    /\ EmptyTx(w)
    /\ doing' = [doing EXCEPT ![w] = c]
    /\ pc' = [pc EXCEPT ![w] = "driving"]
    /\ UNCHANGED <<todo, seen, cur, left, faults>>

(* Without a snapshot to replay it commits the failure of the task. *)
FailTask(w, c) ==
    /\ Invokable(w, c) /\ c \in Driver
    /\ cur[w] \notin moved \cup moving[w] /\ cur[w] \in Lost
    /\ Publishes(w, {<<cur[w], c>>}, {cur[w]})
    /\ EmptyTx(w)
    /\ doing' = [doing EXCEPT ![w] = c]
    /\ pc' = [pc EXCEPT ![w] = "record"]
    /\ UNCHANGED <<todo, seen, cur, left, faults>>

DriveNothing(w, c) ==
    /\ Invokable(w, c) /\ c \in Driver
    /\ cur[w] \in moved \cup moving[w]
    /\ doing' = [doing EXCEPT ![w] = c]
    /\ pc' = [pc EXCEPT ![w] = "record"]
    /\ UNCHANGED <<table, todo, seen, cur, left, tx, faults, errors>>

MoveTask(w) ==
    /\ pc[w] = "driving"
    /\ moving' = [moving EXCEPT ![w] = @ \cup {cur[w]}]
    /\ pc' = [pc EXCEPT ![w] = "record"]
    /\ UNCHANGED <<table, todo, seen, cur, left, doing, held, staged, acted, faults, errors>>

(* try_record_success: a duplicate is silently none of its business. *)
Record(w) ==
    /\ pc[w] = "record"
    /\ \/ IsProcessed(w, cur[w], doing[w]) /\ UNCHANGED staged
       \/ ~IsProcessed(w, cur[w], doing[w]) /\ Stages(w, doing[w])
    /\ left' = [left EXCEPT ![w] = @ \ {doing[w]}]
    /\ doing' = [doing EXCEPT ![w] = NoConsumer]
    /\ pc' = [pc EXCEPT ![w] = "row"]
    /\ UNCHANGED <<table, todo, seen, cur, held, acted, moving, faults, errors>>

(* Mutant: a row whose consumer failed goes the way of the others. *)
Raise_Swallowed(w, c) ==
    /\ Invokable(w, c)
    /\ left' = [left EXCEPT ![w] = @ \ {c}]
    /\ UNCHANGED <<table, pc, todo, seen, cur, doing, tx, faults, errors>>

(* Mutant: a consumer that failed is checkpointed as if it had not. *)
Raise_Recorded(w, c) ==
    /\ Invokable(w, c)
    /\ Stages(w, c)
    /\ left' = [left EXCEPT ![w] = @ \ {c}]
    /\ UNCHANGED <<table, pc, todo, seen, cur, doing, held, acted, moving, faults, errors>>

(* A consumer raises before it has written anything. *)
Raise(w, c) ==
    /\ Invokable(w, c)
    /\ Settle(w, Missed(w))

(* A consumer raises half-way.  The transaction keeps what it wrote: the   *)
(* effect of most, but of those in Slot only their checkpoint.             *)
RaiseMidway(w, c) ==
    /\ Invokable(w, c) /\ <<cur[w], c>> \in Messy
    /\ SettleRow(w, Missed(w))
    /\ \/ c \in Slot /\ Stages(w, c) /\ UNCHANGED acted
       \/ c \notin Slot /\ effect[cur[w]][c] < MaxRepeats /\ Acts(w, c) /\ UNCHANGED staged

(* A consumer whose statement the database refuses: the transaction is     *)
(* aborted, whatever the tick writes afterwards fails, and all is undone.  *)
Poisoned(w, c) ==
    /\ Invokable(w, c) /\ <<cur[w], c>> \in Poison
    /\ Rollback(w)
    /\ UNCHANGED <<table, faults, errors>>

Finish(w) ==
    /\ pc[w] = "row" /\ cur[w] \notin Invalid /\ left[w] = {}
    /\ Settle(w, Done(Current(w, cur[w])))

Commit(w) ==
    /\ pc[w] = "batch" /\ todo[w] = {}
    /\ Publishes(w, {}, {})
    /\ Rollback(w)
    /\ UNCHANGED faults

(* The process dies, or the database does: nothing staged survives. *)
TickFails(w) ==
    /\ pc[w] # "idle" /\ faults < MaxFaults
    /\ faults' = faults + 1
    /\ Rollback(w)
    /\ UNCHANGED <<table, errors>>

(* The database breaks a cycle of two ticks that wait for each other.      *)
WaitsFor(w, v) ==
    \/ pc[w] = "batch" /\ todo[w] # {} /\ \A e \in todo[w] : Holds(v, e)
    \/ pc[w] = "row" /\ Holds(v, cur[w])
    \/ pc[w] = "row" /\ \E c \in left[w] \cap Slot : <<cur[w], c>> \in staged[v]
    \/ pc[w] = "record" /\ <<cur[w], doing[w]>> \in staged[v]

DeadlockVictim(w) ==
    /\ \E v \in Worker \ {w} : WaitsFor(w, v) /\ WaitsFor(v, w)
    /\ Rollback(w)
    /\ UNCHANGED <<table, faults, errors>>

-----------------------------------------------------------------------------
(* Retention and dead letters *)

PurgeRow(e) ==
    /\ row[e].status = "done" /\ row[e].old /\ Unlocked(e)
    /\ row' = [row EXCEPT ![e].status = "purged"]
    /\ UNCHANGED <<checkpoint, effect, moved, tick, tx, faults, errors>>

PurgeCheckpoint(e, c) ==
    /\ checkpoint[e][c] = "old"
    /\ checkpoint' = [checkpoint EXCEPT ![e][c] = "none"]
    /\ UNCHANGED <<row, effect, moved, tick, tx, faults, errors>>

Replay(e) ==
    /\ row[e].status = "failed" /\ Unlocked(e)
    /\ row' = [row EXCEPT ![e] = [@ EXCEPT !.status = "pending", !.attempts = 0, !.due = TRUE]]
    /\ errors' = [errors EXCEPT ![e] = 0]
    /\ UNCHANGED <<checkpoint, effect, moved, tick, tx, faults>>

-----------------------------------------------------------------------------
Tick(w) ==
    \/ List(w) \/ PollNothing(w) \/ Refuse(w) \/ MoveTask(w) \/ Record(w) \/ Finish(w)
    \/ Commit(w)
    \/ \E e \in Event : Claim(w, e) \/ ClaimLost(w, e)
    \/ \E c \in Consumer :
        \/ Skip(w, c) \/ Handle(w, c) \/ HandleSlot(w, c)
        \/ Drive(w, c) \/ FailTask(w, c) \/ DriveNothing(w, c)
        \/ Raise(w, c) \/ RaiseMidway(w, c) \/ Poisoned(w, c)

Timer(e) == BackoffEnds(e) \/ LeaseEnds(e)

Ageing(e) == RowAges(e) \/ \E c \in Consumer : CheckpointAges(e, c)

Purge(e) == PurgeRow(e) \/ \E c \in Consumer : PurgeCheckpoint(e, c)

Next ==
    \/ \E e \in Event : Publish(e) \/ Timer(e) \/ Ageing(e) \/ Purge(e) \/ Replay(e)
    \/ \E w \in Worker : Tick(w) \/ DeadlockVictim(w) \/ TickFails(w)

Spec == Init /\ [][Next]_vars

(* run_loop polls for ever, whatever a tick raised, and time passes.       *)
Fairness ==
    /\ \A w \in Worker : WF_vars(Tick(w))
    /\ \A e \in Event : WF_vars(Timer(e))

FairSpec == Spec /\ Fairness
-----------------------------------------------------------------------------
(* Properties *)

(* Events none of whose consumers commits in mid-tick. *)
Plain == {e \in Event : HandlersOf[e] \cap Driver = {}}

(* Two ways for a consumer to fail: before its own checkpoint, or before   *)
(* its writes.                                                             *)
SlotsRaiseFirst == \A p \in Messy : p[2] \notin Slot

WritersRaiseFirst == \A p \in Messy : p[2] \in Slot

(* A consumer's writes for an event are committed at most once, whatever   *)
(* crashes, is retried, redelivered, purged or replayed; the part  *)
(* of ImplementsDeliveryQueue that lets a consumer raise after inserting   *)
(* its checkpoint.                                                         *)
AppliedOnce == \A e \in Plain, c \in Consumer : effect[e][c] <= 1

(* A row is done only when every consumer's writes have been committed:    *)
(* no delivery is lost. *)
DoneIsDelivered ==
    \A e \in Event : row[e].status \in {"done", "purged"} =>
        \A c \in HandlersOf[e] : effect[e][c] >= 1

(* A checkpoint vouches for committed writes: a consumer that will be      *)
(* skipped has had its effect.                                             *)
CheckpointVouches ==
    \A e \in Event, c \in Consumer : checkpoint[e][c] # "none" => effect[e][c] >= 1

(* Why, in two parts.  Whatever a tick, a checkpoint or a finished row     *)
(* takes for delivered has been committed, or will be with what it says.   *)
InRow(w) == pc[w] \in {"row", "driving", "record"}

Delivered(w, e, c) == effect[e][c] >= 1 \/ <<e, c>> \in acted[w]

PairsVouched(w) == \A p \in staged[w] : Delivered(w, p[1], p[2])

RowsVouched(w) ==
    \A e \in Event : Holds(w, e) /\ held[w][e].status \in {"done", "purged"} =>
        \A c \in HandlersOf[e] : Delivered(w, e, c)

TickVouched(w) ==
    InRow(w) =>
        /\ cur[w] \in Event /\ left[w] \subseteq HandlersOf[cur[w]]
        /\ \A c \in HandlersOf[cur[w]] \ left[w] : Delivered(w, cur[w], c)
        /\ pc[w] # "row" => doing[w] \in Consumer /\ Delivered(w, cur[w], doing[w])
        /\ pc[w] = "driving" => /\ doing[w] \in HandlersOf[cur[w]] \cap Driver
                                /\ effect[cur[w]][doing[w]] >= 1

TasksVouched(tasks) ==
    \A e \in tasks : \A c \in HandlersOf[e] \cap Driver : effect[e][c] >= 1

WorkerVouched(w) ==
    PairsVouched(w) /\ RowsVouched(w) /\ TickVouched(w) /\ TasksVouched(moving[w])

Vouched ==
    /\ CheckpointVouches /\ DoneIsDelivered /\ TasksVouched(moved)
    /\ \A w \in Worker : WorkerVouched(w)

(* And a plain event is in one tick at a time: who works on it holds its   *)
(* row, which is pending; what was done for it is checkpointed with it.    *)
LockHeld ==
    /\ \A v, w \in Worker, e \in Plain : Holds(v, e) /\ Holds(w, e) => v = w
    /\ \A w \in Worker : InRow(w) /\ cur[w] \in Plain => Holds(w, cur[w])
    /\ \A w \in Worker, e \in Plain : Holds(w, e) => row[e].status \in {"pending", "processing"}

ActedOnce ==
    \A w \in Worker, e \in Plain, c \in Consumer : <<e, c>> \in acted[w] =>
        /\ Holds(w, e)
        /\ effect[e][c] = 0 /\ checkpoint[e][c] = "none"
        /\ \/ <<e, c>> \in staged[w]
           \/ pc[w] = "record" /\ cur[w] = e /\ doing[w] = c

StagedHeld ==
    \A w \in Worker, e \in Plain, c \in Consumer : <<e, c>> \in staged[w] => Holds(w, e)

EffectMarked ==
    \A e \in Plain, c \in Consumer :
        effect[e][c] >= 1 /\ row[e].status \notin {"done", "purged"} => checkpoint[e][c] = "fresh"

Exclusive == LockHeld /\ ActedOnce /\ StagedHeld /\ EffectMarked /\ AppliedOnce

(* The queue of DeliveryQueue as the tables show it, for plain events: a   *)
(* consumer's commit in mid-tick gives the lock of its row away, and the   *)
(* tick may settle the row after another has.                              *)
Place(status) ==
    CASE status = "absent" -> "absent"
      [] status \in {"pending", "processing"} -> "queued"
      [] status \in {"done", "purged"} -> "delivered"
      [] status = "failed" -> "dead"

QueuePlace == [e \in Plain |-> Place(row[e].status)]

QueueTries == [e \in Plain |-> row[e].attempts]

QueueTimes == [e \in Plain |-> effect[e]]

Queue == INSTANCE DeliveryQueue WITH
    Event <- Plain, place <- QueuePlace, tries <- QueueTries, times <- QueueTimes

(* The tables do what the queue promises, whatever crashes, is taken over, *)
(* purged or replayed: what was delivered is never delivered again or put  *)
(* back, no consumer is passed over or served twice, and a dead letter     *)
(* stays one until a member replays it.                                    *)
ImplementsDeliveryQueue == Queue!QueueSpec

(* A row is given up on by the time its deliveries have failed as often as *)
(* the limit allows; with one dispatcher only, see seen.                   *)
AttemptLimit == \A e \in Event : errors[e] <= MaxAttempts

Settled(e) == row[e].status \in {"done", "failed", "purged"}

(* OUTBOX_EVENT_MODEL.md: "rows that exceed the attempt limit remain in    *)
(* the terminal `failed` state": every published row is delivered or       *)
(* becomes a dead letter.  Not so with a consumer whose statement the      *)
(* database refuses: the rollback undoes the attempt it counted too, and   *)
(* the deliveries of every row listed with it.                             *)
EveryRowSettles == \A e \in Event : row[e].status = "pending" ~> Settled(e)

(* Unless that goes on for ever, every published row does settle, whatever *)
(* crashes, raises or loses its dispatcher, rows that were listed with     *)
(* poisoned ones included.                                                 *)
PoisonPasses == <>[][\A w \in Worker, c \in Consumer : ~Poisoned(w, c)]_vars

SettlesOnceClean == PoisonPasses => EveryRowSettles

(* The re-drive of a retried task happens exactly once. *)
DrivenOnce == \A e \in Event, c \in Driver : effect[e][c] <= 1

=============================================================================
