# Verification of SOIT's durable runtime

SOIT is a multi-tenant platform that runs agents, workflows and tools on behalf
of workspaces. Its server (`src/server/app`) keeps everything that must survive
a crash in PostgreSQL and moves it forward from request handlers and background
workers that share nothing but the database. What can go wrong is therefore
almost always the same thing: two sessions act on the same row, one of them on
a copy it read a while ago, and one of them may stop for good in between.

This directory models that runtime in TLA+, checks the models with TLC on small
instances, and proves the central facts with TLAPS for every instance.

## Inventory

Paths are relative to `src/server/app`. The last column names the module.

| Component | State it keeps | Operations | What is hard | What makes it correct | Module |
|---|---|---|---|---|---|
| Lifecycle tables, `kernel/runtime/status.py`, `runs/writer.py` | status of runs, steps, responses, tasks | `update_run_status`, `update_step_status` | conditional update decided on a cached status | no illegal move; a lost race is noticed | `RuntimeStatus` |
| Tool call ledger and gateway, `kernel/runtime/runs/tool_calls.py`, `kernel/ports/tools/policy.py` | `run_step_tool_calls`, its step, the lease | claim, mark running, renew, complete, fail, await/reject approval | stale copies, expired leases, crash past the outbound boundary, callers that commit after an exception | a call is sent once; what is recorded is final | `ToolCallLedger` |
| Tool invocation service, `kernel/runtime/tools/invocation.py` | the run around one call, its approval | start, resume, repeat, settle | a resume that races another | the run ends as the call did; an undecided call does not run | `ToolInvocation` |
| Outbox, `kernel/events/outbox_repo.py`, `dispatcher.py`, `checkpoint.py`, `retention.py` | `event_outbox`, consumer checkpoints | publish, claim, dispatch, retry, dead-letter, replay, purge | batch transactions, crash between commit points, poison rows | at-least-once delivery, once per consumer | `OutboxDispatch` |
| Response interactions, `kernel/runtime/common/lease.py`, `wiring/response_interaction_worker.py` | leased commands, responses, events | claim, execute, cancel, release, drain, clear up after the dead | a worker that outlives its lease, a cancellation between two transactions | one live executor; one outcome, told once; nothing abandoned | `InteractionWork` over `LeasedWork` |
| Response streams, `kernel/runtime/responses/streaming.py`, `api/v1/responses/interaction_stream.py` | a reader's cursor | tail, reconnect | events between two reads; broken connections | every event once, in order, to the last | `ResponseStream` |
| Workflow engine, `modules/workflow/runtime/*` | workflow runs, checkpoints, step ledger, execution lease | execute, checkpoint, suspend, resume, redrive, reap | crash between a step and the checkpoint, locks across sessions | the checkpoint never lies; a node that must not repeat does not | `WorkflowExecution` over `GraphProgress` |
| Approvals, `modules/observe/application/*`, `wiring/workflow_approval_resume.py` | approvals, the claim of a waiting run | open, decide, expire, sweep, continue | decision racing expiry, a claim inside the dispatcher's transaction | one decision, one continuation | `ApprovalResume` |
| Schedules, `wiring/schedule_worker.py`, `kernel/runtime/schedules` | due times | claim, fire, advance, run by hand, edit | nobody renews the lease; a firing and its next date are two commits | one firing per occurrence, none missed | `ScheduleFiring` |
| Knowledge sync, `modules/knowledge/application/connector_sync.py` | sync runs, items, document versions | list, ingest, retire, cancel | incomplete listings, stale copies, crash between commits | in step with the remote; nothing retired in error | `KnowledgeSync` |
| Knowledge ingest, `modules/knowledge/runtime/ingest_worker.py`, `pipeline.py` | ingest tasks, document status, chunks, vectors | claim, parse, index, retry, cancel, delete | five places that must agree, written one after the other | task, run, document and index agree; a deleted document is gone | `KnowledgeIngest` |
| Model calls, budget holds, image jobs, `kernel/ports/llm/policy.py`, `modules/billing`, `wiring/image_job.py` | spend, holds, calls in flight | admit, hold, call, charge, release, reap | a hold against a spend read earlier, lost processes | no unexplained overspend; a call is charged once | `ModelCalls` |
| Tasks, `kernel/runtime/tasks` | task rows | create, retry, cancel | a retry's event applied late or twice | a retry drives once | its consumer in `OutboxDispatch` |
| Event bus, `kernel/events/bus.py`, `redis_bus.py` | subscribers | publish, wake | lost notifications | only shortens a wait | abstracted in `ResponseStream` |
| Billing records, virtual models | balance, thresholds, health counters | CRUD, choice of a target | little | | not modelled |
| Identity, secrets, plugins, model hub, memory, notification | configuration rows | CRUD | little concurrency of their own | | not modelled |
| HTTP API, web UI, command line | none of their own | parse, render | none | | not modelled |

Components interact through rows (a run, its steps, their tool calls, an
approval), through events written to the outbox in the transaction that made
the change, and through leases that let another worker take over what a dead
one left.

Three facts about sessions recur in every module. Sessions are opened with
`expire_on_commit=False` (`infra/db/session.py`), so a copy stays as it was
read until something reloads it; a statement that selects a row the session
already has does not; and a flush writes only the attributes that differ from
the copy, whatever the row holds by then.

## Modules

### `RuntimeStatus`
The lifecycle tables as functions from a status to its successors, and
`ConditionalMove`, the compare-and-set every writer of a run or a step uses:
it decides on the status cached in the writer's session, updates only if the
row still has it, and accepts a lost race only when the winner moved the row
to the same target.

### `ToolCallLedger`
One logical tool call. `record` is the row of `run_step_tool_calls` (status,
lease owner, lease expiry, whether `outbound_started_at` is set, whether the
result was kept), `step` the status of the linked step. A request is one
`ToolPolicyGateway.invoke`: `pc` says between which two commits it is, `view`
holds the copies its session has cached. The application opens sessions with
`expire_on_commit=False` (`infra/db/session.py`), so those copies stay as they
were read until something reloads them, and only `claim` does
(`populate_existing` under a row lock).

Each action is one transaction. `Admit`, the `Claim...` family, `MarkRunning`,
`RenewLease`, `CallTool`, `ToolAnswers`, `Complete` and `Fail` are the path of
a call; `Handle` is what `except Exception` does wherever it is entered;
`Abandon` is what becomes of the staged writes when that raises too: services
roll them back, a workflow node's session lives on and commits them with its
next status update. `Vanish` is a crash or a cancellation, which no
`except Exception` sees. `Tick` advances the clock leases are compared with.

Three constants describe the callers: `OwnerOf` (services use a fresh lease
owner for every request, a workflow's attempts share one), `FailureRetrier`
(requests sent with `retry_failed`) and `Node` (requests whose session is
committed after an exception).

`served` and `crossed` are history: which tools reported success, and which
requests crossed the outbound boundary since the call was last reset.

### `ToolInvocation`
The service in front of the gateway, for one idempotency key. It extends
`ToolCallLedger` and composes with it action by action: `Prepare`, `Reject` and
`InGateway` take a step of the ledger, everything else leaves the ledger alone.
`run` is the status of the `runs` row the first request (`Starter`) opened,
`decision` the approval, `stage` where each request is between two commits,
`finish` the requests that were called with `finish_run`, `told` what the caller
was answered, `gated` whether the tool's policy wants an approval.

The record of the call, the run and the approval are three transactions
(`Prepare`, `RunWaits`, `OpenApproval`), and so are the three of a rejection.
`_settle_run` reads the record, and what it does to the run is another
statement: `SettleRun` and then `WaitAgain` or `FailRun`. `FinishRun` moves the
run from the status its session cached before the call; the other actions load
the run in the statement before. `Decide` is a member's decision, whose own
lifecycle is another component.

### `DeliveryQueue` and `OutboxDispatch`
`DeliveryQueue` is what the outbox promises of an event: queued once, given to
each consumer exactly once, out of the queue when all have had it or as a dead
letter, and put back only by a member, who starts its attempts afresh. It knows
no dispatcher, lock, lease or transaction; its one compound step is a batch
taken through its consumers. `OutboxDispatch` implements it
(`ImplementsDeliveryQueue`) for plain events, those without the consumer of
task retries: `place` is the row's status, with pending and processing both
queued, done and purged both delivered; `times` is `effect`.

`OutboxDispatch` is the rows of `event_outbox`, the consumers' checkpoints, and
any number of dispatchers. A tick takes a batch of rows through their consumers
in one transaction, so what it has written is kept apart until it commits: the
rows it changed, and so has locked, in `held`, the checkpoints in `staged`, what
its consumers wrote in `acted`, the tasks they moved on in `moving`. `Publishes`
is the commit: it lays that over `row`, `checkpoint`, `effect` and `moved`.
`effect` counts, for an event and a consumer, how often the consumer's writes
were committed, which is what every property is about. `pc`, `todo`, `seen`,
`cur`, `left` and `doing` are the dispatcher's loop; `seen` is the attempt count
of each row as the batch was listed, for the claim refreshes only the columns it
sets.

Consumers come in four kinds, by what the dispatcher can tell apart:
- most write in the dispatcher's transaction (`Handle`);
- some insert their checkpoint first, as a lock (`Slot`, `HandleSlot`):
  `on_cost_recorded`, `on_budget_thresholds` and the notification handlers;
- the consumer of task retries commits in mid-tick (`Driver`, `Drive`,
  `MoveTask`), or fails the task when its snapshot is gone (`Lost`, `FailTask`);
- any may raise before it has written (`Raise`), those in `Messy` half-way
  (`RaiseMidway`), and those in `Poison` with an error that aborts the
  transaction (`Poisoned`): the handler of errors then fails as well and the
  whole tick is rolled back, the count of the attempt included.

`TickFails` is a crash or a lost connection, `DeadlockVictim` the database
ending a cycle of lock waits. Durations are flags that time sets: `due` (the
backoff is over), `leased`, `old` (past the retention window). Abstracted: the
consumers of a row are tried in any order, not the order of registration; a
batch has no limit; the row locks of `mark_done`, `mark_retry` and
`mark_failed` are taken where they are called rather than at the next flush.
Not modelled: calls of consumers to external systems, which the documents call
at least once, and the refusal of a retry that no driver can run.

### `LeasedWork` and `InteractionWork`
`LeasedWork` is the abstract promise of the lease module: `phase` of the row,
the number of attempts, the attempt that is alive. `InteractionWork` is one
persisted interaction and the workers that execute it, and implements it
(`ImplementsLeasedWork`). The row is `status`, `owner`, `lapsed` (the lease ran
out), `attempt`, `bound` (the response linked to it); `resp`, `run` and `log`
are the response, the run and the events of each attempt, `pc`, `ok` and `seen`
where an execution is, whether its last look at the lease was good, and the
status its session cached. `_assert_lease` reads in a step of its own before
the transaction it guards. `mode` tells a direct answer from an agent's, whose
emitter writes through a service of its own. `hb` is the attempt each worker's
heartbeat renews for it, `up` and `cut` the workers alive and shutting down,
`api` a cancellation between its two commits. `steady` says that no heartbeat
is late, `cancelable` that somebody may cancel.

### `ResponseStream`
Extends `InteractionWork` with a client that follows it: `at` is the place in
the loop of `streaming.py` (read the events, read the status, and once it has
ended read the events again), `cursor` the last sequence number, `told` what
the client got, over any number of connections. The event bus only ends a
pause early, so it is a stutter here.

### `GraphProgress` and `WorkflowExecution`
`GraphProgress` is what the recorded progress of a graph promises; the ledger
of steps of `WorkflowExecution` implements it (`ImplementsGraphProgress`).
`row` is the workflow run with its checkpoint and lease, `ledger` the steps
committed for each node, `session` what the engine's session has written and
not committed (and therefore locked), `exec` the memory of each execution: the
nodes' states, outputs and tasks, the edges settled and active. `setting` is
how the run is set up: `on_error`, one slot or two, whether the row was claimed
before the engine adopts it, whether heartbeats are in time. With one slot all
nodes share the engine's session; with two each has its own.

### `ApprovalResume`
`run` and `work` are the two rows of a run that waits (`work.waiting` is the
request its checkpoint stopped at, `work.owner` the execution that has the
claim), `approval`, `event` and `closings` the requests, `tick` the
dispatcher's transaction while the consumer claims the run in it, `exec` the
executions. Deciding, sweeping, expiring, resuming by hand, cancelling and
reaping are actions of their own. A member takes the row's lock
(`LockRequest`) and then decides (`Resolve`) or lets the row go as it was
(`LetGo`): whoever may not decide is refused after the lock was taken, and a
delegation leaves the request pending too. The sweepers skip locked rows.

### `ScheduleFiring`
`next` and `claim` are the row, `firing` each worker's or member's firing with
the copy of the row it works from, `edit` a member's update between its read
and its write. `fired` counts, for an occurrence, how often its target was
started, `settled` the occurrences whose firing or failure was recorded. What a
worker does when the expression cannot be parsed (`schedule_worker.py:124`) is
left out: an expression is parsed when it is saved, and no other is in the row.

### `KnowledgeSync`
`remote` is what the remote holds of each item, `item` and `document` the rows
of the source and the versions of its documents, `run` the sync runs, `work`
the memory of each worker: its copies, what it has listed, what is left. The
remote changes, members delete documents, sources and runs, workers are lost;
`MaxTrouble` bounds these together. A version's number is its place among the
document's versions. Nothing in the tables or the migrations keeps two sessions
from writing the same number (`KERNEL_V1_DATA_MODEL.md:299` promises a unique
key that `models.py` does not declare), so creating a version never fails.

### `KnowledgeIngest`
`task`, `run`, `document`, `chunks` and `vectors` are the five places an
attempt writes, one commit or one external call at a time; `attempt` is where
each attempt is, with what it loaded; `member` a request between two of its
commits. A retry commits the document, then the detached run, then the task
(`RetryDocument`, `RetryRun`, `RetryTask`); a deletion removes the vectors
before it commits anything (`DeleteReads`, `DeleteWrites`). Either may be lost
in between (`RetryLost`, `DeleteLost`), for which there is no repair. A deletion
lists at most 10000 chunks, and those beyond it keep their rows and vectors:
`Overlong` says whether the document has more (`Listings`). `raced`, `beside`,
`torn` and `bared` are history: a deletion met an attempt under way; an attempt
may have gone on beside the next one; a retry was lost half-way and the task not
queued since; the attempts whose vectors a lost deletion removed.

### `ModelCalls`
Runs make calls against one budget with a hard stop. `staged` and `charges` are
costs flushed and costs committed, `pending`, `settled` and `releasing` the
holds of a session on their way from the call to their release, `redis` and
`local` where holds are kept, `noted` the image calls whose request is on the
step. Admission is two steps: `Check` reads the spend and computes the capacity
of the hold (`room`, unbounded as long as nothing was spent), `Acquire` counts
the holds against that capacity and takes one. `tainted`, `forgiven`, `late` are
history. A call is tainted if the budget could not see it: admitted in Redis
although nothing was left by then, because the capacity had been misread
(`Misread`, `NoRoomLeft`); held in its process only; passed on by a virtual
model; or without its hold while its cost is still to come. Forgiven are costs
lost with their session (`LoseCost`, `LoseImageCost`) and calls made on a step
the reaper had failed already. Late are jobs reaped while alive (`ReapAlive`);
this may happen from the moment the step is open until the job writes. That a
job may be reaped before its step is open is left out: nothing was asked yet,
and the step it then opens is as any other.

## Runs

Every run is an instance small enough to be searched completely and large
enough for the interleavings its properties are about.

| Run | Question | Answer |
|---|---|---|
| `invocation` (`ToolInvocation`) | is a call sent once and its record final, do record and step agree, is no success invented; does only an approved call run, do run and answers tell its outcome? | yes, for service callers |
| `outbox` (`OutboxDispatch`) | is a finished row delivered to all, does a checkpoint vouch for its writes; do the tables implement `DeliveryQueue`, each consumer's writes committed exactly once? | yes, if consumers that raise have written nothing |
| `live` (`OutboxDispatch`) | does every published row end? | yes, with one dispatcher, unless the database refuses a consumer's statement again and again |
| `interaction` (`ResponseStream`) | one executor, one outcome told once, an end, a whole stream; does the row implement `LeasedWork`? | yes, while heartbeats are in time and no agent is cancelled |
| `execution` (`WorkflowExecution`) | is the checkpoint honest, is an unsafe node entered once, is success complete, does a leased run settle; does the ledger implement `GraphProgress`? | yes, in the settings where nodes finish |
| `hang` (`WorkflowExecution`) | does a node of a streamed run with two slots finish? | no: it waits for the engine's lock on the row, and the engine for it |
| `approval` (`ApprovalResume`) | one decision, one call, execution only under its claim; does every request close? | yes; the last, unless members take the row and let it go for ever |
| `schedule` (`ScheduleFiring`) | is an occurrence fired once, none missed, each dealt with? | yes, for agents |
| `sync` (`KnowledgeSync`) | is a success in step with the remote, is nothing present retired, nothing ingested twice; does every run end? | yes |
| `ingest` (`KnowledgeIngest`) | do task, run, document and index agree, is a deleted document gone, does a task end? | yes, where attempts do not overlap, but for exactly what a lost retry or deletion leaves |
| `calls` (`ModelCalls`) | from the start of a period on, is a hard budget overshot only by what it could not see, is a call charged once, does an image run end? | yes |
| `overshoot` (`ModelCalls`) | do concurrent callers overshoot by one call at most? | no: by as many as read the spend before the first of them committed |

Bounds.

- `invocation`: three requests are a holder, a request that stalls with
  an old copy, and a third that takes over after either; `Lease = 1` and
  `MaxTime = 3` let two leases run out in turn, one before and one after the
  outbound boundary.
- `outbox`: two dispatchers and two rows are needed for one to hold what the
  other has listed, in either order; one crash (`MaxFaults`) and one repeat
  (`MaxRepeats`) for every way to lose or repeat a commit; `MaxAttempts = 2` for
  a row that is given up on after others succeeded. `live` has one dispatcher,
  two faults, and a row whose consumer may raise half-way or be refused by the
  database.
- `interaction`: two workers and three attempts, so that a reclaimed attempt is
  itself reclaimed; `MaxOverlap` bounds late heartbeats; two texts and a page of
  three events, so that a listing can be full; two reconnections.
- `execution`, `hang`: a diamond of four nodes with a conditional branch, one
  gated, one unsafe and two long outputs; three executions (run, redrive,
  resume), one crash, one retry, `on_error` in all three forms.
- `approval`: two members, two requests of one run, three executions, one fault.
- `schedule`: two workers, a member firing by hand and one editing; two periods
  and two occurrences, one firing lost, two touches.
- `sync`: one item is enough, since items share nothing but the listing's end;
  two workers in two processes, two contents, two attempts, two pieces of
  trouble.
- `ingest`: two workers, one retry, two pieces of trouble, so that a request may
  be lost and another follow it. Four claims are more than retries and trouble
  can cause one after the other; the bound is felt only where attempts run
  beside each other, which `IngestSettles` leaves out. `Overlong` is FALSE.
- `calls`: two runs in two processes, one of two chats or streams and one of an
  image, a budget of two with nothing spent, so that the first calls have no
  average to go by, the next ones have, and the third is the one too many; one
  piece of trouble. `overshoot` has three runs and one call left: one that fits,
  and two that read the spend before it was charged.

Fairness, each justified by a loop that polls for ever and swallows errors:
`live`: the next action of a tick happens (`run_loop`) and time passes.
`interaction`: workers claim and release, executions go on, leases run out, a
cancellation endpoint that began finishes, and the client asks again.
`execution`: an execution goes on and the reaper sweeps. `approval`: a member
who has locked a row decides or lets it go, sweepers, dispatcher and reaper run,
executions go on. `schedule`, `sync`, `ingest`: workers poll, a step in progress
goes on, a lease that nobody renews runs out. `calls`: calls go on, and the
reaper of image jobs sweeps; it must have been switched on
(`image_job_reaper_enabled` is off by default).
Nothing is assumed of publishing, crashes, purges, replays or members' other
requests. With several dispatchers whether one ever gets a row depends on how
the database queues those who wait, which is not the code's; `live` has one.

Deadlock is checked in `invocation`, `outbox`, `live`; the others switch it off
because the work they follow really ends.

### What the properties leave out, and why

Some properties name the circumstances in which the code keeps them. Each of
the following is a counterexample TLC finds when the circumstance is taken away
or the named definition is checked instead; those definitions are in the
modules, under "What the source says and the code does not do" or beside the
property they belong to.

Tool calls and outbox:

- *A node's second attempt.* A timeout cancels an attempt in flight;
  `CancelledError` passes the gateway's `except Exception`, the record stays
  running, and the next attempt has the same owner and sends the call again
  (`policy.py:471` calls durable agent calls at-most-once at this boundary).
- *Lost result.* `complete()` assigns the status before a storage put that may
  raise; a node's session commits it without the result, and the next attempt
  replays a success that returned nothing.
- *Reissue.* `fail()` compares the lease owner of a cached copy with itself: a
  stalled attempt reopens a call that another completed.
- *Wait race.* `_settle_run` reads the record and then moves the run
  (`invocation.py:606`): a refused resume can put the run back to waiting after
  another claimed its call.
- *Takeover, unopened approval.* A repeat called with `finish_run=False` takes
  over an expired claim and nobody closes the run; when `OpenApproval` fails
  only the run is failed and a repeat is told to wait (`invocation.py:414`).
- *Redrive, slot, poison.* The consumer of task retries commits in mid-tick, so
  a crash before the tick's own commit replays the task again
  (`tasks/service.py:160` says exactly once); a consumer that checkpoints first
  and then raises is never called again (`on_cost_recorded.py:111`); one whose
  statement aborts the transaction takes the attempt count with it and is tried
  for ever, where `OUTBOX_EVENT_MODEL.md:50` says that attempts are bounded: TLC
  refutes `EveryRowSettles` in the instance of `live`, and `SettlesOnceClean`
  assumes that it does not go on for ever.
- *Late replay.* With `OutliveRetention = TRUE`, a dead letter replayed after its
  checkpoints were purged is handled again by consumers that had handled it.
- *Uncounted attempt.* With two dispatchers one lists a row before the other's
  failure commits and later writes the count it listed plus one
  (`outbox_repo.py:214`).

Interactions and streams:

- *Cancelled agents* (`CanceledStaysCanceled`): the emitter's failure path writes
  a second terminal event over a cancellation. `CanceledStopsReading`: a chunk
  read after the cancellation still stores its text. `HeldIsRenewed`: a worker
  that reclaims a row it lost may renew it for the older attempt only.
- A cancellation between the commit that links an agent's response and its
  binding leaves a running row without a lease; clearing up after a worker lost
  between the two transactions that end a direct interaction leaves its run
  running (the exception in `RunFollowsResponse`); the cancel endpoint's two
  commits may be interleaved with a clear-up.
- *Full page.* The last listing asks for 1000 events after the old cursor, once
  the status was seen to have ended; with more than that pending the stream
  ends before the terminal event (`full` in `StreamIsWhole`). A cancellation
  with an open text commits the end first and its event later; a reader in
  between is done.

Workflows and approvals:

- `ReentrySafe`: under `on_error: continue` the resume of an approval enters an
  unsafe node again. `StagedRunSettles`: a run staged and queued whose process
  dies is nobody's. `fail_fast` and compensation leave nodes of their own
  sessions running. The executor never reads that its lease was lost and writes
  the row's last status blindly.
- `DecidedGoesOn`: a decision taken before the run waits finds nothing to
  continue, its event is done with, and the run waits for what it has.
  `CanceledStays`: `transition_run` gives the cached run its new status before
  the update compares, so the last write goes over a cancellation.
  `ClaimIsTakenUp`: the continuation is started by the savepoint's commit, may
  look for the claim before it is committed, and does nothing. A resume by hand
  takes no lease: the reaper does not see it when it crashes.

Schedules and knowledge:

- `WorkflowFiresOnce`: a workflow outlives the lease nobody renews and is fired
  again. Two updates at once leave an enabled schedule without a next firing;
  `next_fire_after` is not strictly later in the hour that autumn repeats.
- `CanceledRests`: a cancellation that read the run as queued is written over a
  claim and the run executes. `NewestIsRecorded`: after a crash between two
  versions the newest is not the one the item names. Both workers compare the
  lease's owner, never the attempt.
- `ResultStands`: a cancellation or a late retry overwrites another worker's
  success (`ingest_worker.py` says it must not). `RepeatNotAdditive`: every
  repeat adds the document's chunks again (`dead_letter_sources.py:216`).
  `OrphanFails`: a queued task whose run has succeeded and whose document is
  gone raises before its status is written, for ever (`runtime_service.py:906`).
  A document deleted while it is ingested keeps what the attempt adds later.
- *Requests lost half-way.* A deletion removes the vectors before its
  transaction (`runtime_service.py:1850`, the commits follow at 1870 and 1882):
  lost in between, or stopped by a stored file that cannot be removed, it leaves
  a document that is listed as indexed and cannot be found, until it is deleted
  again. A retry commits the document before run and task
  (`runtime_service.py:1068`, 1075): lost in between it leaves a document that
  waits and a task that failed, with its run or none, until a member tries the
  task again. `IngestAgrees` names both, and says that they leave nothing else.
- *Long documents.* A deletion lists 10000 chunks and removes these; the rest
  stays and can be found. With `Overlong = TRUE` TLC finds `DeletedIsGone`
  violated at the first deletion.
- Runs of a schedule by hand are left out of `FiresOnce`: a member who runs it
  beside a worker fires its target once more, as he meant to.

Model calls:

- `EndedRunsHoldNothing`: `after_flush` looks for runs the session changed, and
  `update_run_status` changes the row with a statement (`writer.py:466`), so the
  holds of calls without a cost wait for their time to live.
- The circumstances `WithinLimit` counts: calls admitted where no room was left,
  on a spend that has changed or before the first cost of a period; while Redis
  is away; whose hold ran out before they did (a hold lasts one timeout and a
  minute, retries and streams more); whose cost was rolled back and left to the
  reaper without a hold; or passed on by a virtual model after `check_unpriced`
  gave their hold back. The comment in `budgets.py` puts their number at about
  one; `OvershootByOne` states that and the run `overshoot` refutes it, with
  nothing but three calls at once. Those `ChargedOnce` names: costs lost with
  their session, calls on a step the reaper had failed, jobs reaped while alive.

`PROJECT.json` keeps two of these as findings. `hang`: the code's own comment
on nodes that run concurrently meets a lock that stops them. `overshoot`: a
comment says that checking and holding are one step, and the spend is read in
another.

## Proofs

`Calls_proofs`, first part, is about the ledger. `TypeCorrect` and
`SuccessWasServed` hold from the assumptions on the constants alone (a caller
reaches a success only through the server or a record that already says so,
`ServedInv`). Everything else is proved for `ServiceCallers`: lease owners
are distinct, nobody retries a failure, nobody commits after an exception. The
violations above show that the theorems do not hold without it. The run has
services only; for workflow nodes it is the theorem that says no success is
invented.

`AtMostOnce` is not inductive: a request past `RenewLease` may not have crossed
yet. `OneHolder` strengthens it. A request *holds* the call once its fenced
renewal succeeded, and for ever after it crossed. While the row says running,
its owner is the holder; from then on the row never returns to a status in
which `ClaimNew`, `ClaimApproved` or `ClaimExpired` could change the owner. The
writes that are not fenced (`mark_running`, `complete`, `fail` act on cached
copies) are harmless for another reason, which is the second half of the
invariant: the step agrees with the row, every one of those writers first moves
the step conditionally, and the step's cached status tells the stale writer
what its cached record does not. The lemmas follow that argument:
`StartingMove`, `EndingMove` and `FailingMove` say what a conditional update
reveals; `HandleEnds`, `AnswerEnds` and `RaiseEnds` reduce every way out of the
gateway to `Ends`, which leaves row and step alone or ends both alike.

Its second part is about the service. Its actions are those of the ledger or
leave it alone (the lemma `OnTheLedger`), so `AtMostOnce` holds of the
service (`KeySentOnce`). `OnlyApprovedHolds` needs `Approval`: only the decision
opens the way past waiting, it is made after the call was put up for it, and the
starter of a gated call never reaches the gateway. `RunTellsOutcomeHolds` needs
what the gateway leaves behind: an answer is the record's status, and a request
that ended leaves no claim of its own that could still be marked running
(`GatewayInv`). The run of a gated call then fails only when the call can no
longer succeed (`RunInv`): its record ended otherwise or is marked running for a
request that is over (`Lost`), or no approval of it was opened or will be
(`Undecidable`).

Its third part is about model calls, for any runs, processes and number of
calls. `ChargedOnceHolds` follows from `ChargeInv`, which says for one call
after the other where its cost is: not yet recorded, staged on the session of
its own run, committed, or left to the reaper. A cost that may still be written
was not paid before (`PaidOnce`); the step says what an image call asks for
until the cost is committed or its job was reaped (`NotedWhile`), which is what
keeps the reaper's charge and the job's apart; and what was served is charged,
about to be, or lost with its session (`PaidFor`). Spend, holds and the limit
play no part in it.

`WithinLimitHolds` is about those. Its invariant `HoldInv` says of a call that
counts (the budget could see it, and its cost is still to come) that its hold is
in Redis (`HeldWhileNeeded`): what a session settles are holds of its own calls
whose cost it has flushed or that are over, and a commit releases them with that
cost (`SessionHolds`). The calls the budget could see and that are charged or
may still be are the set `Taken`. It grows at one step only, an admission that
finds room for one more: the spend it had read was still the spend, and the
holds it counted fit beside it, or what is left by now is enough in any case. So
what was spent before plus the size of `Taken` stays within the amount. Whatever
a hard budget is overshot by is then the calls it could not see and second rows
for calls made once, of runs of late image jobs. For this the spend is counted
as the sizes of two sets of calls, those with a cost row and those with two: a
fold over a set would be an induction over data.

`OutboxDispatch_proofs` proves types, `DeliveryNotLost` and `CheckpointsVouch`
for any events, consumers and dispatchers, with commits in mid-tick, crashes and
replays, from `SlotsRaiseFirst`: no consumer raises between its own checkpoint
and its writes (the slot schedule above shows what happens otherwise). Neither
is inductive, for a row or a checkpoint becomes visible long after the consumer
ran. `Vouched` says where the promise is in the meantime: each staged
checkpoint, each held row that is done, each consumer a tick has passed and each
task it moved has either been committed or is in `acted` of the same
transaction. `AppliedOnceHolds` (a consumer's writes are committed at most once)
is for events without a retry consumer, from `~OutliveRetention` and
`WritersRaiseFirst` (a consumer that raises has written nothing; otherwise its
writes are committed with the retry and repeated by it). `Exclusive` is its
invariant: who works on such a row holds its lock, no other transaction can hold
it too, what it did for a row is checkpointed with it, and a row still to be
delivered keeps its checkpoints. `DeliveryQueueImplemented` is the refinement,
under both provisos, which together say that a consumer that raises has written
nothing at all. Only a commit moves the rows a tick works on. Every plain row it
writes was locked, and so still queued; what it adds for a consumer is a first
time, because of `Exclusive`; a row it finishes has been given to all, because
of `Vouched`; and `QueueInv` says that transactions write published rows and act
for registered consumers only. A claim that did not look at the row again would
take up the dead letter another dispatcher made since the batch was listed.

`InteractionWork_proofs` has four layers, each proved on top of the one before.
`InteractionInv` is the lease: an execution's worker is up, and with steady
heartbeats whoever executes is the last attempt and its row is neither queued
nor lapsed (`Alone`), which is what no claim and no release can break; it gives
`OneExecutor`, `ResponseFinal` and the fence (`SupersededStops`). `TameInv` adds
what the executor, the canceller and the one clearing up know of each other:
what is bound is what the execution works on, what a session has seen end ended
so; it gives `OutcomeAgrees`, which is not inductive because the row is written
on a copy. `WorkImplemented` maps every action to a step of `LeasedWork` or a
stutter. `LogInv` says, response by response, which events may still come
(`NoneToCome`), and gives `SingleTerminal`. A client only reads (the lemma
`FollowingReads`), so all of this holds while clients do. `StreamIsWholeHolds`
adds the reader: what it was told is the log up to its cursor because a log only
grows and a listing starts where the last one stopped (`FollowInv`); it learns
of the end because the row is written with the terminal event or after the
response was canceled (`EndIsTold`), and the last listing comes after the look
at the row, so it contains that event unless the page was full (`EndInv`).

`ApprovalResume_proofs`: the status of the workflow run separates who may be
where. `ResumeInv` adds to the properties that a staged claim is for a decided
request of a run that waits (`ClaimStaged`), that whoever enters the run holds
its claim (`HoldsClaim`), that an execution prepared for an approved request
still finds it approved (`VerdictStands`) and that a waiting step's call was
not made (`NotYetCalled`). `OneDecision`, `CalledOnce` and `RunsOnItsClaim`
follow; `DecisionStands` says that no later write changes a closed request.

`ScheduleFiring_proofs`: `FiresOnce` speaks of the past, so `Unfired` says what
is still to come: what the row or the one firing has yet to fire was fired only
by workers that were lost. It rests on `Exclusive`, that whoever fires an agent
holds a claim that has not lapsed. `NoneMissed` needs the same of what lies
before the occurrence being fired (`Passed`), and that on a schedule nobody
updated the copy is what the row says (`Untouched`).

`KnowledgeIngest_proofs` has two invariants. `DeleteInv`: every vector has the
id of a chunk row (`Traceable`), and from the deletion's first step nobody
works on the document and its copy of the ids is complete (`Removing`), which
is why the order in which the deletion removes the two matters; a copy is
complete only where one listing holds all chunks, so the theorem assumes
`~Overlong`. `AgreeInv`: as long as attempts follow one another the live one is
the task's and holds its lease (`Alone`), its run is running (`RunsOn`),
document, chunk and vector are as far as its place says, or a deletion took the
vector away (`Progress`, `Stayed`), what a finished task says holds until a
member has it tried again (`Outcome`), and a retry under way or lost half-way
finds the task failed (`Repeating`).

`WorkflowExecution_proofs` is about any acyclic graph and any number of
executions. Types are proved for every setting, the rest as follows.
`HonestHolds` is for one slot, the default: what an execution takes for
decided is committed or staged on the engine's session (`Tracked`), and that
session commits ledger and checkpoint together. With two slots nodes have
sessions of their own and a node left over by a failed execution could stage
what its memory skipped; TLC finds no such checkpoint in its instance.
`UnsafeOnceHolds` carries the same condition in the property. Its invariant says
that one execution is alive (`Lone`), that within it edges are settled once and
one node is under way (`Ordered`, `Alone`), and that every execution alive
knows of an unsafe node that was entered (`EnteredOnce`): it is in its memory,
or in the checkpoint it starts from, or the run has come to rest.
`SuccessIsCompleteHolds` is for one slot and `fail_fast`. A decided node has
handed on its edges or is about to (`HandsOn`), a node all of whose edges are
settled is ready, under way or decided (`GoesOn`); when nothing is left to do,
the set of undecided nodes would have to contain a node with no undecided
predecessor, because the graph is acyclic, and such a node has been reached
(`NothingLeft`). Under `compensate` an exception raised for an input that was
lost to the checkpoint's size limit is swallowed like any other, so the
argument fails there, and the run's instance is what speaks for it.
`GraphProgressImplemented` is the refinement of `GraphProgress`, for one slot
and `fail_fast` or `compensate`, which no step changes. A node is decided from
what the execution remembers, so the invariant `GrowthInv` says that three
things never disagree: what the ledger records, the memory of an execution
alive, and the checkpoint on the row, which the next execution starts from.
What the ledger has as a success the other two have too, what it has as skipped
has no edge they would take, and what it has as failed has none they would
refuse (`Fits`), even where the checkpoint lost an output to its size limit
(`MayHold`); active edges are those that are settled and taken (`Wired`); a
skipped node stays skipped, and everything before it is decided (`Closed`). A
commit adds to the ledger only what such a memory decided (`Grows`), and a
ledger that grows is a step of `GraphProgress` (`GrowthDecides`).

`KnowledgeSync_proofs` is about any items, workers and number of runs. Its first
invariant needs no condition: what the remote held all along was listed or is
still to come while the listing goes on, and is not among what is to be retired
afterwards (`Kept`), which gives `RemovedWasGone` even for two workers on one
run. The other two properties speak of runs whose lease was kept
(`overlaps = 0`). `SoleInv` says what that means: one run is active, one worker
is awake, and it works on copies that are still the rows (`Abreast`), so the
commit that writes only differing columns writes what it means to; a row's
document is stored, has the row's content and got its task (`Ingested`).
`IngestedOnce` does not follow by itself, for a version exists two commits
before the row names it. `NewestKnown` closes the gap: as long as no process is
lost the newest version that is there and got its task is the recorded one, or
is in the hand of the worker about to record it. `InStep` needs to know how far
a run has come: `Calm` says of every item that it is still to be listed, in
hand, or `Settled`; a failure anywhere settles the rest, because the result is
no longer a success.

Three assumptions on the constants were added for these proofs: there are
finitely many runs that make model calls (`RunsAssumption`, the calls are
counted), and two of the compiler's and the engine's own: graphs are acyclic
(`compiler.py:52` refuses others), and gated nodes are not among those that must
not be repeated, for approvals exist only for node types backed by the tool
ledger (`resume.py:29`).

Every invariant and every action property of the passing runs, and every
refinement, is the statement of a theorem. Model-checked only is liveness, which
is out of the prover's reach, like ENABLED: `SettlesOnceClean`,
`EveryInteractionEnds`, `RunningSettles`, `RequestsClose`, `DueSettles`,
`EveryRunEnds`, `IngestSettles`, `ImageRunsEnd`, and `NodesFinish` in the run
that violates it. So are the cases the theorems'
hypotheses leave out and the instances contain, two slots and `compensate` in
`execution`. No module here declares a RECURSIVE operator.

## Not modelled

Of the modelled components: two first requests of one key that race (the
second fails on the unique key), callers that claim outside the gateway before
it claims again, workspaces that keep no content, calls without a ledger
record; calls of consumers to external systems; several approvals of one node;
the second task that retrying a document creates, the rebuilding of an index;
creating and editing knowledge sources; rate limits, quotas, API key totals,
embeddings and several budgets at once. A worker that runs several ingest tasks
at a time shares one lease owner among them, which the model does not show.

Whole components left out are rows that one request creates, changes and
deletes (configuration modules, billing records), process-local counters
(virtual models), and code without state of its own. Most of the repository's
lines are of that kind: schemas, routers, repositories, adapters, seeds and
migrations hold nothing that several steps could get wrong together.

## What could follow

- The modules of the knowledge workers and the workflow reaper could be shown to
  implement `LeasedWork` too, where attempts follow one another; today their
  own properties say what the lease is for.
- Two slots in `WorkflowExecution`: the checkpoint is honest in the run's
  instance, and the invariant that would prove it has to follow what nodes left
  over by a failed execution may still stage.
- The consumer of task retries, whose commits in mid-tick `DeliveryQueue` leaves
  out; what it promises is less than exactly once, as shown above.
