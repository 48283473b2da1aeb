------------------------------ MODULE ModelCalls ------------------------------
(***************************************************************************)
(* Calls to models, what they cost and what they hold.                     *)
(*                                                                         *)
(* LLMPolicyGateway takes a call through admission, its step, the provider *)
(* and the ledger on the session of the run that makes it.  BudgetGuard    *)
(* reads what has been spent and holds the budget for the call;            *)
(* SessionHolds keeps the hold on the session until a cost is committed    *)
(* there; RedisBudgetReservations keeps it where every process sees it, or *)
(* in the process when Redis is away.  An image call writes on its step    *)
(* what it asks for, so that the reaper can charge it when the process     *)
(* that made it is lost.                                                   *)
(*                                                                         *)
(* One budget with a hard stop applies to every call, and every call costs *)
(* one unit: the average call, the estimate and the cost are the same, and *)
(* the capacity of a hold is what is left of the amount.  A call is        *)
(* <<r, k>>, the k-th of run r; a run makes its calls one after the other. *)
(***************************************************************************)
EXTENDS Integers, Sequences, FiniteSets, SequencesExt

CONSTANTS
  Runs,         \* runs, each with a session of its own
  Processes,    \* API replicas and workers
  Home,         \* [Runs -> Processes]
  Mixes,        \* what the runs make: functions from Runs to Kinds
  Amount,       \* of the budget, in calls
  SpentBefore,  \* calls charged in the period before the runs start
  MaxCalls,     \* bound: calls of a run (an image run makes one)
  MaxTrouble    \* bound: losses, failures, cancellations and late holds

Kinds == {"chat", "stream", "image"}

ASSUME RunsAssumption == IsFiniteSet(Runs)

ASSUME CallAssumption ==
  /\ Home \in [Runs -> Processes]
  /\ Mixes \subseteq [Runs -> Kinds]
  /\ Amount \in Nat /\ SpentBefore \in Nat /\ SpentBefore <= Amount
  /\ MaxCalls \in Nat \ {0} /\ MaxTrouble \in Nat

Calls == Runs \X (1..MaxCalls)
Tokens == Calls \X {"redis", "local"}
Unbounded == -1

VARIABLES
  kind,       \* what each run makes
  ended,      \* runs whose row is in a terminal status
  phase,      \* where each run is with its current call
  call,       \* how many calls each run has begun
  room,       \* the capacity computed from the spend read, until the hold is taken
  staged,     \* costs flushed on the session of each run, not committed
  noted,      \* image calls whose running step says what they ask for
  charges,    \* committed cost rows of each call
  pending,    \* SessionHolds.pending of each session
  settled,    \* SessionHolds.settled of each session
  redis,      \* calls with a live member in the sorted set
  local,      \* calls with a live hold in their process
  releasing,  \* holds whose release is a task not run yet
  redisUp,    \* whether Redis can be reached
  answered,   \* history: calls the provider has served
  tainted,    \* history: calls the budget could not see, or saw too late
  forgiven,   \* history: calls whose charge was lost with their session, or whose
              \* step was failed before it said what they ask for
  late,       \* history: image runs reaped while their job was alive
  trouble     \* events of trouble so far

ledgerVars == <<staged, noted, charges>>
holdVars == <<pending, settled, redis, local, releasing>>
historyVars == <<answered, tainted, forgiven, late>>
callVars == <<kind, ended, phase, call, room, ledgerVars, holdVars, redisUp, historyVars, trouble>>

Phases == {"idle", "checked", "admitted", "open", "asked", "flowing", "answered",
           "closing", "over", "gone"}

CallTypeOK ==
  /\ kind \in Mixes
  /\ ended \subseteq Runs
  /\ phase \in [Runs -> Phases]
  /\ call \in [Runs -> 0..MaxCalls]
  /\ room \in [Runs -> {Unbounded} \cup 0..Amount]
  /\ staged \in [Runs -> SUBSET Calls]
  /\ noted \subseteq Calls
  /\ charges \in [Calls -> 0..2]
  /\ pending \in [Runs -> Seq(Tokens)]
  /\ settled \in [Runs -> SUBSET Tokens]
  /\ redis \subseteq Calls /\ local \subseteq Calls
  /\ releasing \subseteq Tokens
  /\ redisUp \in BOOLEAN
  /\ answered \subseteq Calls /\ tainted \subseteq Calls /\ forgiven \subseteq Calls
  /\ late \subseteq Runs
  /\ trouble \in 0..MaxTrouble

CallInit ==
  /\ kind \in Mixes
  /\ ended = {}
  /\ phase = [r \in Runs |-> "idle"]
  /\ call = [r \in Runs |-> 0]
  /\ room = [r \in Runs |-> Unbounded]
  /\ staged = [r \in Runs |-> {}]
  /\ noted = {}
  /\ charges = [c \in Calls |-> 0]
  /\ pending = [r \in Runs |-> << >>]
  /\ settled = [r \in Runs |-> {}]
  /\ redis = {} /\ local = {} /\ releasing = {}
  /\ redisUp = TRUE
  /\ answered = {} /\ tainted = {} /\ forgiven = {} /\ late = {}
  /\ trouble = 0

Current(r) == <<r, call[r]>>
Limit(r) == IF kind[r] = "image" THEN 1 ELSE MaxCalls
Trouble == trouble < MaxTrouble /\ trouble' = trouble + 1

-----------------------------------------------------------------------------
(* The ledger and the holds of a session *)

\* Calls with n cost rows or more: two at most, the job's and the reaper's.
Charged(n) == {c \in Calls : charges[c] >= n}

\* Every row costs one unit.
Spent == SpentBefore + Cardinality(Charged(1)) + Cardinality(Charged(2))

\* A session reads what it has flushed itself next to what is committed.
SpendSeenBy(r) == Spent + Cardinality(staged[r])

\* After the first call of a period the average is one; before it there is none.
HoldCapacity(spent) == IF spent = 0 THEN Unbounded ELSE Amount - spent

\* Mutant: the call asking is not counted.
Full_OthersOnly(capacity, held) == capacity # Unbounded /\ held > capacity

Full(capacity, held) == capacity # Unbounded /\ held >= capacity

\* The oldest waiting hold of the run, if any, is settled by a cost of the run.
Settled(r) == IF pending[r] = << >> THEN settled[r] ELSE settled[r] \cup {Head(pending[r])}
Waiting(r) == IF pending[r] = << >> THEN << >> ELSE Tail(pending[r])

\* A cost row of call c is flushed on the session: its oldest hold is settled.
RecordCost(r, c) ==
  /\ staged' = [staged EXCEPT ![r] = @ \cup {c}]
  /\ pending' = [pending EXCEPT ![r] = Waiting(r)]
  /\ settled' = [settled EXCEPT ![r] = Settled(r)]

\* What a session has flushed is readable, and what it had settled is released.
Commit(r, flushed, holds) ==
  /\ charges' = [c \in Calls |-> charges[c] + (IF c \in flushed THEN 1 ELSE 0)]
  /\ staged' = [staged EXCEPT ![r] = {}]
  /\ settled' = [settled EXCEPT ![r] = {}]
  /\ releasing' = releasing \cup holds

\* What nothing can charge any more once the session has rolled back.
Forfeits(r) ==
  (staged[r] \cup (IF phase[r] \in {"asked", "answered", "flowing"}
                     THEN {Current(r)} ELSE {})) \ noted

\* The session drops what it flushed and gives the settled holds back, that of
\* an image call the reaper is to charge among them.
Rollback(r) ==
  /\ forgiven' = forgiven \cup Forfeits(r)
  /\ tainted' = tainted \cup (staged[r] \cap noted)
  /\ staged' = [staged EXCEPT ![r] = {}]
  /\ settled' = [settled EXCEPT ![r] = {}]
  /\ releasing' = releasing \cup settled[r]

-----------------------------------------------------------------------------
(* Admission: BudgetGuard.check *)

Begins(r) == phase[r] = "idle" /\ call[r] < Limit(r)

\* The spend is read; a budget already spent refuses the call.
CheckRefused(r) ==
  /\ Begins(r)
  /\ SpendSeenBy(r) >= Amount
  /\ call' = [call EXCEPT ![r] = @ + 1]
  /\ UNCHANGED <<kind, ended, phase, room, ledgerVars, holdVars, redisUp, historyVars, trouble>>

Check(r) ==
  /\ Begins(r)
  /\ SpendSeenBy(r) < Amount
  /\ call' = [call EXCEPT ![r] = @ + 1]
  /\ room' = [room EXCEPT ![r] = HoldCapacity(SpendSeenBy(r))]
  /\ phase' = [phase EXCEPT ![r] = "checked"]
  /\ UNCHANGED <<kind, ended, ledgerVars, holdVars, redisUp, historyVars, trouble>>

\* The hold is taken where it may be, and waits on the session.
Hold(r, where) ==
  /\ pending' = [pending EXCEPT ![r] = Append(@, <<Current(r), where>>)]
  /\ phase' = [phase EXCEPT ![r] = "admitted"]

HeldHere(r) == {c \in local : Home[c[1]] = Home[r]}

\* A capacity that is not what is left of the amount, or none.
Misread(r) == room[r] = Unbounded \/ room[r] # Amount - SpendSeenBy(r)

\* What is spent and held by now leaves no room for a call.
NoRoomLeft(r) == SpendSeenBy(r) + Cardinality(redis) >= Amount

\* The script purges, counts and adds in one step; the spend it counts against
\* is the one read before.
Acquire(r) ==
  /\ phase[r] = "checked" /\ redisUp
  /\ room' = [room EXCEPT ![r] = Unbounded]
  /\ IF Full(room[r], Cardinality(redis))
       THEN /\ phase' = [phase EXCEPT ![r] = "idle"]
            /\ UNCHANGED <<pending, redis, tainted>>
       ELSE /\ Hold(r, "redis")
            /\ redis' = redis \cup {Current(r)}
            /\ tainted' = IF Misread(r) /\ NoRoomLeft(r)
                            THEN tainted \cup {Current(r)} ELSE tainted
  /\ UNCHANGED <<kind, ended, call, ledgerVars, settled, local, releasing, redisUp, answered,
                 forgiven, late, trouble>>

\* Redis does not answer: the hold is kept in the process, also when the
\* script ran and only its reply was lost.
AcquireLocally(r) ==
  /\ phase[r] = "checked"
  /\ room' = [room EXCEPT ![r] = Unbounded]
  /\ \/ ~redisUp /\ UNCHANGED <<redis, trouble>>
     \/ /\ redisUp /\ Trouble
        /\ redis' = IF Full(room[r], Cardinality(redis)) THEN redis ELSE redis \cup {Current(r)}
  /\ IF Full(room[r], Cardinality(HeldHere(r)))
       THEN /\ phase' = [phase EXCEPT ![r] = "idle"]
            /\ UNCHANGED <<pending, local, tainted>>
       ELSE /\ Hold(r, "local")
            /\ local' = local \cup {Current(r)}
            /\ tainted' = tainted \cup {Current(r)}
  /\ UNCHANGED <<kind, ended, call, ledgerVars, settled, releasing, redisUp, answered, forgiven,
                 late>>

-----------------------------------------------------------------------------
(* The call *)

\* create_step and release_before_wait: the step is committed as running, and
\* with it what the calls before have flushed.
OpenStep(r) ==
  /\ phase[r] = "admitted"
  /\ Commit(r, staged[r], settled[r])
  /\ phase' = [phase EXCEPT ![r] = "open"]
  /\ UNCHANGED <<kind, ended, call, room, noted, pending, redis, local, redisUp, historyVars,
                 trouble>>

\* The end of a call that records no cost.
CallFails(r) == phase' = [phase EXCEPT ![r] = IF kind[r] = "image" THEN "closing" ELSE "idle"]

\* A target without a price is refused and the last hold taken given back; a
\* virtual model may go on to its next target, the others fail.
RefuseUnpriced(r) ==
  /\ phase[r] = "open"
  /\ IF pending[r] = << >>
       THEN UNCHANGED <<pending, releasing>>
       ELSE /\ releasing' = releasing \cup {Last(pending[r])}
            /\ pending' = [pending EXCEPT ![r] = Front(@)]
  /\ \/ CallFails(r) /\ UNCHANGED tainted
     \/ /\ pending[r] # << >>
        /\ tainted' = tainted \cup {Current(r)}
        /\ UNCHANGED phase
  /\ UNCHANGED <<kind, ended, call, room, ledgerVars, settled, redis, local, redisUp, answered,
                 forgiven, late, trouble>>

\* A prompt that is blocked, a route that does not resolve.
FailBeforeAsking(r) ==
  /\ phase[r] = "open"
  /\ CallFails(r)
  /\ UNCHANGED <<kind, ended, call, room, ledgerVars, holdVars, redisUp, historyVars, trouble>>

Ask(r) ==
  /\ phase[r] = "open" /\ kind[r] # "image"
  /\ phase' = [phase EXCEPT ![r] = "asked"]
  /\ UNCHANGED <<kind, ended, call, room, ledgerVars, holdVars, redisUp, historyVars, trouble>>

\* _note_image_call commits what the call asks for before the provider is asked.
\* On a step the reaper has failed the note is of no use: a repeat of the status
\* the session has cached, it is not refused, and nobody reads it.
AskForImages(r) ==
  /\ phase[r] = "open" /\ kind[r] = "image"
  /\ IF r \in ended
       THEN forgiven' = forgiven \cup {Current(r)} /\ UNCHANGED noted
       ELSE noted' = noted \cup {Current(r)} /\ UNCHANGED forgiven
  /\ phase' = [phase EXCEPT ![r] = "asked"]
  /\ UNCHANGED <<kind, ended, call, room, staged, charges, holdVars, redisUp, answered, tainted,
                 late, trouble>>

\* The provider answers, whole, or with the first chunk of a stream.
ProviderAnswers(r) ==
  /\ phase[r] = "asked"
  /\ answered' = answered \cup {Current(r)}
  /\ phase' = [phase EXCEPT ![r] = IF kind[r] = "stream" THEN "flowing" ELSE "answered"]
  /\ UNCHANGED <<kind, ended, call, room, ledgerVars, holdVars, redisUp, tainted, forgiven, late,
                 trouble>>

\* No answer: retries and targets are used up.  A stream abandoned before its
\* first chunk ends the same way.  The end of the step waits for the caller's commit.
ProviderFails(r) ==
  /\ phase[r] = "asked"
  /\ CallFails(r)
  /\ UNCHANGED <<kind, ended, call, room, ledgerVars, holdVars, redisUp, historyVars, trouble>>

\* An image call times out: the provider may still bill it, so it is charged.
ImageTimesOut(r) ==
  /\ phase[r] = "asked" /\ kind[r] = "image"
  /\ RecordCost(r, Current(r))
  /\ CallFails(r)
  /\ UNCHANGED <<kind, ended, call, room, noted, charges, redis, local, releasing, redisUp,
                 historyVars, trouble>>

\* A whole answer is recorded, the answer SOIT refuses too; the caller commits.
RecordChat(r) ==
  /\ phase[r] = "answered" /\ kind[r] = "chat"
  /\ RecordCost(r, Current(r))
  /\ phase' = [phase EXCEPT ![r] = "idle"]
  /\ UNCHANGED <<kind, ended, call, room, noted, charges, redis, local, releasing, redisUp,
                 historyVars, trouble>>

\* Images are recorded with the end of their step, which the reaper may have
\* ended: the conditional update then raises before the cost is written.
RecordImages(r) ==
  /\ phase[r] = "answered" /\ kind[r] = "image"
  /\ IF Current(r) \in noted
       THEN RecordCost(r, Current(r))
       ELSE UNCHANGED <<staged, pending, settled>>
  /\ phase' = [phase EXCEPT ![r] = "closing"]
  /\ UNCHANGED <<kind, ended, call, room, noted, charges, redis, local, releasing, redisUp,
                 historyVars, trouble>>

\* However a stream ends, finished, broken or abandoned, settle writes its cost
\* and commits it itself.
SettleStream(r) ==
  /\ phase[r] = "flowing"
  /\ pending' = [pending EXCEPT ![r] = Waiting(r)]
  /\ Commit(r, staged[r] \cup {Current(r)}, Settled(r))
  /\ phase' = [phase EXCEPT ![r] = "idle"]
  /\ UNCHANGED <<kind, ended, call, room, noted, redis, local, redisUp, historyVars, trouble>>

-----------------------------------------------------------------------------
(* The end of a run *)

\* The run gets its last status and the session commits.  Only a caller that
\* assigns the status before the flush, as the workflow engine does, lets
\* after_flush see the run and settle what it still holds; update_run_status
\* updates the row and leaves the run clean.
EndRun(r, seen) ==
  /\ phase[r] \in {"idle", "closing"} /\ call[r] > 0
  /\ kind[r] = "image" => ~seen
  /\ phase' = [phase EXCEPT ![r] = "over"]
  /\ ended' = ended \cup {r}
  /\ Commit(r, staged[r], IF seen THEN settled[r] \cup ToSet(pending[r]) ELSE settled[r])
  /\ pending' = IF seen THEN [pending EXCEPT ![r] = << >>] ELSE pending
  /\ noted' = noted \ {Current(r)}
  /\ UNCHANGED <<kind, call, room, redis, local, redisUp, historyVars, trouble>>

-----------------------------------------------------------------------------
(* Trouble *)

\* The caller rolls its work back between calls: its commit failed, or its lease
\* is lost.
CallerRollsBack(r) ==
  /\ phase[r] = "idle" /\ staged[r] # {}
  /\ Trouble
  /\ Rollback(r)
  /\ UNCHANGED <<kind, ended, phase, call, room, noted, charges, pending, redis, local, redisUp,
                 answered, late>>

\* The flush of a chat's cost fails, or a stream is collected without being
\* closed: its cost is lost, and the transaction with it.
LoseCost(r) ==
  /\ \/ phase[r] = "answered" /\ kind[r] = "chat"
     \/ phase[r] = "flowing"
  /\ Trouble
  /\ Rollback(r)
  /\ phase' = [phase EXCEPT ![r] = "idle"]
  /\ UNCHANGED <<kind, ended, call, room, noted, charges, pending, redis, local, redisUp,
                 answered, late>>

\* The flush of an image's cost fails where the caller waits for the answer:
\* close_run rolls back and closes the run all the same, and with a run that is
\* closed the reaper has nothing to do.  (Nothing else is on that session.)
LoseImageCost(r) ==
  /\ phase[r] = "answered" /\ kind[r] = "image" /\ Current(r) \in noted
  /\ Trouble
  /\ forgiven' = forgiven \cup {Current(r)}
  /\ noted' = noted \ {Current(r)}
  /\ phase' = [phase EXCEPT ![r] = "over"]
  /\ ended' = ended \cup {r}
  /\ UNCHANGED <<kind, call, room, staged, charges, holdVars, redisUp, answered, tainted, late>>

Busy(r) == phase[r] \notin {"over", "gone"}

\* The task is cancelled during the wait: nothing of the call is recorded, and
\* the session is rolled back and closed.  (A stream is closed: SettleStream.)
Cancel(r) ==
  /\ phase[r] \in {"asked", "answered", "closing"} /\ kind[r] # "stream"
  /\ Trouble
  /\ Rollback(r)
  /\ phase' = [phase EXCEPT ![r] = "gone"]
  /\ UNCHANGED <<kind, ended, call, room, noted, charges, pending, redis, local, redisUp,
                 answered, late>>

\* A process is lost: its sessions, the holds it kept itself and the releases
\* it had not run.
Crash(p) ==
  LET lost == {r \in Runs : Home[r] = p /\ Busy(r)}
      kept(tokens) == {t \in tokens : Home[t[1][1]] # p}
  IN
  /\ lost # {}
  /\ Trouble
  /\ phase' = [r \in Runs |-> IF r \in lost THEN "gone" ELSE phase[r]]
  /\ staged' = [r \in Runs |-> IF r \in lost THEN {} ELSE staged[r]]
  /\ pending' = [r \in Runs |-> IF Home[r] = p THEN << >> ELSE pending[r]]
  /\ settled' = [r \in Runs |-> IF Home[r] = p THEN {} ELSE settled[r]]
  /\ local' = {c \in local : Home[c[1]] # p}
  /\ releasing' = kept(releasing)
  /\ forgiven' = forgiven \cup UNION {Forfeits(r) : r \in lost}
  /\ UNCHANGED <<kind, ended, call, room, noted, charges, redis, redisUp, answered, tainted, late>>

RedisChanges ==
  /\ \/ redisUp /\ Trouble
     \/ ~redisUp /\ UNCHANGED trouble
  /\ redisUp' = ~redisUp
  /\ UNCHANGED <<kind, ended, phase, call, room, ledgerVars, holdVars, historyVars>>

\* A release task runs; in Redis it may fail, and the hold then expires.
Release(t) ==
  /\ t \in releasing
  /\ releasing' = releasing \ {t}
  /\ \/ t[2] = "redis" /\ redisUp /\ redis' = redis \ {t[1]} /\ UNCHANGED local
     \/ t[2] = "redis" /\ ~redisUp /\ UNCHANGED <<redis, local>>
     \/ t[2] = "local" /\ local' = local \ {t[1]} /\ UNCHANGED redis
  /\ UNCHANGED <<kind, ended, phase, call, room, ledgerVars, pending, settled, redisUp, historyVars,
                 trouble>>

\* Calls that may still be charged.
Owed == noted \cup (UNION {staged[r] : r \in Runs})
        \cup {Current(r) : r \in {q \in Runs : phase[q] \in {"admitted", "open", "asked", "flowing",
                                                          "answered"}}}

\* A hold reaches its time to live: one timeout and a minute.  The retries of a
\* call, a long stream and a caller that is slow to commit outlast it; an image
\* call, asked once, does not, but waits longer for the reaper.
Expire(c, where) ==
  LET r == c[1] IN
  /\ c \in (IF where = "redis" THEN redis ELSE local)
  /\ \/ c \notin Owed /\ UNCHANGED <<trouble, tainted>>
     \/ c \in Owed /\ phase[r] = "gone" /\ tainted' = tainted \cup {c} /\ UNCHANGED trouble
     \/ /\ c \in Owed /\ phase[r] \in {"idle", "asked", "flowing", "closing"}
        /\ kind[r] = "image" => phase[r] # "asked"
        /\ Trouble
        /\ tainted' = tainted \cup {c}
  /\ IF where = "redis"
       THEN redis' = redis \ {c} /\ UNCHANGED local
       ELSE local' = local \ {c} /\ UNCHANGED redis
  /\ UNCHANGED <<kind, ended, phase, call, room, ledgerVars, pending, settled, releasing, redisUp,
                 answered, forgiven, late>>

-----------------------------------------------------------------------------
(* The image job reaper *)

\* Mutant: the run is failed and its call forgotten.
FailLost_Uncharged(r) ==
  /\ kind[r] = "image" /\ r \notin ended
  /\ ended' = ended \cup {r}
  /\ noted' = noted \ {Current(r)}
  /\ UNCHANGED <<kind, phase, call, room, staged, charges, holdVars, redisUp, answered, tainted,
                 forgiven>>

\* The run and its step are failed, and the call left in flight charged unless
\* it has been.
FailLost(r) ==
  LET c == Current(r) IN
  /\ kind[r] = "image" /\ r \notin ended
  /\ ended' = ended \cup {r}
  /\ noted' = noted \ {c}
  /\ charges' = IF c \in noted /\ charges[c] = 0 THEN [charges EXCEPT ![c] = 1] ELSE charges
  /\ UNCHANGED <<kind, phase, call, room, staged, holdVars, redisUp, answered, tainted, forgiven>>

\* Mutant: only runs with a call in flight are looked for.
Reap_InFlight(r) ==
  /\ phase[r] = "gone" /\ Current(r) \in noted
  /\ FailLost(r)
  /\ UNCHANGED <<late, trouble>>

\* An open image run nobody has marked alive was lost with its process.
Reap(r) ==
  /\ phase[r] = "gone"
  /\ FailLost(r)
  /\ UNCHANGED <<late, trouble>>

\* The beats of a job failed for as long as it takes to count as lost, while its
\* step is open.  (Once it has written, its locks keep the reaper off.)
ReapAlive(r) ==
  /\ phase[r] \in {"open", "asked", "answered"}
  /\ Trouble
  /\ FailLost(r)
  /\ late' = late \cup {r}

-----------------------------------------------------------------------------
Step(r) ==
  \/ CheckRefused(r) \/ Check(r) \/ Acquire(r) \/ AcquireLocally(r)
  \/ OpenStep(r) \/ RefuseUnpriced(r) \/ FailBeforeAsking(r) \/ Ask(r) \/ AskForImages(r)
  \/ ProviderAnswers(r) \/ ProviderFails(r) \/ ImageTimesOut(r)
  \/ RecordChat(r) \/ RecordImages(r) \/ SettleStream(r)
  \/ \E seen \in BOOLEAN : EndRun(r, seen)

CallNext ==
  \/ \E r \in Runs : \/ Step(r) \/ CallerRollsBack(r) \/ LoseCost(r) \/ LoseImageCost(r)
                     \/ Cancel(r) \/ Reap(r) \/ ReapAlive(r)
  \/ \E p \in Processes : Crash(p)
  \/ RedisChanges
  \/ \E t \in Tokens : Release(t)
  \/ \E c \in Calls, where \in {"redis", "local"} : Expire(c, where)

\* Calls go on and end; the reaper sweeps for ever.  Nothing else must happen.
CallFairness == \A r \in Runs : WF_callVars(Step(r)) /\ WF_callVars(Reap(r))

CallSpec == CallInit /\ [][CallNext]_callVars /\ CallFairness

-----------------------------------------------------------------------------
(* Properties *)

\* The limit is overshot by no more than the calls the budget could not see:
\* admitted where no room was left, on a spend that had changed or before any
\* call of the period had a cost; or outside Redis; passed over by a virtual
\* model; or still to be charged when their hold ran out or was given back; and
\* by what a reaped job charges again.
WithinLimit == Spent <= Amount + Cardinality(tainted) + Cardinality(late)

\* budgets.py: "concurrent callers overshoot a limit by about one call at most".
OvershootByOne == Spent <= Amount + 1

\* A call is charged once: never twice, but by a job that outlives its reaping,
\* and, once its run has gone on, whatever became of the answer, not less, unless
\* its session lost it or its job was reaped before it noted the call.
ChargedOnce ==
  /\ \A c \in Calls : charges[c] <= 1 \/ c[1] \in late
  /\ \A c \in answered \ (Owed \cup forgiven) : charges[c] >= 1

\* An image run comes to its end, whatever happens to the process that runs it.
ImageRunsEnd == <>[](\A r \in Runs : kind[r] = "image" => r \in ended)

\* budget_holds.py: "When a run ends, the holds its calls still keep are settled too".
EndedRunsHoldNothing == \A r \in Runs : phase[r] = "over" => pending[r] = << >>
=============================================================================
