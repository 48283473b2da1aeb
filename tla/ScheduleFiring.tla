--------------------------- MODULE ScheduleFiring ---------------------------
(***************************************************************************)
(* One schedule and the workers that fire it: wiring/schedule_worker.py,   *)
(* kernel/runtime/schedules/service.py and the claim of                    *)
(* kernel/runtime/common/lease.py.                                         *)
(*                                                                         *)
(* A worker claims the row when it is due, starts the target and writes    *)
(* the next firing, each in a transaction of its own, from the copy of the *)
(* row it claimed: expire_on_commit is off and nobody renews the lease.    *)
(* An agent is only queued; a workflow runs to its end before the worker   *)
(* goes on.  A member who runs the schedule by hand takes the same path    *)
(* without a claim.  Members update and delete it with requests of their   *)
(* own, each of which reads the row and later writes what it changed.      *)
(*                                                                         *)
(* Abstracted: a cron expression is a period and fires at its multiples;   *)
(* time zones, inputs, what the target does.  An expression is parsed when *)
(* it is saved, so that _advance, on CronError, leaves no next firing of   *)
(* one that no longer parses does not arise.                               *)
(***************************************************************************)
EXTENDS Naturals

CONSTANTS
    Workers, Member,        \* who fires: workers, and a member by hand
    Nobody, Never,
    Periods,                \* the cron expressions
    Horizon,                \* bound on the time, and so on the occurrences
    MaxFaults,              \* bound on the firings lost
    Editors,                \* who updates the schedule
    MaxTouches              \* bound on the updates and the runs by hand

Firer == Workers \cup {Member}
Time == 0..Horizon

ASSUME ScheduleAssumption ==
    /\ Workers # {} /\ Member \notin Workers /\ Nobody \notin Firer
    /\ Periods # {} /\ Periods \subseteq Nat \ {0}
    /\ Horizon \in Nat \ {0}
    /\ MaxFaults \in Nat /\ MaxTouches \in Nat
    /\ Never \notin Nat

VARIABLES
    target,     \* Schedule.target_kind
    now,
    present,    \* whether the row is there
    config,     \* .enabled, .cron, .catch_up
    next,       \* .next_fire_at
    claim,      \* .status, .lease_owner, and whether .lease_expires_at has passed
    firing,     \* where each firing is, with the row it read and the moment it did
    fired,      \* for each occurrence, how often its target was started
    settled,    \* the occurrences that were started, or failed on the row
    edit,       \* the row as the request of each editor read it
    faults, updates, manual

row == <<present, config, next, claim>>
count == <<faults, updates, manual>>
vars == <<target, now, row, firing, fired, settled, edit, count>>

-----------------------------------------------------------------------------
(* next_fire_after: the first firing strictly after t. *)
NextFire(period, t) == (t \div period + 1) * period

Config == [enabled : BOOLEAN, cron : Periods, catchUp : BOOLEAN]

Free == [status |-> "queued", owner |-> Nobody, lapsed |-> FALSE]

Idle == [at |-> "idle"]

Init ==
    /\ target \in {"agent", "workflow"}
    /\ now = 0
    /\ config \in {c \in Config : c.enabled}
    /\ next = NextFire(config.cron, 0)
    /\ present = TRUE /\ claim = Free
    /\ firing = [f \in Firer |-> Idle] /\ edit = [m \in Editors |-> Idle]
    /\ fired = [t \in 1..Horizon |-> 0] /\ settled = {}
    /\ faults = 0 /\ updates = 0 /\ manual = 0

Tick ==
    /\ now + 1 \in Time
    /\ now' = now + 1
    /\ UNCHANGED <<target, row, firing, fired, settled, edit, count>>

(* Time passes the expiry of a lease.  To queue an agent is one commit,    *)
(* which ends within the lease; a workflow that was started takes as long  *)
(* as it takes.                                                            *)
Lapse ==
    /\ claim.status = "running"
    /\ \/ firing[claim.owner] = Idle
       \/ target = "workflow" /\ firing[claim.owner].at = "started"
    /\ claim' = [claim EXCEPT !.lapsed = TRUE]
    /\ UNCHANGED <<target, now, present, config, next, firing, fired, settled, edit, count>>

-----------------------------------------------------------------------------
(* A worker computes the next firing from the row it claimed, a member     *)
(* only gives the claim back that it read.                                 *)
Begin(f) ==
    firing' = [firing EXCEPT ![f] =
        IF f = Member THEN [at |-> "begun", held |-> claim.status = "running"]
        ELSE [at |-> "begun", held |-> TRUE, moment |-> now,
              next |-> next, cron |-> config.cron, catchUp |-> config.catchUp]]

(* Mutant: a row whose worker was lost is nobody's to claim. *)
Claimable_Queued == claim.status = "queued"

(* Mutant: a claim is taken over whether or not its lease ran out. *)
Claimable_Early == TRUE

(* claim_next: a free row, or one whose lease ran out. *)
Claimable == claim.status = "queued" \/ claim.lapsed

(* _claim_due: an enabled row that is due. *)
ClaimDue(w) ==
    /\ firing[w] = Idle
    /\ present /\ Claimable
    /\ config.enabled /\ next # Never /\ next <= now
    /\ claim' = [status |-> "running", owner |-> w, lapsed |-> FALSE]
    /\ Begin(w)
    /\ UNCHANGED <<target, now, present, config, next, fired, settled, edit, count>>

(* POST /schedules/{id}/run: the row as it is, claimed or not. *)
RunNow ==
    /\ firing[Member] = Idle /\ present /\ updates + manual < MaxTouches
    /\ UNCHANGED row
    /\ Begin(Member)
    /\ manual' = manual + 1
    /\ UNCHANGED <<target, now, fired, settled, edit, faults, updates>>

Past(f) == firing' = [firing EXCEPT ![f].at = "started"]

(* The interaction is queued, or the run of the workflow is created. *)
StartTarget(f) ==
    /\ firing[f].at = "begun" /\ Past(f)
    /\ IF f = Member THEN UNCHANGED <<fired, settled>>
       ELSE /\ fired' = [fired EXCEPT ![firing[f].next] = @ + 1]
            /\ settled' = settled \cup {firing[f].next}
    /\ UNCHANGED <<target, now, row, edit, count>>

(* The target is gone or does not compile: recorded on the row. *)
StartFails(f) ==
    /\ firing[f].at = "begun" /\ Past(f)
    /\ settled' = IF f = Member THEN settled ELSE settled \cup {firing[f].next}
    /\ UNCHANGED <<target, now, row, fired, edit, count>>

(* Mutant: the next occurrence follows the moment, catch-up or not. *)
Advance_FromNow(w) == NextFire(firing[w].cron, firing[w].moment)

(* _advance: from the occurrence just fired where missed ones are caught   *)
(* up, else from the moment of the firing.                                 *)
Advance(w) ==
    NextFire(firing[w].cron,
             IF firing[w].catchUp THEN firing[w].next ELSE firing[w].moment)

(* The end of fire_schedule: what the copy says differently is written,    *)
(* whatever the row holds by now.  Of a row that is gone there is nothing  *)
(* to write, and the firing ends with an error.                            *)
Finish(f) ==
    /\ firing[f].at = "started"
    /\ firing' = [firing EXCEPT ![f] = Idle]
    /\ IF present
       THEN /\ next' = IF f = Member \/ Advance(f) = firing[f].next THEN next ELSE Advance(f)
            /\ claim' = IF firing[f].held THEN Free ELSE claim
       ELSE UNCHANGED <<next, claim>>
    /\ UNCHANGED <<target, now, present, config, fired, settled, edit, count>>

(* The process dies, or a database error breaks the session in which the   *)
(* firing would be recorded: the claim stays until its lease runs out.     *)
Break(f) ==
    /\ firing[f] # Idle /\ faults < MaxFaults
    /\ firing' = [firing EXCEPT ![f] = Idle]
    /\ faults' = faults + 1
    /\ UNCHANGED <<target, now, row, fired, settled, edit, updates, manual>>

(* ScheduleService.update reads the row... *)
UpdateReads(m) ==
    /\ present /\ edit[m] = Idle /\ updates + manual < MaxTouches
    /\ edit' = [edit EXCEPT ![m] = [config |-> config, next |-> next]]
    /\ updates' = updates + 1
    /\ UNCHANGED <<target, now, row, firing, fired, settled, faults, manual>>

(* ... and writes the attributes it changed, and the next firing, computed *)
(* anew from now and from its own copy.                                    *)
UpdateWrites(m) ==
    /\ edit[m] # Idle
    /\ \E c \in Config :
        LET after == IF c.enabled THEN NextFire(c.cron, now) ELSE Never
            copy == edit[m].config
        IN IF present
           THEN /\ config' = [k \in DOMAIN c |-> IF c[k] = copy[k] THEN config[k] ELSE c[k]]
                /\ next' = IF after = edit[m].next THEN next ELSE after
           ELSE UNCHANGED <<config, next>>
    /\ edit' = [edit EXCEPT ![m] = Idle]
    /\ UNCHANGED <<target, now, present, claim, firing, fired, settled, count>>

(* ScheduleService.delete: claimed or not. *)
Delete ==
    /\ present /\ updates + manual < MaxTouches
    /\ present' = FALSE
    /\ updates' = updates + 1
    /\ UNCHANGED <<target, now, config, next, claim, firing, fired, settled, edit, faults, manual>>

-----------------------------------------------------------------------------
Fire(f) == StartTarget(f) \/ StartFails(f) \/ Finish(f)

Next ==
    \/ Tick \/ Lapse \/ RunNow \/ Delete
    \/ \E m \in Editors : UpdateReads(m) \/ UpdateWrites(m)
    \/ \E w \in Workers : ClaimDue(w)
    \/ \E f \in Firer : Fire(f) \/ Break(f)

(* Workers poll, a firing goes on until it ends, leases run out. *)
Fairness ==
    /\ WF_vars(Lapse)
    /\ \A w \in Workers : WF_vars(ClaimDue(w))
    /\ \A f \in Firer : WF_vars(Fire(f))

Spec == Init /\ [][Next]_vars
FairSpec == Spec /\ Fairness

-----------------------------------------------------------------------------
(* What each variable holds. *)
TypeOK ==
    /\ target \in {"agent", "workflow"}
    /\ now \in Time /\ present \in BOOLEAN /\ config \in Config
    /\ \A m \in Editors : edit[m] = Idle \/ edit[m] \in [config : Config, next : Nat \cup {Never}]
    /\ next \in Nat \cup {Never}
    /\ claim \in [status : {"queued", "running"}, owner : Workers \cup {Nobody}, lapsed : BOOLEAN]
    /\ \A f \in Firer : firing[f] = Idle \/
            /\ firing[f].at \in {"begun", "started"} /\ firing[f].held \in BOOLEAN
            /\ f # Member => /\ firing[f].next \in Nat \cup {Never} /\ firing[f].moment \in Time
                             /\ firing[f].cron \in Periods /\ firing[f].catchUp \in BOOLEAN
    /\ fired \in [1..Horizon -> Nat] /\ settled \subseteq 1..Horizon
    /\ faults \in 0..MaxFaults /\ updates + manual \in 0..MaxTouches

(* "Exactly one of them must fire each occurrence": an agent, on a         *)
(* schedule nobody runs by hand, is fired once for an occurrence, and once *)
(* more only for a worker that was lost, whatever is updated meanwhile.    *)
FiresOnce ==
    target = "agent" /\ manual = 0 =>
        \A t \in 1..Horizon : fired[t] <= 1 + faults

(* With catch-up a missed occurrence runs late rather than never: whatever *)
(* was lost, overlapped or run by hand, the schedule has moved past an     *)
(* occurrence only if its target was started or its failure recorded.      *)
NoneMissed ==
    config.catchUp /\ updates = 0 =>
        \A t \in 1..Horizon : t % config.cron = 0 /\ t < next => t \in settled

(* A due occurrence is dealt with, however many workers were lost on it. *)
DueSettles ==
    \A t \in 1..Horizon :
        (present /\ config.enabled /\ next = t /\ t <= now)
            ~> (next # t \/ ~present \/ ~config.enabled)

(* Every occurrence is fired by one worker, also where its target is a     *)
(* workflow and takes longer than the lease.                               *)
WorkflowFiresOnce ==
    manual = 0 /\ updates = 0 => \A t \in 1..Horizon : fired[t] <= 1 + faults
=============================================================================
