------------------------ MODULE ScheduleFiring_proofs ------------------------
(***************************************************************************)
(* Proofs about the firing of schedules: an occurrence is fired once by    *)
(* the workers, and with catch-up none is passed over.                     *)
(***************************************************************************)
EXTENDS ScheduleFiring, Integers, TLAPS

(***************************************************************************)
(* Occurrences.                                                            *)
(***************************************************************************)

LEMMA Division ==
    ASSUME NEW p \in Nat \ {0}, NEW t \in Nat
    PROVE  \E q \in Nat : t \div p = q /\ q * p <= t /\ t < (q + 1) * p
<1>1. t \div p \in Nat
  OBVIOUS
<1>2. ASSUME NEW q \in Int, t \div p = q PROVE q * p <= t /\ t < (q + 1) * p
  BY <1>2, SMT
<1>. QED BY <1>1, <1>2

LEMMA Multiple ==
    ASSUME NEW p \in Nat \ {0}, NEW t \in Nat, t % p = 0
    PROVE  \E k \in Int : t = k * p
BY SMT

(* The next firing is after the moment it is computed from, and nothing is *)
(* due in between.                                                         *)
LEMMA NextFireIsNext ==
    ASSUME NEW p \in Nat \ {0}, NEW t \in Nat
    PROVE  /\ NextFire(p, t) \in Nat /\ NextFire(p, t) > t
           /\ \A u \in Nat : u % p = 0 /\ u < NextFire(p, t) => u <= t
<1>1. PICK q \in Nat : t \div p = q /\ q * p <= t /\ t < (q + 1) * p
  BY Division
<1>2. NextFire(p, t) = (q + 1) * p /\ (q + 1) * p \in Nat
  BY <1>1 DEF NextFire
<1>3. ASSUME NEW u \in Nat, u % p = 0, u < (q + 1) * p PROVE u <= t
  <2>1. PICK k \in Int : u = k * p
    BY <1>3, Multiple
  <2>2. k < q + 1
    BY <1>3, <2>1
  <2>3. k * p <= q * p
    BY <2>2
  <2>. QED BY <1>1, <2>1, <2>3
<1>. QED BY <1>1, <1>2, <1>3

(***************************************************************************)
(* The strengthening.                                                      *)
(***************************************************************************)

WorkerFiring == [at : {"begun", "started"}, held : {TRUE}, moment : Time,
                 next : 1..Horizon, cron : Periods, catchUp : BOOLEAN]
MemberFiring == [at : {"begun", "started"}, held : BOOLEAN]

(* A worker fires an occurrence that was due when it read the row. *)
FiringType ==
    /\ firing \in [Firer -> {Idle} \cup MemberFiring \cup WorkerFiring]
    /\ firing[Member] \in {Idle} \cup MemberFiring
    /\ \A w \in Workers : firing[w] # Idle =>
            firing[w] \in WorkerFiring /\ firing[w].next <= firing[w].moment /\ firing[w].next <= now
    /\ edit \in [Editors -> {Idle} \cup [config : Config, next : Nat \cup {Never}]]

(* A claimed row has an owner, and the first occurrence is a later one than 0. *)
RowType ==
    /\ claim.status = "running" => claim.owner \in Workers
    /\ next # 0
    /\ updates \in Nat /\ manual \in Nat

(* Who fires an agent holds the claim, and its lease has not run out. *)
Exclusive ==
    target = "agent" /\ manual = 0 =>
        /\ firing[Member] = Idle
        /\ \A w \in Workers : firing[w] # Idle =>
                claim.status = "running" /\ claim.owner = w /\ ~claim.lapsed

(* Nothing is fired before its time, and what the row or the one firing    *)
(* has still to fire was fired only by workers that were lost.             *)
Unfired ==
    target = "agent" /\ manual = 0 =>
        /\ \A t \in 1..Horizon : t > now => fired[t] = 0
        /\ present /\ next # Never /\ (\A w \in Workers : firing[w] = Idle) =>
                \A t \in 1..Horizon : t >= next => fired[t] <= faults
        /\ \A w \in Workers : firing[w] # Idle =>
                /\ \A t \in 1..Horizon : t > firing[w].next => fired[t] <= faults
                /\ firing[w].at = "begun" => fired[firing[w].next] <= faults

(* On a schedule that nobody changed, whoever fires read what the row still says. *)
Untouched ==
    updates = 0 =>
        /\ present /\ next \in Nat
        /\ \A m \in Editors : edit[m] = Idle
        /\ \A w \in Workers : firing[w] # Idle =>
                firing[w].cron = config.cron /\ firing[w].catchUp = config.catchUp

(* With catch-up, all that lies before the occurrence being fired is       *)
(* settled, and the occurrence itself once its target is past.             *)
Passed ==
    config.catchUp /\ updates = 0 =>
        \A w \in Workers : firing[w] # Idle =>
            /\ \A t \in 1..Horizon : t % config.cron = 0 /\ t < firing[w].next => t \in settled
            /\ firing[w].at = "started" => firing[w].next \in settled

ScheduleInv ==
    /\ TypeOK /\ FiringType /\ RowType
    /\ Exclusive /\ Unfired /\ FiresOnce
    /\ Untouched /\ Passed /\ NoneMissed

-----------------------------------------------------------------------------
LEMMA InitInv == Init => ScheduleInv
<1>. SUFFICES ASSUME Init PROVE ScheduleInv
  OBVIOUS
<1>. USE ScheduleAssumption DEF Init
<1>1. config \in Config /\ config.cron \in Nat \ {0} /\ config.cron \in Periods
  BY DEF Config
<1>2. /\ next \in Nat /\ next > 0
      /\ \A u \in Nat : u % config.cron = 0 /\ u < next => u <= 0
  BY <1>1, NextFireIsNext
<1>3. \A f \in Firer : firing[f] = Idle
  OBVIOUS
<1>4. \A w \in Workers : w \in Firer
  BY DEF Firer
<1>5. Member \in Firer
  BY DEF Firer
<1>6. TypeOK
  BY <1>1, <1>2, <1>3 DEF TypeOK, Free, Time
<1>7. FiringType
  BY <1>3, <1>4, <1>5 DEF FiringType
<1>r. RowType
  BY <1>2 DEF RowType, Free
<1>8. Exclusive /\ Unfired /\ FiresOnce
  BY <1>3, <1>4, <1>5 DEF Exclusive, Unfired, FiresOnce
<1>9. Untouched /\ Passed /\ NoneMissed
  BY <1>2, <1>3, <1>4 DEF Untouched, Passed, NoneMissed
<1>. QED BY <1>6, <1>7, <1>r, <1>8, <1>9 DEF ScheduleInv

-----------------------------------------------------------------------------
(* Type correctness. *)

(* What a worker's firing holds. *)
LEMMA WorkerFields ==
    ASSUME NEW x \in WorkerFiring
    PROVE  /\ x.at \in {"begun", "started"} /\ x.held = TRUE
           /\ x.moment \in Time /\ x.moment \in Nat
           /\ x.next \in 1..Horizon /\ x.next \in Nat /\ x.next # 0
           /\ x.cron \in Periods /\ x.cron \in Nat \ {0} /\ x.catchUp \in BOOLEAN
           /\ x # Idle
<1>1. /\ x.at \in {"begun", "started"} /\ x.held = TRUE /\ x.moment \in Time
      /\ x.next \in 1..Horizon /\ x.cron \in Periods /\ x.catchUp \in BOOLEAN
  BY DEF WorkerFiring
<1>2. x # Idle
  BY <1>1 DEF Idle
<1>3. /\ \A t \in Time : t \in Nat
      /\ \A p \in Periods : p \in Nat \ {0}
  BY ScheduleAssumption DEF Time
<1>4. x.next \in Nat /\ x.next # 0
  <2>. DEFINE n == x.next
  <2>1. n \in 1..Horizon
    BY <1>1
  <2>. HIDE DEF n
  <2>2. n \in Nat /\ n # 0
    BY <2>1, ScheduleAssumption
  <2>. QED BY <2>2 DEF n
<1>. QED BY <1>1, <1>2, <1>3, <1>4

(* The firings, when a step changes one of them. *)
LEMMA FiringMoves ==
    ASSUME FiringType, NEW f \in Firer, NEW x, firing' = [firing EXCEPT ![f] = x]
    PROVE  \A g \in Firer : firing'[g] = IF g = f THEN x ELSE firing[g]
BY DEF FiringType

LEMMA FiringStep ==
    ASSUME FiringType, now \in Time, now' \in Time, now <= now', UNCHANGED edit,
           NEW f \in Firer, NEW x, firing' = [firing EXCEPT ![f] = x],
           f = Member => x \in {Idle} \cup MemberFiring,
           f # Member => \/ x = Idle
                         \/ x \in WorkerFiring /\ x.next <= x.moment /\ x.next <= now
    PROVE  FiringType'
<1>. USE ScheduleAssumption
<1>1. \A g \in Firer : firing'[g] = IF g = f THEN x ELSE firing[g]
  BY FiringMoves
<1>2. x \in {Idle} \cup MemberFiring \cup WorkerFiring
  OBVIOUS
<1>3. firing' \in [Firer -> {Idle} \cup MemberFiring \cup WorkerFiring]
  BY <1>2 DEF FiringType
<1>4. firing'[Member] \in {Idle} \cup MemberFiring
  BY <1>1 DEF FiringType, Firer
<1>5. ASSUME NEW w \in Workers, firing'[w] # Idle
      PROVE  /\ firing'[w] \in WorkerFiring
             /\ firing'[w].next <= firing'[w].moment /\ firing'[w].next <= now'
  <2>1. w \in Firer /\ w # Member
    BY DEF Firer
  <2>2. /\ firing'[w] \in WorkerFiring
        /\ firing'[w].next <= firing'[w].moment /\ firing'[w].next <= now
    BY <1>1, <1>5, <2>1 DEF FiringType
  <2>3. firing'[w].next \in Nat
    BY <2>2, WorkerFields
  <2>4. now \in Nat /\ now' \in Nat
    BY DEF Time
  <2>. HIDE DEF Idle
  <2>. QED BY <2>2, <2>3, <2>4
<1>6. edit' \in [Editors -> {Idle} \cup [config : Config, next : Nat \cup {Never}]]
  BY DEF FiringType
<1>. QED BY <1>3, <1>4, <1>5, <1>6 DEF FiringType

(* A firing that goes past its target is what it was, further on. *)
LEMMA PastForms ==
    ASSUME FiringType, NEW f \in Firer, firing[f].at = "begun", Past(f)
    PROVE  LET x == [firing[f] EXCEPT !.at = "started"] IN
           /\ firing[f] # Idle
           /\ firing' = [firing EXCEPT ![f] = x]
           /\ f = Member => x \in MemberFiring
           /\ f # Member => /\ x \in WorkerFiring /\ x.at = "started" /\ x.next = firing[f].next
                            /\ x.moment = firing[f].moment
                            /\ x.cron = firing[f].cron /\ x.catchUp = firing[f].catchUp
<1>1. firing[f] # Idle
  BY DEF Idle
<1>2. f = Member => firing[f] \in MemberFiring
  BY <1>1 DEF FiringType
<1>3. f # Member => firing[f] \in WorkerFiring
  BY <1>1 DEF FiringType, Firer
<1>4. firing' = [firing EXCEPT ![f] = [firing[f] EXCEPT !.at = "started"]]
  BY DEF Past
<1>. QED BY <1>1, <1>2, <1>3, <1>4 DEF MemberFiring, WorkerFiring

(* What of the types a step that starts or ends no firing has to keep. *)
LEMMA FiringKept ==
    ASSUME FiringType, now \in Time, now' \in Time, now <= now', UNCHANGED <<firing, edit>>
    PROVE  FiringType'
<1>1. ASSUME NEW w \in Workers, firing[w] # Idle PROVE firing[w].next <= now'
  <2>1. firing[w].next \in Nat /\ firing[w].next <= now
    BY <1>1, WorkerFields DEF FiringType
  <2>. QED BY ScheduleAssumption, <2>1 DEF Time
<1>. QED BY <1>1 DEF FiringType

(* The types of the variables that no firing is in. *)
RestType ==
    /\ target \in {"agent", "workflow"}
    /\ now \in Time /\ present \in BOOLEAN /\ config \in Config
    /\ next \in Nat \cup {Never}
    /\ claim \in [status : {"queued", "running"}, owner : Workers \cup {Nobody}, lapsed : BOOLEAN]
    /\ fired \in [1..Horizon -> Nat] /\ settled \subseteq 1..Horizon
    /\ faults \in 0..MaxFaults /\ updates + manual \in 0..MaxTouches

LEMMA TypeParts == ASSUME FiringType', RestType' PROVE TypeOK'
<1>. USE ScheduleAssumption
<1>1. ASSUME NEW m \in Editors
      PROVE  edit'[m] = Idle \/ edit'[m] \in [config : Config, next : Nat \cup {Never}]
  BY DEF FiringType
<1>2. ASSUME NEW f \in Firer, firing'[f] # Idle
      PROVE  /\ firing'[f].at \in {"begun", "started"} /\ firing'[f].held \in BOOLEAN
             /\ f # Member => /\ firing'[f].next \in Nat \cup {Never} /\ firing'[f].moment \in Time
                              /\ firing'[f].cron \in Periods /\ firing'[f].catchUp \in BOOLEAN
  <2>1. CASE f = Member
    BY <1>2, <2>1 DEF FiringType, MemberFiring
  <2>2. CASE f # Member
    <3>1. firing'[f] \in WorkerFiring
      BY <1>2, <2>2 DEF FiringType, Firer
    <3>. QED BY <2>2, <3>1, WorkerFields
  <2>. QED BY <2>1, <2>2
<1>. QED BY <1>1, <1>2 DEF TypeOK, RestType

LEMMA TypeStep == ScheduleInv /\ [Next]_vars => TypeOK' /\ FiringType' /\ RowType'
<1>. SUFFICES ASSUME TypeOK, FiringType, RowType, [Next]_vars
              PROVE  TypeOK' /\ FiringType' /\ RowType'
  BY DEF ScheduleInv
<1>. USE ScheduleAssumption
<1>f. Member \in Firer /\ \A w \in Workers : w \in Firer /\ w # Member
  BY DEF Firer
<1>n. now \in Time /\ now \in Nat /\ now <= now
  BY DEF TypeOK, Time
<1>1. CASE Tick
  <2>1. now' \in Time /\ now <= now'
    BY <1>1, <1>n DEF Tick
  <2>2. FiringType'
    BY <1>1, <1>n, <2>1, FiringKept DEF Tick
  <2>3. RestType' /\ RowType'
    BY <1>1, <2>1 DEF Tick, TypeOK, RestType, RowType, row, count
  <2>. QED BY <2>2, <2>3, TypeParts
<1>2. CASE Lapse
  <2>1. FiringType'
    BY <1>2, <1>n, FiringKept DEF Lapse
  <2>2. RestType' /\ RowType'
    BY <1>2 DEF Lapse, TypeOK, RestType, RowType, count
  <2>. QED BY <2>1, <2>2, TypeParts
<1>3. CASE RunNow
  <2>1. FiringType'
    <3>. DEFINE x == [at |-> "begun", held |-> claim.status = "running"]
    <3>1. x \in MemberFiring
      BY DEF MemberFiring
    <3>2. firing' = [firing EXCEPT ![Member] = x]
      BY <1>3 DEF RunNow, Begin
    <3>3. UNCHANGED edit /\ now' = now
      BY <1>3 DEF RunNow
    <3>. HIDE DEF x
    <3>. QED BY <1>f, <1>n, <3>1, <3>2, <3>3, FiringStep
  <2>2. RestType' /\ RowType'
    BY <1>3 DEF RunNow, TypeOK, RestType, RowType, row
  <2>. QED BY <2>1, <2>2, TypeParts
<1>4. CASE Delete
  <2>1. FiringType'
    BY <1>4, <1>n, FiringKept DEF Delete
  <2>2. RestType' /\ RowType'
    <3>0. present' \in BOOLEAN
      BY <1>4 DEF Delete
    <3>1. updates' \in Nat /\ manual' = manual /\ updates' + manual' \in 0..MaxTouches
      BY <1>4 DEF Delete, TypeOK, RowType
    <3>2. UNCHANGED <<target, now, config, next, claim, fired, settled, faults>>
      BY <1>4 DEF Delete
    <3>. QED BY <3>0, <3>1, <3>2 DEF TypeOK, RestType, RowType
  <2>. QED BY <2>1, <2>2, TypeParts
<1>5. ASSUME NEW m \in Editors, UpdateReads(m)
      PROVE  TypeOK' /\ FiringType' /\ RowType'
  <2>1. [config |-> config, next |-> next] \in [config : Config, next : Nat \cup {Never}]
    BY DEF TypeOK
  <2>2. edit' \in [Editors -> {Idle} \cup [config : Config, next : Nat \cup {Never}]]
    BY <1>5, <2>1 DEF UpdateReads, FiringType
  <2>3. FiringType'
    BY <1>5, <2>2 DEF UpdateReads, FiringType
  <2>4. RestType' /\ RowType'
    BY <1>5 DEF UpdateReads, TypeOK, RestType, RowType, row
  <2>. QED BY <2>3, <2>4, TypeParts
<1>6. ASSUME NEW m \in Editors, UpdateWrites(m)
      PROVE  TypeOK' /\ FiringType' /\ RowType'
  <2>1. edit' \in [Editors -> {Idle} \cup [config : Config, next : Nat \cup {Never}]]
    BY <1>6 DEF UpdateWrites, FiringType
  <2>2. FiringType'
    BY <1>6, <2>1 DEF UpdateWrites, FiringType
  <2>3. UNCHANGED <<target, now, present, claim, fired, settled, count>>
    BY <1>6 DEF UpdateWrites
  <2>4. config' \in Config /\ next' \in Nat \cup {Never} /\ next' # 0
    <3>1. CASE ~present
      BY <1>6, <3>1 DEF UpdateWrites, TypeOK, RowType
    <3>2. CASE present
      <4>1. PICK c \in Config :
                /\ config' = [k \in DOMAIN c |-> IF c[k] = edit[m].config[k] THEN config[k] ELSE c[k]]
                /\ \/ next' = next
                   \/ next' = IF c.enabled THEN NextFire(c.cron, now) ELSE Never
        BY <1>6, <3>2 DEF UpdateWrites
      <4>2. config' \in Config
        BY <4>1 DEF TypeOK, Config
      <4>3. c.cron \in Nat \ {0}
        BY DEF Config
      <4>4. NextFire(c.cron, now) \in Nat /\ NextFire(c.cron, now) > now
        BY <1>n, <4>3, NextFireIsNext
      <4>5. next' \in Nat \cup {Never} /\ next' # 0
        BY <1>n, <4>1, <4>4 DEF TypeOK, RowType
      <4>. QED BY <4>2, <4>5
    <3>. QED BY <3>1, <3>2 DEF TypeOK
  <2>5. RestType' /\ RowType'
    BY <2>3, <2>4 DEF TypeOK, RestType, RowType, count
  <2>. QED BY <2>2, <2>5, TypeParts
<1>7. ASSUME NEW w \in Workers, ClaimDue(w)
      PROVE  TypeOK' /\ FiringType' /\ RowType'
  <2>. DEFINE x == [at |-> "begun", held |-> TRUE, moment |-> now,
                    next |-> next, cron |-> config.cron, catchUp |-> config.catchUp]
  <2>1. next \in 1..Horizon /\ next <= now
    BY <1>7 DEF ClaimDue, TypeOK, RowType, Time
  <2>2. x \in WorkerFiring /\ x.next <= x.moment /\ x.next <= now
    BY <2>1 DEF WorkerFiring, TypeOK, Config
  <2>3. firing' = [firing EXCEPT ![w] = x]
    BY <1>7, <1>f DEF ClaimDue, Begin
  <2>4. UNCHANGED edit /\ now' = now
    BY <1>7 DEF ClaimDue
  <2>5. FiringType'
    <3>. HIDE DEF x
    <3>. QED BY <1>f, <1>n, <2>2, <2>3, <2>4, FiringStep
  <2>6. RestType' /\ RowType'
    BY <1>7 DEF ClaimDue, TypeOK, RestType, RowType, count
  <2>. QED BY <2>5, <2>6, TypeParts
<1>8. ASSUME NEW f \in Firer, StartTarget(f) \/ StartFails(f)
      PROVE  TypeOK' /\ FiringType' /\ RowType'
  <2>. DEFINE x == [firing[f] EXCEPT !.at = "started"]
  <2>1. firing[f].at = "begun" /\ Past(f) /\ UNCHANGED <<target, now, row, edit, count>>
    BY <1>8 DEF StartTarget, StartFails
  <2>2. /\ firing[f] # Idle
        /\ firing' = [firing EXCEPT ![f] = x]
        /\ f = Member => x \in MemberFiring
        /\ f # Member => x \in WorkerFiring /\ x.next = firing[f].next /\ x.moment = firing[f].moment
    BY <2>1, PastForms
  <2>3. f # Member => /\ firing[f].next <= firing[f].moment /\ firing[f].next <= now
                      /\ firing[f].next \in 1..Horizon
    BY <2>2, WorkerFields DEF FiringType, Firer
  <2>4. FiringType'
    <3>. HIDE DEF x
    <3>. QED BY <1>n, <2>1, <2>2, <2>3, FiringStep
  <2>5. fired' \in [1..Horizon -> Nat] /\ settled' \subseteq 1..Horizon
    <3>1. \/ f # Member /\ fired' = [fired EXCEPT ![firing[f].next] = @ + 1]
          \/ fired' = fired
      <4>1. CASE StartTarget(f)
        BY <4>1 DEF StartTarget
      <4>2. CASE StartFails(f)
        BY <4>2 DEF StartFails
      <4>. QED BY <1>8, <4>1, <4>2
    <3>2. \/ f # Member /\ settled' = settled \cup {firing[f].next}
          \/ settled' = settled
      <4>1. CASE StartTarget(f)
        BY <4>1 DEF StartTarget
      <4>2. CASE StartFails(f)
        BY <4>2 DEF StartFails
      <4>. QED BY <1>8, <4>1, <4>2
    <3>3. fired' \in [1..Horizon -> Nat]
      <4>1. fired \in [1..Horizon -> Nat] /\ \A t \in 1..Horizon : fired[t] + 1 \in Nat
        BY DEF TypeOK
      <4>. QED BY <2>3, <3>1, <4>1
    <3>4. settled' \subseteq 1..Horizon
      BY <2>3, <3>2 DEF TypeOK
    <3>. QED BY <3>3, <3>4
  <2>6. RestType' /\ RowType'
    BY <2>1, <2>5 DEF TypeOK, RestType, RowType, row, count
  <2>. QED BY <2>4, <2>6, TypeParts
<1>9. ASSUME NEW f \in Firer, Finish(f)
      PROVE  TypeOK' /\ FiringType' /\ RowType'
  <2>1. UNCHANGED <<target, now, present, config, fired, settled, edit, count>>
    BY <1>9 DEF Finish
  <2>2. FiringType'
    <3>1. firing' = [firing EXCEPT ![f] = Idle]
      BY <1>9 DEF Finish
    <3>. HIDE DEF Idle
    <3>. QED BY <1>n, <2>1, <3>1, FiringStep
  <2>3. next' = next \/ (f # Member /\ next' = Advance(f))
    <3>1. CASE present
      BY <1>9, <3>1 DEF Finish
    <3>2. CASE ~present
      BY <1>9, <3>2 DEF Finish
    <3>. QED BY <3>1, <3>2 DEF TypeOK
  <2>4. f # Member => Advance(f) \in Nat /\ Advance(f) # 0
    <3>1. CASE f # Member
      <4>1. firing[f] \in WorkerFiring
        BY <1>9, <3>1 DEF Finish, FiringType, Firer, Idle
      <4>2. /\ firing[f].cron \in Nat \ {0}
            /\ firing[f].next \in Nat /\ firing[f].moment \in Nat
        BY <4>1, WorkerFields
      <4>3. \A t \in Nat : NextFire(firing[f].cron, t) \in Nat /\ NextFire(firing[f].cron, t) > t
        BY <4>2, NextFireIsNext
      <4>. QED BY <4>2, <4>3 DEF Advance
    <3>. QED BY <3>1
  <2>5. claim' = claim \/ claim' = Free
    BY <1>9 DEF Finish
  <2>6. RestType' /\ RowType'
    <3>1. next' \in Nat \cup {Never} /\ next' # 0
      BY <2>3, <2>4 DEF TypeOK, RowType
    <3>2. /\ claim' \in [status : {"queued", "running"}, owner : Workers \cup {Nobody}, lapsed : BOOLEAN]
          /\ claim'.status = "running" => claim'.owner \in Workers
      <4>1. /\ Free \in [status : {"queued", "running"}, owner : Workers \cup {Nobody}, lapsed : BOOLEAN]
            /\ Free.status # "running"
        BY DEF Free
      <4>. HIDE DEF Free
      <4>. QED BY <2>5, <4>1 DEF TypeOK, RowType
    <3>. QED BY <2>1, <3>1, <3>2 DEF TypeOK, RestType, RowType, count
  <2>. QED BY <2>2, <2>6, TypeParts
<1>10. ASSUME NEW f \in Firer, Break(f)
       PROVE  TypeOK' /\ FiringType' /\ RowType'
  <2>1. UNCHANGED <<target, now, row, fired, settled, edit, updates, manual>>
    BY <1>10 DEF Break
  <2>2. FiringType'
    <3>1. firing' = [firing EXCEPT ![f] = Idle]
      BY <1>10 DEF Break
    <3>. HIDE DEF Idle
    <3>. QED BY <1>n, <2>1, <3>1, FiringStep
  <2>3. faults' \in 0..MaxFaults
    BY <1>10 DEF Break, TypeOK
  <2>4. RestType' /\ RowType'
    BY <2>1, <2>3 DEF TypeOK, RestType, RowType, row
  <2>. QED BY <2>2, <2>4, TypeParts
<1>11. CASE UNCHANGED vars
  BY <1>11 DEF vars, row, count, TypeOK, FiringType, RowType
<1>. QED BY <1>1, <1>2, <1>3, <1>4, <1>5, <1>6, <1>7, <1>8, <1>9, <1>10, <1>11 DEF Next, Fire

(***************************************************************************)
(* An agent is fired once.                                                 *)
(***************************************************************************)

(* The next firing is after the one that ends. *)
LEMMA AdvanceIsLater ==
    ASSUME FiringType, NEW w \in Workers, firing[w] # Idle
    PROVE  Advance(w) \in Nat /\ Advance(w) > firing[w].next
<1>. DEFINE x == firing[w]
<1>1. x \in WorkerFiring /\ x.next <= x.moment
  BY DEF FiringType
<1>. HIDE DEF x
<1>2. x.cron \in Nat \ {0} /\ x.next \in Nat /\ x.moment \in Nat
  BY <1>1, WorkerFields
<1>3. \A t \in Nat : NextFire(x.cron, t) \in Nat /\ NextFire(x.cron, t) > t
  BY <1>2, NextFireIsNext
<1>4. Advance(w) = NextFire(x.cron, IF x.catchUp THEN x.next ELSE x.moment)
  BY DEF Advance, x
<1>5. Advance(w) \in Nat /\ Advance(w) > x.next
  BY <1>1, <1>2, <1>3, <1>4
<1>. QED BY <1>5 DEF x

LEMMA TargetKept == [Next]_vars => target' = target
<1>1. Tick \/ Lapse \/ RunNow \/ Delete => target' = target
  BY DEF Tick, Lapse, RunNow, Delete
<1>2. \A m \in Editors : UpdateReads(m) \/ UpdateWrites(m) => target' = target
  BY DEF UpdateReads, UpdateWrites
<1>3. \A w \in Workers : ClaimDue(w) => target' = target
  BY DEF ClaimDue
<1>4. \A f \in Firer : Fire(f) \/ Break(f) => target' = target
  BY DEF Fire, StartTarget, StartFails, Finish, Break
<1>. QED BY <1>1, <1>2, <1>3, <1>4 DEF Next, vars

LEMMA ExclusiveStep == ScheduleInv /\ [Next]_vars => Exclusive'
<1>. SUFFICES ASSUME TypeOK, FiringType, RowType, Exclusive, [Next]_vars PROVE Exclusive'
  BY DEF ScheduleInv
<1>. SUFFICES ASSUME target = "agent", manual' = 0
              PROVE  /\ firing'[Member] = Idle
                     /\ \A w \in Workers : firing'[w] # Idle =>
                            claim'.status = "running" /\ claim'.owner = w /\ ~claim'.lapsed
  BY TargetKept DEF Exclusive
<1>. USE ScheduleAssumption
<1>f. Member \in Firer /\ \A w \in Workers : w \in Firer /\ w # Member
  BY DEF Firer
<1>m. manual = 0 /\ ~RunNow
  BY DEF Next, Fire, vars, count, Tick, Lapse, RunNow, Delete, UpdateReads, UpdateWrites,
         ClaimDue, StartTarget, StartFails, Finish, Break, RowType
<1>h. /\ firing[Member] = Idle
      /\ \A w \in Workers : firing[w] # Idle =>
            claim.status = "running" /\ claim.owner = w /\ ~claim.lapsed
  BY <1>m DEF Exclusive
<1>1. CASE UNCHANGED <<firing, claim>>
  BY <1>1, <1>h
<1>2. CASE Lapse
  <2>1. claim.owner \in Workers /\ firing[claim.owner] = Idle
    BY <1>2 DEF Lapse, RowType
  <2>2. firing' = firing /\ \A w \in Workers : firing[w] = Idle
    BY <1>2, <1>h, <2>1 DEF Lapse
  <2>. QED BY <1>h, <2>2
<1>3. ASSUME NEW w \in Workers, ClaimDue(w)
      PROVE  /\ firing'[Member] = Idle
             /\ \A v \in Workers : firing'[v] # Idle =>
                    claim'.status = "running" /\ claim'.owner = v /\ ~claim'.lapsed
  <2>1. \A v \in Workers : firing[v] = Idle
    BY <1>3, <1>h DEF ClaimDue, Claimable
  <2>2. \E x : firing' = [firing EXCEPT ![w] = x]
    BY <1>3 DEF ClaimDue, Begin
  <2>3. \A g \in Firer : g # w => firing'[g] = firing[g]
    BY <2>2, <1>f, FiringMoves
  <2>4. claim' = [status |-> "running", owner |-> w, lapsed |-> FALSE]
    BY <1>3 DEF ClaimDue
  <2>. QED BY <1>f, <1>h, <2>1, <2>3, <2>4
<1>4. ASSUME NEW f \in Firer, StartTarget(f) \/ StartFails(f)
      PROVE  /\ firing'[Member] = Idle
             /\ \A v \in Workers : firing'[v] # Idle =>
                    claim'.status = "running" /\ claim'.owner = v /\ ~claim'.lapsed
  <2>1. firing[f].at = "begun" /\ Past(f) /\ claim' = claim
    BY <1>4 DEF StartTarget, StartFails, row
  <2>2. firing[f] # Idle /\ \E x : firing' = [firing EXCEPT ![f] = x]
    <3>. DEFINE y == [firing[f] EXCEPT !.at = "started"]
    <3>1. firing[f] # Idle /\ firing' = [firing EXCEPT ![f] = y]
      BY <2>1, PastForms
    <3>. HIDE DEF y
    <3>. QED BY <3>1
  <2>3. \A g \in Firer : g # f => firing'[g] = firing[g]
    <3>1. PICK x : firing' = [firing EXCEPT ![f] = x]
      BY <2>2
    <3>2. \A g \in Firer : firing'[g] = IF g = f THEN x ELSE firing[g]
      BY <3>1, FiringMoves
    <3>. QED BY <3>2
  <2>4. ASSUME NEW v \in Workers, firing'[v] # Idle PROVE firing[v] # Idle
    <3>1. CASE v = f
      BY <2>2, <3>1
    <3>2. CASE v # f
      BY <1>f, <2>3, <2>4, <3>2
    <3>. QED BY <3>1, <3>2
  <2>5. f # Member
    BY <1>h, <2>2
  <2>. QED BY <1>f, <1>h, <2>1, <2>3, <2>4, <2>5
<1>5. ASSUME NEW f \in Firer, Finish(f) \/ Break(f)
      PROVE  /\ firing'[Member] = Idle
             /\ \A v \in Workers : firing'[v] # Idle =>
                    claim'.status = "running" /\ claim'.owner = v /\ ~claim'.lapsed
  <2>1. firing[f] # Idle /\ firing' = [firing EXCEPT ![f] = Idle]
    BY <1>5 DEF Finish, Break, Idle
  <2>2. \A g \in Firer : firing'[g] = IF g = f THEN Idle ELSE firing[g]
    <3>. HIDE DEF Idle
    <3>. QED BY <2>1, FiringMoves
  <2>3. \A v \in Workers : firing'[v] = Idle
    BY <1>f, <1>h, <2>1, <2>2 DEF Firer
  <2>. QED BY <1>f, <1>h, <2>2, <2>3
<1>6. \/ Lapse \/ (\E w \in Workers : ClaimDue(w)) \/ UNCHANGED <<firing, claim>>
      \/ \E f \in Firer : Fire(f) \/ Break(f)
  BY <1>m DEF Next, vars, row, Tick, Delete, UpdateReads, UpdateWrites
<1>. QED BY <1>1, <1>2, <1>3, <1>4, <1>5, <1>6 DEF Fire

LEMMA UnfiredStep == ScheduleInv /\ [Next]_vars => Unfired' /\ FiresOnce'
<1>. SUFFICES ASSUME TypeOK, FiringType, RowType, Exclusive, Unfired, FiresOnce, [Next]_vars
              PROVE  Unfired' /\ FiresOnce'
  BY DEF ScheduleInv
<1>. SUFFICES ASSUME target = "agent", manual' = 0
              PROVE  /\ \A t \in 1..Horizon : t > now' => fired'[t] = 0
                     /\ present' /\ next' # Never /\ (\A w \in Workers : firing'[w] = Idle) =>
                            \A t \in 1..Horizon : t >= next' => fired'[t] <= faults'
                     /\ \A w \in Workers : firing'[w] # Idle =>
                            /\ \A t \in 1..Horizon : t > firing'[w].next => fired'[t] <= faults'
                            /\ firing'[w].at = "begun" => fired'[firing'[w].next] <= faults'
                     /\ \A t \in 1..Horizon : fired'[t] <= 1 + faults'
  BY TargetKept DEF Unfired, FiresOnce
<1>. USE ScheduleAssumption
<1>f. Member \in Firer /\ \A w \in Workers : w \in Firer /\ w # Member
  BY DEF Firer
<1>m. manual = 0 /\ ~RunNow
  BY DEF Next, Fire, vars, count, Tick, Lapse, RunNow, Delete, UpdateReads, UpdateWrites,
         ClaimDue, StartTarget, StartFails, Finish, Break, RowType
<1>n. /\ now \in Nat /\ faults \in Nat
      /\ \A t \in 1..Horizon : t \in Nat /\ fired[t] \in Nat
      /\ next = Never \/ next \in Nat
  BY DEF TypeOK, Time
<1>h. /\ \A t \in 1..Horizon : t > now => fired[t] = 0
      /\ present /\ next # Never /\ (\A w \in Workers : firing[w] = Idle) =>
             \A t \in 1..Horizon : t >= next => fired[t] <= faults
      /\ \A w \in Workers : firing[w] # Idle =>
             /\ \A t \in 1..Horizon : t > firing[w].next => fired[t] <= faults
             /\ firing[w].at = "begun" => fired[firing[w].next] <= faults
      /\ \A t \in 1..Horizon : fired[t] <= 1 + faults
  BY <1>m DEF Unfired, FiresOnce
<1>x. /\ firing[Member] = Idle
      /\ \A w, v \in Workers : firing[w] # Idle /\ firing[v] # Idle => w = v
  BY <1>m DEF Exclusive
<1>w. \A w \in Workers : firing[w] # Idle =>
            /\ firing[w].next \in 1..Horizon /\ firing[w].next \in Nat
            /\ firing[w].next <= now
            /\ Advance(w) \in Nat /\ Advance(w) > firing[w].next
  BY WorkerFields, AdvanceIsLater DEF FiringType
<1>1. CASE Tick
  <2>1. now' = now + 1 /\ UNCHANGED <<present, next, firing, fired, faults>>
    BY <1>1 DEF Tick, row, count
  <2>. QED BY <1>h, <1>n, <2>1
<1>2. CASE Lapse \/ Delete \/ (\E m \in Editors : UpdateReads(m)) \/ UNCHANGED vars
  <2>1. UNCHANGED <<now, next, firing, fired, faults>> /\ (present' => present)
    BY <1>2 DEF Lapse, Delete, UpdateReads, vars, row, count
  <2>. QED BY <1>h, <2>1
<1>3. ASSUME NEW m \in Editors, UpdateWrites(m), NEW t \in 1..Horizon, next' # Never, t >= next',
             present', \A w \in Workers : firing'[w] = Idle
      PROVE  fired'[t] <= faults'
  <2>1. UNCHANGED <<now, present, firing, fired, count>>
    BY <1>3 DEF UpdateWrites
  <2>2. next' = next \/ \E c \in Config : next' = NextFire(c.cron, now)
    BY <1>3, <2>1 DEF UpdateWrites
  <2>3. CASE next' = next
    BY <1>3, <1>h, <2>1, <2>3 DEF count
  <2>4. ASSUME NEW c \in Config, next' = NextFire(c.cron, now) PROVE fired'[t] <= faults'
    <3>1. c.cron \in Nat \ {0}
      BY DEF Config
    <3>2. NextFire(c.cron, now) \in Nat /\ NextFire(c.cron, now) > now
      BY <1>n, <3>1, NextFireIsNext
    <3>3. t > now
      BY <1>3, <1>n, <2>4, <3>2
    <3>4. fired[t] = 0
      BY <1>h, <3>3
    <3>. QED BY <1>n, <2>1, <3>4 DEF count
  <2>. QED BY <2>2, <2>3, <2>4
<1>4. ASSUME NEW m \in Editors, UpdateWrites(m)
      PROVE  UNCHANGED <<now, present, firing, fired, faults>>
  BY <1>4 DEF UpdateWrites, count
<1>. DEFINE Goal == 
        /\ \A t \in 1..Horizon : t > now' => fired'[t] = 0
        /\ present' /\ next' # Never /\ (\A w \in Workers : firing'[w] = Idle) =>
               \A t \in 1..Horizon : t >= next' => fired'[t] <= faults'
        /\ \A w \in Workers : firing'[w] # Idle =>
               /\ \A t \in 1..Horizon : t > firing'[w].next => fired'[t] <= faults'
               /\ firing'[w].at = "begun" => fired'[firing'[w].next] <= faults'
        /\ \A t \in 1..Horizon : fired'[t] <= 1 + faults'
<1>5. ASSUME NEW w \in Workers, ClaimDue(w) PROVE Goal
  <2>1. UNCHANGED <<now, fired, faults>>
    BY <1>5 DEF ClaimDue, count
  <2>2. \A v \in Workers : firing[v] = Idle
    BY <1>5, <1>m DEF ClaimDue, Claimable, Exclusive
  <2>3. present /\ next # Never
    BY <1>5 DEF ClaimDue
  <2>4. \A t \in 1..Horizon : t >= next => fired[t] <= faults
    BY <1>h, <2>2, <2>3
  <2>. DEFINE x == [at |-> "begun", held |-> TRUE, moment |-> now,
                    next |-> next, cron |-> config.cron, catchUp |-> config.catchUp]
  <2>5. firing' = [firing EXCEPT ![w] = x]
    BY <1>5, <1>f DEF ClaimDue, Begin
  <2>6. x.next = next /\ x # Idle
    BY DEF Idle
  <2>. HIDE DEF x
  <2>7. \A v \in Workers : firing'[v] = IF v = w THEN x ELSE Idle
    <3>1. w \in Firer
      BY <1>f
    <3>2. \A g \in Firer : firing'[g] = IF g = w THEN x ELSE firing[g]
      BY <2>5, <3>1, FiringMoves
    <3>. QED BY <1>f, <2>2, <3>2
  <2>8. next \in 1..Horizon
    BY <1>5, <1>n, <2>3 DEF ClaimDue, TypeOK, Time, RowType
  <2>9. \A v \in Workers : firing'[v] # Idle => firing'[v].next = next
    BY <2>6, <2>7
  <2>10. firing'[w] # Idle
    BY <2>6, <2>7
  <2>. QED BY <1>h, <1>n, <2>1, <2>4, <2>8, <2>9, <2>10
<1>6. ASSUME NEW f \in Firer, StartTarget(f) \/ StartFails(f) PROVE Goal
  <2>1. firing[f].at = "begun" /\ Past(f) /\ UNCHANGED <<now, present, next, faults>>
    BY <1>6 DEF StartTarget, StartFails, row, count
  <2>. DEFINE x == [firing[f] EXCEPT !.at = "started"]
  <2>2. /\ firing[f] # Idle /\ firing' = [firing EXCEPT ![f] = x]
        /\ f # Member => x.at = "started" /\ x.next = firing[f].next /\ x \in WorkerFiring
    BY <2>1, PastForms
  <2>3. f \in Workers
    BY <1>x, <2>2 DEF Firer
  <2>4. x.at = "started" /\ x.next = firing[f].next /\ x # Idle
    BY <1>f, <2>2, <2>3, WorkerFields
  <2>. HIDE DEF x
  <2>5. \A v \in Workers : firing'[v] = IF v = f THEN x ELSE firing[v]
    <3>1. firing' = [firing EXCEPT ![f] = x]
      BY <2>2
    <3>2. \A g \in Firer : firing'[g] = IF g = f THEN x ELSE firing[g]
      BY <3>1, FiringMoves
    <3>. QED BY <1>f, <3>2
  <2>6. \A v \in Workers : v # f => firing'[v] = Idle
    BY <1>x, <2>2, <2>3, <2>5
  <2>7. fired' = fired \/ fired' = [fired EXCEPT ![firing[f].next] = @ + 1]
    BY <1>f, <1>6, <2>3 DEF StartTarget, StartFails
  <2>8. \A t \in 1..Horizon : fired'[t] = fired[t]
                            \/ (t = firing[f].next /\ fired'[t] = fired[t] + 1)
    BY <2>7 DEF TypeOK
  <2>9. firing[f].next \in 1..Horizon /\ firing[f].next <= now /\ fired[firing[f].next] <= faults
    BY <1>h, <1>w, <2>1, <2>2, <2>3
  <2>10. \A t \in 1..Horizon : t > now => fired'[t] = 0
    BY <1>h, <1>n, <2>8, <2>9
  <2>11. \A t \in 1..Horizon : t > firing[f].next => fired'[t] <= faults
    BY <1>h, <1>n, <2>2, <2>3, <2>8, <2>9
  <2>12. \A t \in 1..Horizon : fired'[t] <= 1 + faults
    BY <1>h, <1>n, <2>8, <2>9
  <2>13. firing'[f] = x
    BY <2>3, <2>5
  <2>. QED BY <2>1, <2>3, <2>4, <2>6, <2>10, <2>11, <2>12, <2>13
<1>7. ASSUME NEW f \in Firer, Finish(f) \/ Break(f) PROVE Goal
  <2>1. firing[f] # Idle /\ firing' = [firing EXCEPT ![f] = Idle]
    BY <1>7 DEF Finish, Break, Idle
  <2>2. f \in Workers
    BY <1>x, <2>1 DEF Firer
  <2>3. \A g \in Firer : firing'[g] = IF g = f THEN Idle ELSE firing[g]
    <3>. HIDE DEF Idle
    <3>. QED BY <2>1, FiringMoves
  <2>4. \A v \in Workers : firing'[v] = Idle
    BY <1>f, <1>x, <2>1, <2>2, <2>3
  <2>5. UNCHANGED <<now, fired, present>>
    BY <1>7 DEF Finish, Break, row
  <2>6. CASE Finish(f)
    <3>1. present => next' = Advance(f)
      BY <1>f, <1>n, <1>w, <2>1, <2>2, <2>6 DEF Finish
    <3>2. faults' = faults
      BY <2>6 DEF Finish, count
    <3>. QED BY <1>h, <1>n, <1>w, <2>1, <2>2, <2>4, <2>5, <3>1, <3>2
  <2>7. CASE Break(f)
    <3>1. faults' = faults + 1
      BY <2>7 DEF Break
    <3>. QED BY <1>h, <1>n, <2>4, <2>5, <3>1
  <2>. QED BY <1>7, <2>6, <2>7
<1>8. ASSUME NEW m \in Editors, UpdateWrites(m) PROVE Goal
  BY <1>3, <1>4, <1>8, <1>h
<1>. QED BY <1>1, <1>2, <1>5, <1>6, <1>7, <1>8, <1>m DEF Next, Fire

(***************************************************************************)
(* With catch-up no occurrence is missed.                                  *)
(***************************************************************************)

(* While nobody updates the schedule, every step leaves the row's own      *)
(* attributes alone, and settles what it settles for good.                 *)
LEMMA QuietSteps ==
    ASSUME ScheduleInv, [Next]_vars, updates' = 0
    PROVE  /\ updates = 0 /\ present /\ next \in Nat
           /\ \A m \in Editors : edit[m] = Idle
           /\ UNCHANGED <<config, present, edit>> /\ settled \subseteq settled'
           /\ \/ UNCHANGED <<next, firing>>
              \/ RunNow \/ \E w \in Workers : ClaimDue(w)
              \/ \E f \in Firer : Fire(f) \/ Break(f)
<1>0. ~Delete /\ \A m \in Editors : ~UpdateReads(m)
  BY DEF Delete, UpdateReads, ScheduleInv, RowType
<1>1. updates = 0
  <2>1. Tick \/ Lapse \/ RunNow => updates' = updates
    BY DEF Tick, Lapse, RunNow, count
  <2>3. \A m \in Editors : UpdateWrites(m) => updates' = updates
    BY DEF UpdateWrites, count
  <2>4. \A w \in Workers : ClaimDue(w) => updates' = updates
    BY DEF ClaimDue, count
  <2>5. \A f \in Firer : Fire(f) \/ Break(f) => updates' = updates
    BY DEF Fire, StartTarget, StartFails, Finish, Break, count
  <2>. QED BY <1>0, <2>1, <2>3, <2>4, <2>5 DEF Next, vars, count
<1>2. present /\ next \in Nat /\ \A m \in Editors : edit[m] = Idle
  BY <1>1 DEF ScheduleInv, Untouched
<1>3. ~Delete /\ \A m \in Editors : ~UpdateReads(m) /\ ~UpdateWrites(m)
  BY <1>0, <1>2 DEF UpdateWrites
<1>4. Tick \/ Lapse \/ RunNow => UNCHANGED <<config, present, edit, settled>>
  BY DEF Tick, Lapse, RunNow, row
<1>5. \A w \in Workers : ClaimDue(w) => UNCHANGED <<config, present, edit, settled>>
  BY DEF ClaimDue
<1>6. \A f \in Firer : Fire(f) \/ Break(f) =>
            UNCHANGED <<config, present, edit>> /\ settled \subseteq settled'
  BY DEF Fire, StartTarget, StartFails, Finish, Break, row
<1>7. Tick \/ Lapse => UNCHANGED <<next, firing>>
  BY DEF Tick, Lapse, row
<1>. QED BY <1>1, <1>2, <1>3, <1>4, <1>5, <1>6, <1>7 DEF Next, vars, row

LEMMA MissedStep == ScheduleInv /\ [Next]_vars => Untouched' /\ Passed' /\ NoneMissed'
<1>. SUFFICES ASSUME ScheduleInv, [Next]_vars, updates' = 0
              PROVE  /\ present' /\ next' \in Nat
                     /\ \A m \in Editors : edit'[m] = Idle
                     /\ \A w \in Workers : firing'[w] # Idle =>
                            /\ firing'[w].cron = config'.cron /\ firing'[w].catchUp = config'.catchUp
                            /\ config'.catchUp =>
                                /\ \A t \in 1..Horizon :
                                     t % config'.cron = 0 /\ t < firing'[w].next => t \in settled'
                                /\ firing'[w].at = "started" => firing'[w].next \in settled'
                     /\ config'.catchUp =>
                            \A t \in 1..Horizon : t % config'.cron = 0 /\ t < next' => t \in settled'
  BY DEF Untouched, Passed, NoneMissed
<1>. DEFINE Settled(n) == \A t \in 1..Horizon : t % config.cron = 0 /\ t < n => t \in settled
            SettledNext(n) == \A t \in 1..Horizon : t % config.cron = 0 /\ t < n => t \in settled'
            Holds(x) == /\ x.cron = config.cron /\ x.catchUp = config.catchUp
                        /\ config.catchUp => /\ Settled(x.next)
                                             /\ x.at = "started" => x.next \in settled
            HoldsNext(x) == /\ x.cron = config.cron /\ x.catchUp = config.catchUp
                            /\ config.catchUp => /\ SettledNext(x.next)
                                                 /\ x.at = "started" => x.next \in settled'
<1>f. Member \in Firer /\ \A w \in Workers : w \in Firer /\ w # Member
  BY ScheduleAssumption DEF Firer
<1>q. /\ updates = 0 /\ present /\ next \in Nat
      /\ \A m \in Editors : edit[m] = Idle
      /\ UNCHANGED <<config, present, edit>> /\ settled \subseteq settled'
      /\ \/ UNCHANGED <<next, firing>>
         \/ RunNow \/ \E w \in Workers : ClaimDue(w)
         \/ \E f \in Firer : Fire(f) \/ Break(f)
  BY QuietSteps
<1>t. FiringType /\ TypeOK /\ RowType
  BY DEF ScheduleInv
<1>h. /\ config.catchUp => Settled(next)
      /\ \A w \in Workers : firing[w] # Idle => Holds(firing[w])
  BY <1>q DEF ScheduleInv, Untouched, Passed, NoneMissed
<1>. SUFFICES /\ next' \in Nat
              /\ config.catchUp => SettledNext(next')
              /\ \A w \in Workers : firing'[w] # Idle => HoldsNext(firing'[w])
  BY <1>q
<1>k. /\ \A n : Settled(n) => SettledNext(n)
      /\ \A x : Holds(x) => HoldsNext(x)
  BY <1>q
<1>. HIDE DEF Settled, SettledNext, Holds, HoldsNext
<1>1. CASE UNCHANGED <<next, firing>>
  BY <1>1, <1>h, <1>k, <1>q
<1>2. CASE RunNow
  <2>1. next' = next
    BY <1>2 DEF RunNow, row
  <2>2. \A w \in Workers : firing'[w] = firing[w]
    <3>1. \E x : firing' = [firing EXCEPT ![Member] = x]
      BY <1>2 DEF RunNow, Begin
    <3>2. \A g \in Firer : g # Member => firing'[g] = firing[g]
      BY <1>f, <1>t, <3>1, FiringMoves
    <3>. QED BY <1>f, <3>2
  <2>. QED BY <1>h, <1>k, <1>q, <2>1, <2>2
<1>3. ASSUME NEW w \in Workers, ClaimDue(w)
      PROVE  /\ next' = next
             /\ \A v \in Workers : firing'[v] # Idle => HoldsNext(firing'[v])
  <2>. DEFINE x == [at |-> "begun", held |-> TRUE, moment |-> now,
                    next |-> next, cron |-> config.cron, catchUp |-> config.catchUp]
  <2>1. next' = next
    BY <1>3 DEF ClaimDue
  <2>2. firing' = [firing EXCEPT ![w] = x]
    BY <1>3, <1>f DEF ClaimDue, Begin
  <2>3. /\ x.cron = config.cron /\ x.catchUp = config.catchUp
        /\ x.next = next /\ x.at # "started"
    OBVIOUS
  <2>. HIDE DEF x
  <2>4. Holds(x)
    BY <1>h, <2>3 DEF Holds
  <2>5. \A g \in Firer : firing'[g] = IF g = w THEN x ELSE firing[g]
    BY <1>f, <1>t, <2>2, FiringMoves
  <2>. QED BY <1>f, <1>h, <1>k, <2>1, <2>4, <2>5
<1>4. ASSUME NEW f \in Firer, StartTarget(f) \/ StartFails(f)
      PROVE  /\ next' = next
             /\ \A v \in Workers : firing'[v] # Idle => HoldsNext(firing'[v])
  <2>. DEFINE x == [firing[f] EXCEPT !.at = "started"]
  <2>1. firing[f].at = "begun" /\ Past(f) /\ UNCHANGED row
    BY <1>4 DEF StartTarget, StartFails
  <2>2. /\ firing[f] # Idle /\ firing' = [firing EXCEPT ![f] = x]
        /\ f # Member => /\ x.next = firing[f].next
                         /\ x.cron = firing[f].cron /\ x.catchUp = firing[f].catchUp
    BY <1>t, <2>1, PastForms
  <2>. HIDE DEF x
  <2>3. firing' = [firing EXCEPT ![f] = x]
    BY <2>2
  <2>4. \A g \in Firer : firing'[g] = IF g = f THEN x ELSE firing[g]
    BY <1>t, <2>3, FiringMoves
  <2>5. f \in Workers => firing[f].next \in settled'
    BY <1>4, <1>f DEF StartTarget, StartFails
  <2>6. f \in Workers => HoldsNext(firing[f])
    BY <1>h, <1>k, <2>2
  <2>7. f \in Workers => HoldsNext(x)
    BY <1>f, <2>2, <2>5, <2>6 DEF HoldsNext
  <2>. QED BY <1>f, <1>h, <1>k, <2>1, <2>4, <2>7 DEF row
<1>5. ASSUME NEW f \in Firer, Finish(f) \/ Break(f)
      PROVE  \A v \in Workers : firing'[v] # Idle => HoldsNext(firing'[v])
  <2>1. firing' = [firing EXCEPT ![f] = Idle]
    BY <1>5 DEF Finish, Break
  <2>2. \A g \in Firer : firing'[g] = IF g = f THEN Idle ELSE firing[g]
    <3>. HIDE DEF Idle
    <3>. QED BY <1>t, <2>1, FiringMoves
  <2>. HIDE DEF Idle
  <2>. QED BY <1>f, <1>h, <1>k, <2>2
<1>6. ASSUME NEW f \in Firer, Break(f) PROVE next' = next
  BY <1>6 DEF Break, row
<1>7. ASSUME NEW f \in Firer, Finish(f)
      PROVE  next' \in Nat /\ (config.catchUp => SettledNext(next'))
  <2>1. CASE f = Member
    <3>1. next' = next
      BY <1>7, <1>q, <2>1 DEF Finish
    <3>. QED BY <1>h, <1>k, <1>q, <3>1
  <2>2. CASE f # Member
    <3>. DEFINE x == firing[f]
    <3>1. f \in Workers /\ x # Idle /\ x.at = "started"
      BY <1>7, <2>2 DEF Finish, Firer, Idle
    <3>2. x \in WorkerFiring
      BY <1>t, <3>1 DEF FiringType
    <3>3. /\ x.cron = config.cron /\ x.catchUp = config.catchUp
          /\ config.catchUp => Settled(x.next) /\ x.next \in settled
      BY <1>h, <3>1 DEF Holds
    <3>4. Advance(f) \in Nat /\ Advance(f) > x.next
      BY <1>t, <3>1, AdvanceIsLater
    <3>5. x.next \in Nat /\ x.cron \in Nat \ {0}
      BY <3>2, WorkerFields
    <3>6. next' = Advance(f)
      BY <1>7, <1>q, <2>2, <3>4, <3>5 DEF Finish
    <3>7. ASSUME config.catchUp, NEW t \in 1..Horizon, t % config.cron = 0, t < next'
          PROVE  t \in settled'
      <4>1. Advance(f) = NextFire(config.cron, x.next)
        BY <3>3, <3>7 DEF Advance
      <4>2. t <= x.next
        <5>1. config.cron \in Nat \ {0} /\ x.next \in Nat /\ t \in Nat
          BY <3>3, <3>5
        <5>. HIDE DEF x
        <5>2. \A u \in Nat : u % config.cron = 0 /\ u < NextFire(config.cron, x.next) => u <= x.next
          BY <5>1, NextFireIsNext
        <5>. QED BY <3>6, <3>7, <4>1, <5>1, <5>2
      <4>3. t < x.next \/ t = x.next
        BY <3>5, <4>2
      <4>4. Settled(x.next) /\ x.next \in settled
        BY <3>3, <3>7
      <4>. QED BY <1>q, <3>7, <4>3, <4>4 DEF Settled
    <3>. QED BY <3>4, <3>6, <3>7 DEF SettledNext
  <2>. QED BY <2>1, <2>2
<1>8. CASE \E w \in Workers : ClaimDue(w)
  BY <1>3, <1>8, <1>h, <1>k, <1>q
<1>9. CASE \E f \in Firer : Fire(f) \/ Break(f)
  <2>1. ASSUME NEW f \in Firer, StartTarget(f) \/ StartFails(f)
        PROVE  next' \in Nat /\ (config.catchUp => SettledNext(next'))
    BY <1>4, <1>h, <1>k, <1>q, <2>1
  <2>2. ASSUME NEW f \in Firer, Break(f)
        PROVE  next' \in Nat /\ (config.catchUp => SettledNext(next'))
    BY <1>6, <1>h, <1>k, <1>q, <2>2
  <2>. QED BY <1>4, <1>5, <1>7, <1>9, <2>1, <2>2 DEF Fire
<1>. QED BY <1>1, <1>2, <1>8, <1>9, <1>q

-----------------------------------------------------------------------------
(* The strengthening holds in every reachable state. *)
THEOREM ScheduleInvariant == Spec => []ScheduleInv
<1>1. ScheduleInv /\ [Next]_vars => ScheduleInv'
  BY TypeStep, ExclusiveStep, UnfiredStep, MissedStep DEF ScheduleInv
<1>. QED BY InitInv, <1>1, PTL DEF Spec

(* Whatever is claimed, fired, updated or lost, the schedule and the       *)
(* firings stay of their types.                                            *)
THEOREM ScheduleTypeCorrect == Spec => []TypeOK
<1>1. ScheduleInv => TypeOK
  BY DEF ScheduleInv
<1>. QED BY ScheduleInvariant, <1>1, PTL

(* However many workers poll and whatever the period, an agent that nobody *)
(* runs by hand is fired once for an occurrence, and once more only for a  *)
(* worker that was lost.                                                   *)
THEOREM FiresOnceHolds == Spec => []FiresOnce
<1>1. ScheduleInv => FiresOnce
  BY DEF ScheduleInv
<1>. QED BY ScheduleInvariant, <1>1, PTL

(* With catch-up the schedule moves past an occurrence only when it was    *)
(* started or failed on the row, whoever was lost or fires by hand.        *)
THEOREM NoneMissedHolds == Spec => []NoneMissed
<1>1. ScheduleInv => NoneMissed
  BY DEF ScheduleInv
<1>. QED BY ScheduleInvariant, <1>1, PTL
=============================================================================
