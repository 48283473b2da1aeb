------------------------ MODULE OutboxDispatch_proofs ------------------------
(***************************************************************************)
(* Proofs about the outbox: no delivery is lost, a consumer's writes are   *)
(* committed once, and the tables implement DeliveryQueue.                 *)
(***************************************************************************)
EXTENDS OutboxDispatch, TLAPS

(***************************************************************************)
(* Type correctness: the rows a tick stages are rows.                      *)
(***************************************************************************)
LEMMA RowForms ==
    ASSUME OutboxTypeOK, NEW w \in Worker, NEW e \in Event, NEW n \in Nat
    PROVE  /\ Current(w, e) \in Row
           /\ Claimed(e) \in Row
           /\ Done(Current(w, e)) \in Row
           /\ Failed(Current(w, e)) \in Row
           /\ Retried(Current(w, e), n) \in Row
<1>1. row[e] \in Row
  BY DEF OutboxTypeOK
<1>2. Current(w, e) \in Row
  BY <1>1 DEF OutboxTypeOK, Current, Holds
<1>3. Claimed(e) \in Row
  BY <1>1 DEF Claimed, Row
<1>4. Done(Current(w, e)) \in Row /\ Failed(Current(w, e)) \in Row
  BY <1>2 DEF Done, Failed, Row
<1>5. Retried(Current(w, e), n) \in Row
  BY <1>2 DEF Retried, Row
<1>. QED BY <1>2, <1>3, <1>4, <1>5

LEMMA SettleType ==
    ASSUME OutboxTypeOK, NEW w \in Worker, cur[w] \in Event, NEW r \in Row, SettleRow(w, r),
           staged' \in [Worker -> SUBSET (Event \X Consumer)],
           acted' \in [Worker -> SUBSET (Event \X Consumer)]
    PROVE  OutboxTypeOK'
BY DEF OutboxTypeOK, SettleRow, Stage, table

LEMMA PairType ==
    ASSUME OutboxTypeOK, NEW w \in Worker, NEW c \in Consumer, cur[w] \in Event
    PROVE  /\ Acts(w, c) => acted' \in [Worker -> SUBSET (Event \X Consumer)]
           /\ Stages(w, c) => staged' \in [Worker -> SUBSET (Event \X Consumer)]
<1>1. <<cur[w], c>> \in Event \X Consumer
  OBVIOUS
<1>2. Acts(w, c) => acted' \in [Worker -> SUBSET (Event \X Consumer)]
  BY <1>1 DEF Acts, OutboxTypeOK
<1>3. Stages(w, c) => staged' \in [Worker -> SUBSET (Event \X Consumer)]
  BY <1>1 DEF Stages, OutboxTypeOK
<1>. QED BY <1>2, <1>3

LEMMA MissedType ==
    ASSUME OutboxTypeOK, NEW w \in Worker, cur[w] \in Event
    PROVE  Missed(w) \in Row /\ Missed(w).status \in {"pending", "failed"}
<1>1. seen[w][cur[w]] \in Nat
  BY DEF OutboxTypeOK
<1>2. /\ Current(w, cur[w]) \in Row /\ Failed(Current(w, cur[w])) \in Row
      /\ Retried(Current(w, cur[w]), seen[w][cur[w]]) \in Row
  BY <1>1, RowForms
<1>3. /\ Failed(Current(w, cur[w])).status = "failed"
      /\ Retried(Current(w, cur[w]), seen[w][cur[w]]).status = "pending"
  BY <1>2 DEF Failed, Retried, Row
<1>. QED BY <1>2, <1>3 DEF Missed

LEMMA RollbackType ==
    ASSUME OutboxTypeOK, NEW w \in Worker, Rollback(w)
    PROVE  /\ pc' \in [Worker -> {"idle", "batch", "row", "driving", "record"}]
           /\ todo' \in [Worker -> SUBSET Event]
           /\ seen' \in [Worker -> [Event -> Nat]]
           /\ cur' \in [Worker -> Event \cup {NoEvent}]
           /\ left' \in [Worker -> SUBSET Consumer]
           /\ doing' \in [Worker -> Consumer \cup {NoConsumer}]
           /\ held' \in [Worker -> [Event -> Row \cup {NoRow}]]
           /\ staged' \in [Worker -> SUBSET (Event \X Consumer)]
           /\ acted' \in [Worker -> SUBSET (Event \X Consumer)]
           /\ moving' \in [Worker -> SUBSET Event]
BY DEF OutboxTypeOK, Rollback, EmptyTx, EndTick, NothingHeld

LEMMA PublishesType ==
    ASSUME OutboxTypeOK, NEW w \in Worker, NEW extra, NEW over \in SUBSET Event,
           Publishes(w, extra, over)
    PROVE  /\ row' \in [Event -> Row]
           /\ checkpoint' \in [Event -> [Consumer -> {"none", "fresh", "old"}]]
           /\ effect' \in [Event -> [Consumer -> Nat]]
           /\ moved' \subseteq Event
           /\ errors' \in [Event -> Nat]
<1>1. row' \in [Event -> Row]
  BY DEF OutboxTypeOK, Publishes, Holds
<1>2. checkpoint' \in [Event -> [Consumer -> {"none", "fresh", "old"}]]
  BY DEF OutboxTypeOK, Publishes
<1>3. effect' \in [Event -> [Consumer -> Nat]]
  <2>1. \A e \in Event, c \in Consumer :
          effect[e][c] + (IF <<e, c>> \in acted[w] THEN 1 ELSE 0)
                       + (IF <<e, c>> \in extra THEN 1 ELSE 0) \in Nat
    BY DEF OutboxTypeOK
  <2>. QED BY <2>1 DEF Publishes
<1>4. moved' \subseteq Event /\ errors' \in [Event -> Nat]
  BY DEF OutboxTypeOK, Publishes
<1>. QED BY <1>1, <1>2, <1>3, <1>4

(* Somebody inside a row works on an event, for a consumer. *)
InRowEvent ==
    \A w \in Worker :
        /\ InRow(w) => cur[w] \in Event /\ left[w] \subseteq HandlersOf[cur[w]]
        /\ pc[w] \in {"driving", "record"} => doing[w] \in Consumer

LEMMA InRowEventStep ==
    ASSUME OutboxTypeOK, InRowEvent, [Next]_vars
    PROVE  InRowEvent'
<1>. DEFINE Right(v) ==
         /\ InRow(v) => cur[v] \in Event /\ left[v] \subseteq HandlersOf[cur[v]]
         /\ pc[v] \in {"driving", "record"} => doing[v] \in Consumer
<1>. SUFFICES ASSUME NEW v \in Worker PROVE Right(v)'
  BY DEF InRowEvent
<1>. USE DEF OutboxTypeOK, InRowEvent, InRow
<1>1. CASE \E e \in Event : Publish(e) \/ Timer(e) \/ Ageing(e) \/ Purge(e) \/ Replay(e)
  BY <1>1 DEF Publish, Timer, BackoffEnds, LeaseEnds, Ageing, RowAges, CheckpointAges,
              Purge, PurgeRow, PurgeCheckpoint, Replay, tick
<1>2. ASSUME NEW w \in Worker, Tick(w) \/ DeadlockVictim(w) \/ TickFails(w)
      PROVE  Right(v)'
  <2>1. CASE List(w) \/ PollNothing(w)
    <3>1. CASE List(w)
      BY <3>1 DEF List
    <3>2. CASE PollNothing(w)
      BY <3>2 DEF PollNothing, vars, tick
    <3>. QED BY <2>1, <3>1, <3>2
  <2>2. CASE Refuse(w) \/ Finish(w)
    BY <2>2 DEF Refuse, Finish, Settle, SettleRow
  <2>3. CASE MoveTask(w) \/ Record(w)
    <3>1. CASE MoveTask(w)
      BY <3>1 DEF MoveTask
    <3>2. CASE Record(w)
      <4>1. left'[w] \subseteq left[w]
        BY <3>2 DEF Record
      <4>2. /\ pc[w] = "record" /\ pc' = [pc EXCEPT ![w] = "row"] /\ UNCHANGED cur
            /\ \A u \in Worker \ {w} : left'[u] = left[u] /\ doing'[u] = doing[u]
        BY <3>2 DEF Record
      <4>3. CASE v = w
        BY <4>1, <4>2, <4>3
      <4>4. CASE v # w
        BY <4>2, <4>4
      <4>. QED BY <4>3, <4>4
    <3>. QED BY <2>3, <3>1, <3>2
  <2>4. CASE Commit(w) \/ DeadlockVictim(w) \/ TickFails(w)
    <3>1. EndTick(w)
      BY <2>4 DEF Commit, DeadlockVictim, TickFails, Rollback
    <3>. QED BY <3>1 DEF EndTick
  <2>5. ASSUME NEW e \in Event, Claim(w, e) \/ ClaimLost(w, e)
        PROVE  Right(v)'
    <3>1. CASE Claim(w, e)
      BY <3>1 DEF Claim
    <3>2. CASE ClaimLost(w, e)
      BY <3>2 DEF ClaimLost
    <3>. QED BY <2>5, <3>1, <3>2
  <2>6. CASE \E c \in Consumer : Skip(w, c) \/ Handle(w, c) \/ HandleSlot(w, c)
    <3>1. CASE \E c \in Consumer : Skip(w, c)
      BY <3>1 DEF Skip, Dispatchable
    <3>2. CASE \E c \in Consumer : Handle(w, c) \/ HandleSlot(w, c)
      <4>1. \E c \in Consumer : doing' = [doing EXCEPT ![w] = c]
        BY <3>2 DEF Handle, HandleSlot
      <4>2. /\ pc[w] = "row" /\ pc' = [pc EXCEPT ![w] = "record"] /\ UNCHANGED <<cur, left>>
        BY <3>2 DEF Handle, HandleSlot, Invokable, Dispatchable
      <4>. QED BY <4>1, <4>2
    <3>. QED BY <2>6, <3>1, <3>2
  <2>7. CASE \E c \in Consumer : DriveNothing(w, c) \/ Drive(w, c) \/ FailTask(w, c)
    <3>1. \E c \in Consumer : doing' = [doing EXCEPT ![w] = c]
      BY <2>7 DEF DriveNothing, Drive, FailTask
    <3>2. /\ pc[w] = "row" /\ UNCHANGED <<cur, left>>
          /\ \E p \in {"driving", "record"} : pc' = [pc EXCEPT ![w] = p]
      BY <2>7 DEF DriveNothing, Drive, FailTask, Invokable, Dispatchable
    <3>. QED BY <3>1, <3>2
  <2>8. CASE \E c \in Consumer : Raise(w, c) \/ RaiseMidway(w, c) \/ Poisoned(w, c)
    <3>1. CASE \E c \in Consumer : Raise(w, c) \/ RaiseMidway(w, c)
      <4>1. SettleRow(w, Missed(w))
        BY <3>1 DEF Raise, RaiseMidway, Settle
      <4>. QED BY <4>1 DEF SettleRow
    <3>2. CASE \E c \in Consumer : Poisoned(w, c)
      BY <3>2 DEF Poisoned, Rollback, EndTick
    <3>. QED BY <2>8, <3>1, <3>2
  <2>. QED BY <1>2, <2>1, <2>2, <2>3, <2>4, <2>5, <2>6, <2>7, <2>8 DEF Tick
<1>3. CASE UNCHANGED vars
  BY <1>3 DEF vars, tick
<1>. QED BY <1>1, <1>2, <1>3 DEF Next

LEMMA TypeStep ==
    ASSUME OutboxTypeOK, InRowEvent, [Next]_vars
    PROVE  OutboxTypeOK'
<1>. USE OutboxAssumption
<1>1. ASSUME NEW e \in Event, Publish(e) \/ Timer(e) \/ RowAges(e) \/ PurgeRow(e) \/ Replay(e)
      PROVE  OutboxTypeOK'
  <2>1. row' \in [Event -> Row]
    <3>1. row[e] \in Row
      BY DEF OutboxTypeOK
    <3>2. \E r \in Row : row' = [row EXCEPT ![e] = r]
      <4>1. CASE Publish(e)
        BY <3>1, <4>1 DEF Publish, Row
      <4>2. CASE BackoffEnds(e)
        BY <3>1, <4>2 DEF BackoffEnds, Row
      <4>3. CASE LeaseEnds(e)
        BY <3>1, <4>3 DEF LeaseEnds, Row
      <4>4. CASE RowAges(e)
        BY <3>1, <4>4 DEF RowAges, Row
      <4>5. CASE PurgeRow(e)
        BY <3>1, <4>5 DEF PurgeRow, Row
      <4>6. CASE Replay(e)
        <5>1. [row[e] EXCEPT !.status = "pending", !.attempts = 0, !.due = TRUE] \in Row
          BY <3>1 DEF Row
        <5>. QED BY <4>6, <5>1 DEF Replay
      <4>. QED BY <1>1, <4>1, <4>2, <4>3, <4>4, <4>5, <4>6 DEF Timer
    <3>. QED BY <3>2 DEF OutboxTypeOK
  <2>2. errors' \in [Event -> Nat]
    <3>1. CASE Replay(e)
      BY <3>1 DEF OutboxTypeOK, Replay
    <3>2. CASE Publish(e) \/ Timer(e) \/ RowAges(e) \/ PurgeRow(e)
      <4>1. UNCHANGED errors
        BY <3>2 DEF Publish, Timer, BackoffEnds, LeaseEnds, RowAges, PurgeRow
      <4>. QED BY <4>1 DEF OutboxTypeOK
    <3>. QED BY <1>1, <3>1, <3>2
  <2>. QED
    BY <1>1, <2>1, <2>2
       DEF OutboxTypeOK, Publish, Timer, BackoffEnds, LeaseEnds, RowAges, PurgeRow, Replay, tick, tx
<1>2. ASSUME NEW e \in Event, NEW c \in Consumer, CheckpointAges(e, c) \/ PurgeCheckpoint(e, c)
      PROVE  OutboxTypeOK'
  <2>1. \E k \in {"none", "old"} : checkpoint' = [checkpoint EXCEPT ![e][c] = k]
    BY <1>2 DEF CheckpointAges, PurgeCheckpoint
  <2>2. checkpoint' \in [Event -> [Consumer -> {"none", "fresh", "old"}]]
    BY <2>1 DEF OutboxTypeOK
  <2>. QED BY <1>2, <2>2 DEF OutboxTypeOK, CheckpointAges, PurgeCheckpoint, tick, tx
<1>3. ASSUME NEW w \in Worker, Tick(w) \/ DeadlockVictim(w) \/ TickFails(w)
      PROVE  OutboxTypeOK'
  <2>1. CASE List(w) \/ PollNothing(w)
    <3>1. CASE List(w)
      <4>1. [e \in Event |-> row[e].attempts] \in [Event -> Nat]
        BY DEF OutboxTypeOK, Row
      <4>. QED BY <3>1, <4>1 DEF List, OutboxTypeOK, table, tx
    <3>2. CASE PollNothing(w)
      BY <3>2 DEF PollNothing, OutboxTypeOK, vars, table, tick, tx
    <3>. QED BY <2>1, <3>1, <3>2
  <2>2. CASE Refuse(w) \/ Finish(w)
    <3>1. cur[w] \in Event
      BY <2>2 DEF InRowEvent, InRow, Refuse, Finish
    <3>2. SettleRow(w, Failed(Current(w, cur[w]))) \/ SettleRow(w, Done(Current(w, cur[w])))
      BY <2>2 DEF Refuse, Finish, Settle
    <3>3. UNCHANGED <<staged, acted>>
      BY <2>2 DEF Refuse, Finish, Settle
    <3>. QED BY <3>1, <3>2, <3>3, RowForms, SettleType DEF OutboxTypeOK
  <2>3. CASE MoveTask(w)
    BY <2>3 DEF MoveTask, OutboxTypeOK, InRowEvent, InRow, table
  <2>4. CASE Record(w)
    <3>1. cur[w] \in Event
      BY <2>4 DEF InRowEvent, InRow, Record
    <3>2. doing[w] \in Consumer
      BY <2>4 DEF InRowEvent, Record
    <3>3. staged' \in [Worker -> SUBSET (Event \X Consumer)]
      BY <2>4, <3>1, <3>2, PairType DEF Record, OutboxTypeOK
    <3>. QED BY <2>4, <3>3 DEF Record, OutboxTypeOK, table
  <2>5. CASE Commit(w) \/ DeadlockVictim(w) \/ TickFails(w)
    <3>1. Rollback(w)
      BY <2>5 DEF Commit, DeadlockVictim, TickFails
    <3>2. CASE Commit(w)
      BY <3>1, <3>2, RollbackType, PublishesType DEF Commit, OutboxTypeOK
    <3>3. CASE DeadlockVictim(w) \/ TickFails(w)
      <4>1. UNCHANGED <<row, checkpoint, effect, moved, errors>> /\ faults' \in Nat
        BY <3>3 DEF DeadlockVictim, TickFails, table, OutboxTypeOK
      <4>. QED BY <3>1, <4>1, RollbackType DEF OutboxTypeOK
    <3>. QED BY <2>5, <3>2, <3>3
  <2>6. ASSUME NEW e \in Event, Claim(w, e) \/ ClaimLost(w, e) PROVE OutboxTypeOK'
    <3>1. CASE Claim(w, e)
      <4>1. Claimed(e) \in Row
        BY RowForms
      <4>2. HandlersOf[e] \subseteq Consumer
        BY OutboxAssumption
      <4>3. held' \in [Worker -> [Event -> Row \cup {NoRow}]]
        BY <3>1, <4>1 DEF Claim, Stage, OutboxTypeOK
      <4>4. /\ cur' \in [Worker -> Event \cup {NoEvent}]
            /\ left' \in [Worker -> SUBSET Consumer]
            /\ todo' \in [Worker -> SUBSET Event]
            /\ pc' \in [Worker -> {"idle", "batch", "row", "driving", "record"}]
        BY <3>1, <4>2 DEF Claim, OutboxTypeOK
      <4>. QED BY <3>1, <4>3, <4>4 DEF Claim, OutboxTypeOK, table
    <3>2. CASE ClaimLost(w, e)
      BY <3>2 DEF ClaimLost, OutboxTypeOK, table, tx
    <3>. QED BY <2>6, <3>1, <3>2
  <2>7. ASSUME NEW c \in Consumer,
               Skip(w, c) \/ Handle(w, c) \/ HandleSlot(w, c) \/ DriveNothing(w, c)
               \/ Drive(w, c) \/ FailTask(w, c) \/ Raise(w, c) \/ RaiseMidway(w, c)
               \/ Poisoned(w, c)
        PROVE  OutboxTypeOK'
    <3>1. cur[w] \in Event
      BY <2>7 DEF InRowEvent, InRow, Skip, Handle, HandleSlot, DriveNothing, Drive, FailTask,
                  Raise, RaiseMidway, Poisoned, Invokable, Dispatchable
    <3>2. CASE Skip(w, c) \/ DriveNothing(w, c)
      <4>1. CASE Skip(w, c)
        BY <4>1 DEF Skip, OutboxTypeOK, table, tx
      <4>2. CASE DriveNothing(w, c)
        BY <4>2 DEF DriveNothing, OutboxTypeOK, table, tx
      <4>. QED BY <3>2, <4>1, <4>2
    <3>3. CASE Handle(w, c) \/ HandleSlot(w, c)
      <4>1. acted' \in [Worker -> SUBSET (Event \X Consumer)]
        BY <3>1, <3>3, PairType DEF Handle, HandleSlot
      <4>2. staged' \in [Worker -> SUBSET (Event \X Consumer)]
        BY <3>1, <3>3, PairType DEF Handle, HandleSlot, OutboxTypeOK
      <4>3. CASE Handle(w, c)
        BY <4>1, <4>2, <4>3 DEF Handle, OutboxTypeOK, table
      <4>4. CASE HandleSlot(w, c)
        BY <4>1, <4>2, <4>4 DEF HandleSlot, OutboxTypeOK, table
      <4>. QED BY <3>3, <4>3, <4>4
    <3>4. CASE Drive(w, c) \/ FailTask(w, c)
      <4>1. /\ row' \in [Event -> Row]
            /\ checkpoint' \in [Event -> [Consumer -> {"none", "fresh", "old"}]]
            /\ effect' \in [Event -> [Consumer -> Nat]]
            /\ moved' \subseteq Event
            /\ errors' \in [Event -> Nat]
        BY <3>1, <3>4, PublishesType DEF Drive, FailTask
      <4>2. CASE Drive(w, c)
        BY <4>1, <4>2 DEF Drive, EmptyTx, NothingHeld, OutboxTypeOK
      <4>3. CASE FailTask(w, c)
        BY <4>1, <4>3 DEF FailTask, EmptyTx, NothingHeld, OutboxTypeOK
      <4>. QED BY <3>4, <4>2, <4>3
    <3>5. CASE Raise(w, c) \/ RaiseMidway(w, c)
      <4>1. /\ staged' \in [Worker -> SUBSET (Event \X Consumer)]
            /\ acted' \in [Worker -> SUBSET (Event \X Consumer)]
        <5>1. CASE Raise(w, c)
          BY <5>1 DEF Raise, Settle, OutboxTypeOK
        <5>2. CASE RaiseMidway(w, c)
          BY <3>1, <5>2, PairType DEF RaiseMidway, OutboxTypeOK
        <5>. QED BY <3>5, <5>1, <5>2
      <4>. QED BY <3>1, <3>5, <4>1, MissedType, SettleType DEF Raise, RaiseMidway, Settle
    <3>6. CASE Poisoned(w, c)
      BY <3>6, RollbackType DEF Poisoned, OutboxTypeOK, table
    <3>. QED BY <2>7, <3>2, <3>3, <3>4, <3>5, <3>6
  <2>. QED BY <1>3, <2>1, <2>2, <2>3, <2>4, <2>5, <2>6, <2>7 DEF Tick
<1>4. CASE UNCHANGED vars
  BY <1>4 DEF OutboxTypeOK, vars, table, tick, tx
<1>. QED BY <1>1, <1>2, <1>3, <1>4 DEF Next, Ageing, Purge

(* Every row, checkpoint and transaction is what its name says. *)
THEOREM OutboxTypeCorrect == Spec => [](OutboxTypeOK /\ InRowEvent)
<1>1. Init => OutboxTypeOK /\ InRowEvent
  BY OutboxAssumption DEF Init, OutboxTypeOK, Row, NothingHeld, InRowEvent, InRow
<1>2. OutboxTypeOK /\ InRowEvent /\ [Next]_vars => (OutboxTypeOK /\ InRowEvent)'
  BY TypeStep, InRowEventStep
<1>. QED BY <1>1, <1>2, PTL DEF Spec

-----------------------------------------------------------------------------
(***************************************************************************)
(* No delivery is lost.  Effects only grow, so what was vouched for stays  *)
(* so; it is enough to look at what the acting worker newly claims.        *)
(***************************************************************************)
Grows == \A e \in Event, c \in Consumer : effect'[e][c] >= effect[e][c]

SameFor(v) ==
    /\ pc'[v] = pc[v] /\ cur'[v] = cur[v] /\ left'[v] = left[v] /\ doing'[v] = doing[v]
    /\ held'[v] = held[v] /\ staged'[v] = staged[v] /\ acted'[v] = acted[v]
    /\ moving'[v] = moving[v]

LEMMA PublishedEffect ==
    ASSUME OutboxTypeOK, NEW w \in Worker, NEW extra, NEW over \in SUBSET Event,
           Publishes(w, extra, over)
    PROVE  /\ Grows
           /\ \A e \in Event, c \in Consumer :
                <<e, c>> \in acted[w] \/ <<e, c>> \in extra => effect'[e][c] >= 1
<1>. SUFFICES ASSUME NEW e \in Event, NEW c \in Consumer
              PROVE  /\ effect'[e][c] >= effect[e][c]
                     /\ <<e, c>> \in acted[w] \/ <<e, c>> \in extra => effect'[e][c] >= 1
  BY DEF Grows
<1>1. effect[e][c] \in Nat
  BY DEF OutboxTypeOK
<1>2. effect'[e][c] = effect[e][c] + (IF <<e, c>> \in acted[w] THEN 1 ELSE 0)
                                   + (IF <<e, c>> \in extra THEN 1 ELSE 0)
  BY DEF Publishes
<1>. QED BY <1>1, <1>2

LEMMA StaysDelivered ==
    ASSUME OutboxTypeOK, OutboxTypeOK', Grows, NEW e \in Event, NEW c \in Consumer,
           effect[e][c] >= 1
    PROVE  effect'[e][c] >= 1
<1>1. effect[e][c] \in Nat /\ effect'[e][c] \in Nat
  BY DEF OutboxTypeOK
<1>. QED BY <1>1 DEF Grows

LEMMA TasksStay ==
    ASSUME OutboxTypeOK, OutboxTypeOK', Grows, NEW tasks \in SUBSET Event, TasksVouched(tasks)
    PROVE  TasksVouched(tasks)'
<1>1. \A e \in Event : HandlersOf[e] \subseteq Consumer
  BY OutboxAssumption
<1>2. ASSUME NEW e \in tasks', NEW c \in HandlersOf[e] \cap Driver PROVE effect'[e][c] >= 1
  <2>1. e \in Event /\ c \in Consumer /\ effect[e][c] >= 1
    BY <1>1, <1>2 DEF TasksVouched
  <2>. QED BY <2>1, StaysDelivered
<1>. QED BY <1>2 DEF TasksVouched

LEMMA OthersVouched ==
    ASSUME OutboxTypeOK, OutboxTypeOK', Grows, NEW v \in Worker, SameFor(v), WorkerVouched(v)
    PROVE  WorkerVouched(v)'
<1>0. \A e \in Event : HandlersOf[e] \subseteq Consumer
  BY OutboxAssumption
<1>1. ASSUME NEW e \in Event, NEW c \in Consumer, Delivered(v, e, c)
      PROVE  Delivered(v, e, c)'
  BY <1>1, StaysDelivered DEF Delivered, SameFor
<1>2. PairsVouched(v)'
  <2>. SUFFICES ASSUME NEW p \in staged[v] PROVE Delivered(v, p[1], p[2])'
    BY DEF PairsVouched, SameFor
  <2>1. p[1] \in Event /\ p[2] \in Consumer
    BY DEF OutboxTypeOK
  <2>2. Delivered(v, p[1], p[2])
    BY DEF WorkerVouched, PairsVouched
  <2>. QED BY <1>1, <2>1, <2>2
<1>3. RowsVouched(v)'
  <2>. SUFFICES ASSUME NEW e \in Event, Holds(v, e), held[v][e].status \in {"done", "purged"},
                       NEW c \in HandlersOf[e]
                PROVE  Delivered(v, e, c)'
    BY DEF RowsVouched, SameFor, Holds
  <2>. QED BY <1>0, <1>1 DEF WorkerVouched, RowsVouched
<1>4. TickVouched(v)'
  <2>. SUFFICES ASSUME InRow(v)
                PROVE  (/\ cur[v] \in Event /\ left[v] \subseteq HandlersOf[cur[v]]
                        /\ \A c \in HandlersOf[cur[v]] \ left[v] :
                              effect'[cur[v]][c] >= 1 \/ <<cur[v], c>> \in acted[v]
                        /\ pc[v] # "row" =>
                              /\ doing[v] \in Consumer
                              /\ effect'[cur[v]][doing[v]] >= 1 \/ <<cur[v], doing[v]>> \in acted[v]
                        /\ pc[v] = "driving" => /\ doing[v] \in HandlersOf[cur[v]] \cap Driver
                                                /\ effect'[cur[v]][doing[v]] >= 1)
    BY DEF TickVouched, SameFor, InRow, Delivered
  <2>1. TickVouched(v)
    BY DEF WorkerVouched
  <2>2. cur[v] \in Event /\ left[v] \subseteq HandlersOf[cur[v]]
    BY <2>1 DEF TickVouched
  <2>3. \A c \in Consumer : effect[cur[v]][c] >= 1 => effect'[cur[v]][c] >= 1
    BY <2>2, StaysDelivered
  <2>. QED BY <1>0, <2>1, <2>2, <2>3 DEF TickVouched, Delivered
<1>5. TasksVouched(moving[v])'
  <2>1. moving[v] \in SUBSET Event /\ TasksVouched(moving[v])
    BY DEF OutboxTypeOK, WorkerVouched
  <2>. QED BY <2>1, TasksStay DEF TasksVouched, SameFor
<1>. QED BY <1>2, <1>3, <1>4, <1>5 DEF WorkerVouched

(* The acting worker w leaves the tables alone; what it may vouch for      *)
(* grows with acted.                                                       *)
LEMMA QuietStep ==
    ASSUME OutboxTypeOK, OutboxTypeOK', Vouched, NEW w \in Worker, UNCHANGED table,
           \A v \in Worker \ {w} : SameFor(v), WorkerVouched(w)'
    PROVE  Vouched'
<1>1. Grows
  BY DEF Grows, table, OutboxTypeOK
<1>2. ASSUME NEW v \in Worker PROVE WorkerVouched(v)'
  BY <1>1, OthersVouched DEF Vouched
<1>3. CheckpointVouches' /\ DoneIsDelivered' /\ TasksVouched(moved)'
  BY DEF Vouched, CheckpointVouches, DoneIsDelivered, TasksVouched, table
<1>. QED BY <1>2, <1>3 DEF Vouched

(* A transaction that is rolled back vouches for nothing. *)
LEMMA RolledBack ==
    ASSUME OutboxTypeOK, NEW w \in Worker, Rollback(w)
    PROVE  /\ WorkerVouched(w)'
           /\ \A v \in Worker \ {w} : SameFor(v)
<1>1. WorkerVouched(w)'
  BY DEF Rollback, EmptyTx, EndTick, WorkerVouched, PairsVouched, RowsVouched, TickVouched,
         TasksVouched, InRow, NothingHeld, Holds, OutboxTypeOK
<1>2. \A v \in Worker \ {w} : SameFor(v)
  BY DEF Rollback, EmptyTx, EndTick, SameFor, OutboxTypeOK
<1>. QED BY <1>1, <1>2

(* A committed transaction makes good what it vouched for. *)
LEMMA Committed ==
    ASSUME OutboxTypeOK, OutboxTypeOK', Vouched, NEW w \in Worker, NEW extra,
           NEW over \in SUBSET Event, Publishes(w, extra, over),
           \A e \in over : \A c \in HandlersOf[e] \cap Driver : <<e, c>> \in extra
    PROVE  /\ Grows
           /\ CheckpointVouches' /\ DoneIsDelivered' /\ TasksVouched(moved)'
<1>1. Grows
  BY PublishedEffect
<1>2. ASSUME NEW e \in Event, NEW c \in Consumer, Delivered(w, e, c)
      PROVE  effect'[e][c] >= 1
  BY <1>1, <1>2, PublishedEffect, StaysDelivered DEF Delivered
<1>3. CheckpointVouches'
  <2>. SUFFICES ASSUME NEW e \in Event, NEW c \in Consumer, checkpoint'[e][c] # "none"
                PROVE  effect'[e][c] >= 1
    BY DEF CheckpointVouches
  <2>1. CASE <<e, c>> \in staged[w]
    <3>1. Delivered(w, e, c)
      BY <2>1 DEF Vouched, WorkerVouched, PairsVouched
    <3>. QED BY <1>2, <3>1
  <2>2. CASE <<e, c>> \notin staged[w]
    <3>1. checkpoint[e][c] # "none"
      BY <2>2 DEF Publishes
    <3>2. effect[e][c] >= 1
      BY <3>1 DEF Vouched, CheckpointVouches
    <3>. QED BY <1>1, <3>2, StaysDelivered
  <2>. QED BY <2>1, <2>2
<1>4. DoneIsDelivered'
  <2>. SUFFICES ASSUME NEW e \in Event, row'[e].status \in {"done", "purged"},
                       NEW c \in HandlersOf[e]
                PROVE  effect'[e][c] >= 1
    BY DEF DoneIsDelivered
  <2>0. c \in Consumer
    BY OutboxAssumption
  <2>1. CASE Holds(w, e)
    <3>1. row'[e] = held[w][e]
      BY <2>1 DEF Publishes
    <3>2. Delivered(w, e, c)
      BY <2>1, <3>1 DEF Vouched, WorkerVouched, RowsVouched
    <3>. QED BY <1>2, <2>0, <3>2
  <2>2. CASE ~Holds(w, e)
    <3>1. row'[e] = row[e]
      BY <2>2 DEF Publishes
    <3>2. effect[e][c] >= 1
      BY <3>1 DEF Vouched, DoneIsDelivered
    <3>. QED BY <1>1, <2>0, <3>2, StaysDelivered
  <2>. QED BY <2>1, <2>2
<1>5. TasksVouched(moved)'
  <2>1. TasksVouched(moved \cup moving[w])
    BY DEF Vouched, WorkerVouched, TasksVouched
  <2>2. moved \cup moving[w] \in SUBSET Event
    BY DEF OutboxTypeOK
  <2>3. \A e \in moved \cup moving[w] : \A c \in HandlersOf[e] \cap Driver : effect'[e][c] >= 1
    <3>. SUFFICES ASSUME NEW e \in moved \cup moving[w], NEW c \in HandlersOf[e] \cap Driver
                  PROVE  effect'[e][c] >= 1
      OBVIOUS
    <3>1. e \in Event /\ c \in Consumer /\ effect[e][c] >= 1
      BY <2>1, <2>2, OutboxAssumption DEF TasksVouched
    <3>. QED BY <1>1, <3>1, StaysDelivered
  <2>4. \A e \in over : \A c \in HandlersOf[e] \cap Driver : effect'[e][c] >= 1
    BY PublishedEffect, OutboxAssumption
  <2>. QED BY <2>3, <2>4 DEF TasksVouched, Publishes
<1>. QED BY <1>1, <1>3, <1>4, <1>5

(* What the acting worker needs, when its row, its checkpoints and its     *)
(* moves are as before: what it says of the row it works on.               *)
LEMMA SameTx ==
    ASSUME OutboxTypeOK, Vouched, NEW w \in Worker,
           UNCHANGED effect, held'[w] = held[w], staged'[w] = staged[w],
           acted[w] \subseteq acted'[w], moving'[w] = moving[w], TickVouched(w)'
    PROVE  WorkerVouched(w)'
<1>1. WorkerVouched(w)
  BY DEF Vouched
<1>2. PairsVouched(w)'
  BY <1>1 DEF WorkerVouched, PairsVouched, Delivered
<1>3. RowsVouched(w)'
  BY <1>1 DEF WorkerVouched, RowsVouched, Delivered, Holds
<1>4. TasksVouched(moving[w])'
  BY <1>1 DEF WorkerVouched, TasksVouched
<1>. QED BY <1>2, <1>3, <1>4 DEF WorkerVouched

(* A row that is settled as done has been delivered. *)
LEMMA SettleVouched ==
    ASSUME OutboxTypeOK, OutboxTypeOK', Vouched, NEW w \in Worker, cur[w] \in Event,
           NEW r \in Row, SettleRow(w, r), UNCHANGED staged, acted[w] \subseteq acted'[w],
           \A v \in Worker \ {w} : acted'[v] = acted[v],
           r.status \in {"done", "purged"} => \A c \in HandlersOf[cur[w]] : Delivered(w, cur[w], c)
    PROVE  Vouched'
<1>1. WorkerVouched(w)
  BY DEF Vouched
<1>2. RowsVouched(w)'
  <2>. SUFFICES ASSUME NEW e \in Event, held'[w][e] # NoRow,
                       held'[w][e].status \in {"done", "purged"}, NEW c \in HandlersOf[e]
                PROVE  Delivered(w, e, c)
    BY DEF RowsVouched, Holds, Delivered, SettleRow, table
  <2>1. CASE e = cur[w]
    <3>1. held'[w][e] = r
      BY <2>1 DEF SettleRow, Stage, OutboxTypeOK
    <3>. QED BY <2>1, <3>1
  <2>2. CASE e # cur[w]
    <3>1. held'[w][e] = held[w][e]
      BY <2>2 DEF SettleRow, Stage, OutboxTypeOK
    <3>. QED BY <1>1, <3>1 DEF WorkerVouched, RowsVouched, Holds
  <2>. QED BY <2>1, <2>2
<1>3. PairsVouched(w)' /\ TasksVouched(moving[w])'
  BY <1>1 DEF WorkerVouched, PairsVouched, TasksVouched, Delivered, SettleRow, table
<1>4. TickVouched(w)'
  BY DEF SettleRow, TickVouched, InRow, OutboxTypeOK
<1>5. WorkerVouched(w)'
  BY <1>2, <1>3, <1>4 DEF WorkerVouched
<1>6. \A v \in Worker \ {w} : SameFor(v)
  BY DEF SettleRow, Stage, SameFor, OutboxTypeOK
<1>. QED BY <1>5, <1>6, QuietStep DEF SettleRow

LEMMA VouchedStep ==
    ASSUME SlotsRaiseFirst, OutboxTypeOK, OutboxTypeOK', InRowEvent, Vouched, [Next]_vars
    PROVE  Vouched'
<1>1. CASE \E e \in Event : Publish(e) \/ Timer(e) \/ Ageing(e) \/ Purge(e) \/ Replay(e)
  <2>1. UNCHANGED <<effect, moved, tick, tx>>
    BY <1>1 DEF Publish, Timer, BackoffEnds, LeaseEnds, Ageing, RowAges, CheckpointAges,
                Purge, PurgeRow, PurgeCheckpoint, Replay
  <2>2. \A e \in Event, c \in Consumer : checkpoint'[e][c] # "none" => checkpoint[e][c] # "none"
    <3>1. CASE \E e \in Event, c \in Consumer : CheckpointAges(e, c) \/ PurgeCheckpoint(e, c)
      <4>1. PICK e \in Event, c \in Consumer : CheckpointAges(e, c) \/ PurgeCheckpoint(e, c)
        BY <3>1
      <4>2. checkpoint[e][c] # "none"
        BY <4>1 DEF CheckpointAges, PurgeCheckpoint
      <4>3. \E k \in {"none", "old"} : checkpoint' = [checkpoint EXCEPT ![e][c] = k]
        BY <4>1 DEF CheckpointAges, PurgeCheckpoint
      <4>. QED BY <4>2, <4>3 DEF OutboxTypeOK
    <3>2. CASE \E e \in Event : Publish(e) \/ Timer(e) \/ RowAges(e) \/ PurgeRow(e) \/ Replay(e)
      BY <3>2 DEF Publish, Timer, BackoffEnds, LeaseEnds, RowAges, PurgeRow, Replay
    <3>. QED BY <1>1, <3>1, <3>2 DEF Ageing, Purge
  <2>3. \A e \in Event : row'[e].status \in {"done", "purged"}
                          => row[e].status \in {"done", "purged"}
    <3>1. ASSUME NEW e \in Event, Publish(e) \/ Timer(e) \/ RowAges(e) \/ PurgeRow(e) \/ Replay(e)
          PROVE  \A d \in Event : row'[d].status \in {"done", "purged"}
                                    => row[d].status \in {"done", "purged"}
      <4>1. row \in [Event -> Row]
        BY DEF OutboxTypeOK
      <4>2. CASE Publish(e)
        BY <4>1, <4>2 DEF Publish, Row
      <4>3. CASE Timer(e)
        BY <4>1, <4>3 DEF Timer, BackoffEnds, LeaseEnds, Row
      <4>4. CASE RowAges(e) \/ PurgeRow(e)
        BY <4>1, <4>4 DEF RowAges, PurgeRow, Row
      <4>5. CASE Replay(e)
        BY <4>1, <4>5 DEF Replay, Row
      <4>. QED BY <3>1, <4>2, <4>3, <4>4, <4>5
    <3>2. CASE \E e \in Event, c \in Consumer : CheckpointAges(e, c) \/ PurgeCheckpoint(e, c)
      BY <3>2 DEF CheckpointAges, PurgeCheckpoint
    <3>. QED BY <1>1, <3>1, <3>2 DEF Ageing, Purge
  <2>4. CheckpointVouches' /\ DoneIsDelivered' /\ TasksVouched(moved)'
    BY <2>1, <2>2, <2>3 DEF Vouched, CheckpointVouches, DoneIsDelivered, TasksVouched
  <2>5. ASSUME NEW v \in Worker PROVE WorkerVouched(v)'
    <3>1. Grows /\ SameFor(v)
      BY <2>1 DEF Grows, SameFor, tick, tx, OutboxTypeOK
    <3>. QED BY <3>1, OthersVouched DEF Vouched
  <2>. QED BY <2>4, <2>5 DEF Vouched
<1>2. ASSUME NEW w \in Worker, Tick(w) \/ DeadlockVictim(w) \/ TickFails(w)
      PROVE  Vouched'
  <2>0. WorkerVouched(w) /\ \A e \in Event : HandlersOf[e] \subseteq Consumer
    BY OutboxAssumption DEF Vouched
  <2>1. CASE List(w)
    <3>1. TickVouched(w)'
      BY <2>1 DEF List, TickVouched, InRow, OutboxTypeOK
    <3>2. WorkerVouched(w)'
      BY <2>1, <3>1, SameTx DEF List, table, tx
    <3>3. \A v \in Worker \ {w} : SameFor(v)
      BY <2>1 DEF List, SameFor, tx, OutboxTypeOK
    <3>. QED BY <2>1, <3>2, <3>3, QuietStep DEF List
  <2>2. CASE PollNothing(w)
    <3>1. \A v \in Worker : SameFor(v)
      BY <2>2 DEF PollNothing, vars, tick, tx, SameFor
    <3>2. TickVouched(w)'
      BY <2>0, <2>2 DEF WorkerVouched, TickVouched, InRow, Delivered, PollNothing, vars, table,
                        tick, tx
    <3>3. WorkerVouched(w)'
      BY <2>2, <3>2, SameTx DEF PollNothing, vars, table, tx
    <3>. QED BY <2>2, <3>1, <3>3, QuietStep DEF PollNothing, vars
  <2>3. CASE Refuse(w)
    <3>1. cur[w] \in Event
      BY <2>3 DEF Refuse, InRowEvent, InRow
    <3>2. Current(w, cur[w]) \in Row /\ Failed(Current(w, cur[w])) \in Row
      BY <3>1, RowForms
    <3>3. Failed(Current(w, cur[w])).status = "failed"
      BY <3>2 DEF Failed, Row
    <3>. QED BY <2>3, <3>1, <3>2, <3>3, SettleVouched DEF Refuse, Settle
  <2>4. CASE Finish(w)
    <3>1. cur[w] \in Event
      BY <2>4 DEF Finish, InRowEvent, InRow
    <3>2. Done(Current(w, cur[w])) \in Row
      BY <3>1, RowForms
    <3>3. \A c \in HandlersOf[cur[w]] : Delivered(w, cur[w], c)
      BY <2>0, <2>4 DEF Finish, WorkerVouched, TickVouched, InRow
    <3>. QED BY <2>4, <3>1, <3>2, <3>3, SettleVouched DEF Finish, Settle
  <2>5. CASE MoveTask(w)
    <3>1. /\ cur[w] \in Event /\ doing[w] \in HandlersOf[cur[w]] \cap Driver
          /\ effect[cur[w]][doing[w]] >= 1
      BY <2>0, <2>5 DEF MoveTask, WorkerVouched, TickVouched, InRow
    <3>2. TasksVouched(moving[w] \cup {cur[w]})
      BY <2>0, <3>1, OutboxAssumption DEF WorkerVouched, TasksVouched
    <3>3. TasksVouched(moving[w])'
      BY <2>5, <3>2 DEF MoveTask, TasksVouched, OutboxTypeOK, table
    <3>4. TickVouched(w)'
      BY <2>0, <2>5 DEF MoveTask, WorkerVouched, TickVouched, InRow, Delivered, OutboxTypeOK, table
    <3>5. PairsVouched(w)' /\ RowsVouched(w)'
      BY <2>0, <2>5 DEF MoveTask, WorkerVouched, PairsVouched, RowsVouched, Delivered, Holds, table
    <3>6. \A v \in Worker \ {w} : SameFor(v)
      BY <2>5 DEF MoveTask, SameFor, OutboxTypeOK
    <3>. QED BY <2>5, <3>3, <3>4, <3>5, <3>6, QuietStep DEF MoveTask, WorkerVouched
  <2>6. CASE Record(w)
    <3>1. /\ cur[w] \in Event /\ doing[w] \in Consumer /\ Delivered(w, cur[w], doing[w])
          /\ left[w] \subseteq HandlersOf[cur[w]]
          /\ \A c \in HandlersOf[cur[w]] \ left[w] : Delivered(w, cur[w], c)
      BY <2>0, <2>6 DEF Record, WorkerVouched, TickVouched, InRow
    <3>2. staged'[w] \subseteq staged[w] \cup {<<cur[w], doing[w]>>}
      BY <2>6 DEF Record, Stages, OutboxTypeOK
    <3>3. PairsVouched(w)'
      <4>. SUFFICES ASSUME NEW p \in staged'[w] PROVE Delivered(w, p[1], p[2])
        BY <2>6 DEF PairsVouched, Delivered, Record, table
      <4>. QED BY <2>0, <3>1, <3>2 DEF WorkerVouched, PairsVouched
    <3>4. TickVouched(w)'
      <4>1. /\ pc'[w] = "row" /\ cur'[w] = cur[w] /\ left'[w] = left[w] \ {doing[w]}
            /\ acted' = acted /\ effect' = effect
        BY <2>6 DEF Record, OutboxTypeOK, table
      <4>2. \A c \in HandlersOf[cur[w]] \ left'[w] : Delivered(w, cur[w], c)
        BY <3>1, <4>1
      <4>. QED BY <3>1, <4>1, <4>2 DEF TickVouched, Delivered
    <3>5. RowsVouched(w)' /\ TasksVouched(moving[w])'
      BY <2>0, <2>6 DEF Record, WorkerVouched, RowsVouched, TasksVouched, Delivered, Holds, table
    <3>6. \A v \in Worker \ {w} : SameFor(v)
      BY <2>6 DEF Record, Stages, SameFor, OutboxTypeOK
    <3>. QED BY <2>6, <3>3, <3>4, <3>5, <3>6, QuietStep DEF Record, WorkerVouched
  <2>7. CASE Commit(w)
    <3>1. Grows /\ CheckpointVouches' /\ DoneIsDelivered' /\ TasksVouched(moved)'
      BY <2>7, Committed DEF Commit
    <3>2. WorkerVouched(w)' /\ \A v \in Worker \ {w} : SameFor(v)
      BY <2>7, RolledBack DEF Commit
    <3>3. ASSUME NEW v \in Worker PROVE WorkerVouched(v)'
      BY <3>1, <3>2, OthersVouched DEF Vouched
    <3>. QED BY <3>1, <3>3 DEF Vouched
  <2>8. CASE DeadlockVictim(w) \/ TickFails(w)
    BY <2>8, RolledBack, QuietStep DEF DeadlockVictim, TickFails
  <2>9. ASSUME NEW e \in Event, Claim(w, e) PROVE Vouched'
    <3>1. row[e] \in Row /\ Claimed(e) \in Row
      BY RowForms DEF OutboxTypeOK
    <3>2. Claimed(e).status = "processing"
      BY <3>1 DEF Claimed, Row
    <3>3. RowsVouched(w)'
      <4>. SUFFICES ASSUME NEW d \in Event, held'[w][d] # NoRow,
                           held'[w][d].status \in {"done", "purged"}, NEW c \in HandlersOf[d]
                    PROVE  Delivered(w, d, c)
        BY <2>9 DEF RowsVouched, Holds, Delivered, Claim, table
      <4>1. d # e
        BY <2>9, <3>2 DEF Claim, Stage, OutboxTypeOK
      <4>2. held'[w][d] = held[w][d]
        BY <2>9, <4>1 DEF Claim, Stage, OutboxTypeOK
      <4>. QED BY <2>0, <4>2 DEF WorkerVouched, RowsVouched, Holds
    <3>4. TickVouched(w)'
      <4>1. pc'[w] = "row" /\ cur'[w] = e /\ left'[w] = HandlersOf[e]
        BY <2>9 DEF Claim, OutboxTypeOK
      <4>. QED BY <4>1 DEF TickVouched
    <3>5. PairsVouched(w)' /\ TasksVouched(moving[w])'
      BY <2>0, <2>9 DEF Claim, WorkerVouched, PairsVouched, TasksVouched, Delivered, table
    <3>6. \A v \in Worker \ {w} : SameFor(v)
      BY <2>9 DEF Claim, Stage, SameFor, OutboxTypeOK
    <3>. QED BY <2>9, <3>3, <3>4, <3>5, <3>6, QuietStep DEF Claim, WorkerVouched
  <2>10. ASSUME NEW e \in Event, ClaimLost(w, e) PROVE Vouched'
    <3>1. TickVouched(w)'
      BY <2>10 DEF ClaimLost, TickVouched, InRow
    <3>2. WorkerVouched(w)'
      BY <2>10, <3>1, SameTx DEF ClaimLost, table, tx
    <3>3. \A v \in Worker \ {w} : SameFor(v)
      BY <2>10 DEF ClaimLost, SameFor, tx
    <3>. QED BY <2>10, <3>2, <3>3, QuietStep DEF ClaimLost
  <2>11. ASSUME NEW c \in Consumer,
                Skip(w, c) \/ Handle(w, c) \/ HandleSlot(w, c) \/ Drive(w, c) \/ FailTask(w, c)
                \/ DriveNothing(w, c) \/ Raise(w, c) \/ RaiseMidway(w, c) \/ Poisoned(w, c)
         PROVE  Vouched'
    <3>1. pc[w] = "row" /\ c \in left[w]
      BY <2>11 DEF Skip, Handle, HandleSlot, Drive, FailTask, DriveNothing, Raise, RaiseMidway,
                   Poisoned, Invokable, Dispatchable
    <3>2. /\ cur[w] \in Event /\ left[w] \subseteq HandlersOf[cur[w]]
          /\ \A d \in HandlersOf[cur[w]] \ left[w] : Delivered(w, cur[w], d)
      BY <2>0, <3>1 DEF WorkerVouched, TickVouched, InRow
    <3>3. CASE Skip(w, c)
      <4>1. Delivered(w, cur[w], c)
        <5>1. CASE checkpoint[cur[w]][c] # "none"
          BY <3>2, <5>1 DEF Vouched, CheckpointVouches, Delivered
        <5>2. CASE <<cur[w], c>> \in staged[w]
          BY <2>0, <5>2 DEF WorkerVouched, PairsVouched
        <5>. QED BY <3>3, <5>1, <5>2 DEF Skip, IsProcessed
      <4>2. /\ pc'[w] = "row" /\ cur'[w] = cur[w] /\ left'[w] = left[w] \ {c}
            /\ acted' = acted /\ effect' = effect
        BY <3>1, <3>3 DEF Skip, OutboxTypeOK, table, tx
      <4>3. TickVouched(w)'
        BY <3>2, <4>1, <4>2 DEF TickVouched, Delivered
      <4>4. WorkerVouched(w)'
        BY <3>3, <4>3, SameTx DEF Skip, table, tx
      <4>5. \A v \in Worker \ {w} : SameFor(v)
        BY <3>3 DEF Skip, SameFor, tx, OutboxTypeOK
      <4>. QED BY <3>3, <4>4, <4>5, QuietStep DEF Skip
    <3>4. CASE Handle(w, c) \/ HandleSlot(w, c)
      <4>1. /\ pc'[w] = "record" /\ cur'[w] = cur[w] /\ left'[w] = left[w] /\ doing'[w] = c
            /\ acted'[w] = acted[w] \cup {<<cur[w], c>>} /\ UNCHANGED <<table, held, moving>>
            /\ staged'[w] \subseteq staged[w] \cup {<<cur[w], c>>}
        BY <3>4 DEF Handle, HandleSlot, Acts, Stages, OutboxTypeOK
      <4>2. TickVouched(w)'
        BY <3>2, <4>1 DEF TickVouched, Delivered, table
      <4>3. PairsVouched(w)'
        <5>. SUFFICES ASSUME NEW p \in staged'[w]
                      PROVE  effect[p[1]][p[2]] >= 1 \/ <<p[1], p[2]>> \in acted'[w]
          BY <4>1 DEF PairsVouched, Delivered, table
        <5>. QED BY <2>0, <4>1 DEF WorkerVouched, PairsVouched, Delivered
      <4>4. RowsVouched(w)' /\ TasksVouched(moving[w])'
        BY <2>0, <4>1 DEF WorkerVouched, RowsVouched, TasksVouched, Delivered, Holds, table
      <4>5. \A v \in Worker \ {w} : SameFor(v)
        BY <3>4 DEF Handle, HandleSlot, Acts, Stages, SameFor, OutboxTypeOK
      <4>. QED BY <4>1, <4>2, <4>3, <4>4, <4>5, QuietStep DEF WorkerVouched
    <3>5. CASE Drive(w, c)
      <4>1. Grows /\ CheckpointVouches' /\ DoneIsDelivered' /\ TasksVouched(moved)'
        BY <3>5, Committed DEF Drive
      <4>2. \A v \in Worker \ {w} : SameFor(v)
        BY <3>5 DEF Drive, EmptyTx, SameFor, OutboxTypeOK
      <4>3. /\ pc'[w] = "driving" /\ cur'[w] = cur[w] /\ left'[w] = left[w] /\ doing'[w] = c
            /\ c \in Driver
        BY <3>5 DEF Drive, OutboxTypeOK
      <4>4. \A d \in Consumer : Delivered(w, cur[w], d) \/ d = c => effect'[cur[w]][d] >= 1
        BY <3>2, <3>5, <4>1, PublishedEffect, StaysDelivered DEF Drive, Delivered
      <4>5. TickVouched(w)'
        BY <2>0, <3>1, <3>2, <4>3, <4>4 DEF TickVouched, Delivered
      <4>6. held'[w] = NothingHeld /\ staged'[w] = {} /\ moving'[w] = {}
        BY <3>5 DEF Drive, EmptyTx, OutboxTypeOK
      <4>7. PairsVouched(w)' /\ RowsVouched(w)' /\ TasksVouched(moving[w])'
        BY <4>6 DEF PairsVouched, RowsVouched, TasksVouched, Holds, NothingHeld
      <4>8. WorkerVouched(w)'
        BY <4>5, <4>7 DEF WorkerVouched
      <4>9. ASSUME NEW v \in Worker PROVE WorkerVouched(v)'
        BY <4>1, <4>2, <4>8, OthersVouched DEF Vouched
      <4>. QED BY <4>1, <4>9 DEF Vouched
    <3>6. CASE DriveNothing(w, c)
      <4>1. c \in HandlersOf[cur[w]] \cap Driver
        BY <3>1, <3>2, <3>6 DEF DriveNothing
      <4>2. effect[cur[w]][c] >= 1
        BY <2>0, <3>6, <4>1 DEF DriveNothing, Vouched, WorkerVouched, TasksVouched
      <4>3. /\ pc'[w] = "record" /\ cur'[w] = cur[w] /\ left'[w] = left[w] /\ doing'[w] = c
            /\ acted' = acted /\ effect' = effect
        BY <3>6 DEF DriveNothing, OutboxTypeOK, table, tx
      <4>4. TickVouched(w)'
        BY <3>2, <4>2, <4>3 DEF TickVouched, Delivered
      <4>5. WorkerVouched(w)'
        BY <3>6, <4>3, <4>4, SameTx DEF DriveNothing, tx
      <4>6. \A v \in Worker \ {w} : SameFor(v)
        BY <3>6 DEF DriveNothing, SameFor, tx, OutboxTypeOK
      <4>. QED BY <3>6, <4>5, <4>6, QuietStep DEF DriveNothing
    <3>7. CASE FailTask(w, c)
      <4>0. \A d \in HandlersOf[cur[w]] \cap Driver : d = c
        BY <3>1, <3>2, <3>7, OutboxAssumption DEF FailTask
      <4>1. Grows /\ CheckpointVouches' /\ DoneIsDelivered' /\ TasksVouched(moved)'
        BY <3>2, <3>7, <4>0, Committed DEF FailTask
      <4>2. \A v \in Worker \ {w} : SameFor(v)
        BY <3>7 DEF FailTask, EmptyTx, SameFor, OutboxTypeOK
      <4>3. /\ pc'[w] = "record" /\ cur'[w] = cur[w] /\ left'[w] = left[w] /\ doing'[w] = c
        BY <3>7 DEF FailTask, OutboxTypeOK
      <4>4. \A d \in Consumer : Delivered(w, cur[w], d) \/ d = c => effect'[cur[w]][d] >= 1
        BY <3>2, <3>7, <4>1, PublishedEffect, StaysDelivered DEF FailTask, Delivered
      <4>5. TickVouched(w)'
        BY <2>0, <3>2, <4>3, <4>4 DEF TickVouched, Delivered
      <4>6. held'[w] = NothingHeld /\ staged'[w] = {} /\ moving'[w] = {}
        BY <3>7 DEF FailTask, EmptyTx, OutboxTypeOK
      <4>7. PairsVouched(w)' /\ RowsVouched(w)' /\ TasksVouched(moving[w])'
        BY <4>6 DEF PairsVouched, RowsVouched, TasksVouched, Holds, NothingHeld
      <4>8. WorkerVouched(w)'
        BY <4>5, <4>7 DEF WorkerVouched
      <4>9. ASSUME NEW v \in Worker PROVE WorkerVouched(v)'
        BY <4>1, <4>2, <4>8, OthersVouched DEF Vouched
      <4>. QED BY <4>1, <4>9 DEF Vouched
    <3>8. CASE Raise(w, c) \/ RaiseMidway(w, c)
      <4>1. SettleRow(w, Missed(w)) /\ UNCHANGED staged
        BY <3>8 DEF Raise, RaiseMidway, Settle, SlotsRaiseFirst
      <4>2. acted[w] \subseteq acted'[w] /\ \A v \in Worker \ {w} : acted'[v] = acted[v]
        BY <3>8 DEF Raise, RaiseMidway, Settle, Acts, OutboxTypeOK
      <4>. QED BY <3>2, <4>1, <4>2, MissedType, SettleVouched
    <3>9. CASE Poisoned(w, c)
      BY <3>9, RolledBack, QuietStep DEF Poisoned
    <3>. QED BY <2>11, <3>3, <3>4, <3>5, <3>6, <3>7, <3>8, <3>9
  <2>. QED
    BY <1>2, <2>1, <2>2, <2>3, <2>4, <2>5, <2>6, <2>7, <2>8, <2>9, <2>10, <2>11 DEF Tick
<1>3. CASE UNCHANGED vars
  <2>1. UNCHANGED <<table, tick, tx>>
    BY <1>3 DEF vars
  <2>2. Grows
    BY <2>1 DEF Grows, table, OutboxTypeOK
  <2>3. ASSUME NEW v \in Worker PROVE WorkerVouched(v)'
    <3>1. SameFor(v)
      BY <2>1 DEF SameFor, tick, tx
    <3>. QED BY <2>2, <3>1, OthersVouched DEF Vouched
  <2>4. CheckpointVouches' /\ DoneIsDelivered' /\ TasksVouched(moved)'
    BY <2>1 DEF Vouched, CheckpointVouches, DoneIsDelivered, TasksVouched, table
  <2>. QED BY <2>3, <2>4 DEF Vouched
<1>. QED BY <1>1, <1>2, <1>3 DEF Next

LEMMA VouchedInit ==
    ASSUME Init
    PROVE  Vouched
BY DEF Init, Vouched, CheckpointVouches, DoneIsDelivered, TasksVouched, WorkerVouched, PairsVouched,
       RowsVouched, TickVouched, InRow, Holds, NothingHeld

LEMMA VouchedCorrect ==
    ASSUME SlotsRaiseFirst
    PROVE  Spec => []Vouched
<1>1. Init => Vouched
  BY VouchedInit
<1>2. /\ OutboxTypeOK /\ OutboxTypeOK' /\ InRowEvent /\ Vouched /\ [Next]_vars
      => Vouched'
  BY VouchedStep
<1>. QED BY <1>1, <1>2, OutboxTypeCorrect, PTL DEF Spec

(* No delivery is lost: a finished row was delivered to every consumer,    *)
(* provided that none raises between its own checkpoint and its writes.    *)
THEOREM DeliveryNotLost ==
    ASSUME SlotsRaiseFirst
    PROVE  Spec => []DoneIsDelivered
<1>1. Vouched => DoneIsDelivered
  BY DEF Vouched
<1>. QED BY <1>1, VouchedCorrect, PTL

(* Who is skipped because of a checkpoint has had its effect. *)
THEOREM CheckpointsVouch ==
    ASSUME SlotsRaiseFirst
    PROVE  Spec => []CheckpointVouches
<1>1. Vouched => CheckpointVouches
  BY DEF Vouched
<1>. QED BY <1>1, VouchedCorrect, PTL

-----------------------------------------------------------------------------
(***************************************************************************)
(* A consumer's writes are committed once, while no row outlives the       *)
(* checkpoints that vouch for it.  Exclusive, taken apart: what binds two  *)
(* workers, and what each says of its own tick.                            *)
(***************************************************************************)
Apart == \A v, w \in Worker, e \in Plain : Holds(v, e) /\ Holds(w, e) => v = w

Marked(w, e, c) == <<e, c>> \in staged[w] \/ (pc[w] = "record" /\ cur[w] = e /\ doing[w] = c)

Mine(w) ==
    /\ InRow(w) /\ cur[w] \in Plain => Holds(w, cur[w])
    /\ \A e \in Plain : Holds(w, e) => row[e].status \in {"pending", "processing"}
    /\ \A e \in Plain, c \in Consumer : <<e, c>> \in staged[w] => Holds(w, e)
    /\ \A e \in Plain, c \in Consumer : <<e, c>> \in acted[w] =>
          /\ Holds(w, e) /\ effect[e][c] = 0 /\ checkpoint[e][c] = "none"
          /\ Marked(w, e, c)

LEMMA ExclusiveParts ==
    Exclusive <=> Apart /\ EffectMarked /\ AppliedOnce /\ \A w \in Worker : Mine(w)
BY DEF Exclusive, LockHeld, ActedOnce, StagedHeld, Apart, Mine, Marked

(* Outside of the step between a consumer and its checkpoint, what was     *)
(* acted on is checkpointed.                                               *)
LEMMA MineSettled ==
    ASSUME NEW w \in Worker, Mine(w), pc[w] # "record", NEW e \in Plain, NEW c \in Consumer
    PROVE  /\ <<e, c>> \in staged[w] => Holds(w, e)
           /\ <<e, c>> \in acted[w] =>
                 /\ Holds(w, e) /\ effect[e][c] = 0 /\ checkpoint[e][c] = "none"
                 /\ <<e, c>> \in staged[w]
BY DEF Mine, Marked

(* Steps that leave the ticks alone. *)
LEMMA TableExclusive ==
    ASSUME Exclusive, UNCHANGED <<effect, tick, tx>>,
           \A w \in Worker, e \in Plain : Holds(w, e) => row'[e].status \in {"pending", "processing"},
           \A e \in Plain, c \in Consumer : checkpoint[e][c] = "none" => checkpoint'[e][c] = "none",
           \A e \in Plain : row'[e].status \notin {"done", "purged"} =>
              /\ row[e].status \notin {"done", "purged"}
              /\ \A c \in Consumer : checkpoint[e][c] = "fresh" => checkpoint'[e][c] = "fresh"
    PROVE  Exclusive'
<1>1. Apart' /\ AppliedOnce'
  BY ExclusiveParts DEF Apart, AppliedOnce, Holds, tx
<1>2. EffectMarked'
  BY ExclusiveParts DEF EffectMarked
<1>3. ASSUME NEW w \in Worker PROVE Mine(w)'
  <2>1. Mine(w)
    BY ExclusiveParts
  <2>. QED BY <2>1 DEF Mine, Marked, InRow, Holds, tick, tx
<1>. QED BY <1>1, <1>2, <1>3, ExclusiveParts DEF Exclusive, LockHeld, ActedOnce, StagedHeld,
            Apart, Mine, Marked

(* Steps of a worker that leave the tables alone. *)
LEMMA TickExclusive ==
    ASSUME Exclusive, NEW w \in Worker, UNCHANGED table, \A v \in Worker \ {w} : SameFor(v),
           \A e \in Plain : held'[w][e] # NoRow => Holds(w, e) \/ FreeFor(w, e), Mine(w)'
    PROVE  Exclusive'
<1>1. Apart'
  BY ExclusiveParts DEF Apart, Holds, SameFor, FreeFor
<1>2. EffectMarked' /\ AppliedOnce'
  BY ExclusiveParts DEF EffectMarked, AppliedOnce, table
<1>3. ASSUME NEW v \in Worker \ {w} PROVE Mine(v)'
  <2>1. Mine(v) /\ SameFor(v)
    BY ExclusiveParts
  <2>. QED BY <2>1 DEF Mine, Marked, InRow, Holds, SameFor, table
<1>. QED BY <1>1, <1>2, <1>3 DEF Exclusive, LockHeld, ActedOnce, StagedHeld, Apart, Mine, Marked

LEMMA RolledBackExclusive ==
    ASSUME OutboxTypeOK, Exclusive, NEW w \in Worker, UNCHANGED table, Rollback(w)
    PROVE  Exclusive'
<1>1. /\ pc'[w] = "idle" /\ held'[w] = NothingHeld /\ staged'[w] = {} /\ acted'[w] = {}
  BY DEF Rollback, EmptyTx, EndTick, OutboxTypeOK
<1>2. Mine(w)'
  BY <1>1 DEF Mine, InRow, Holds, NothingHeld, Plain
<1>3. \A e \in Plain : held'[w][e] = NoRow
  BY <1>1 DEF NothingHeld, Plain
<1>4. \A v \in Worker \ {w} : SameFor(v)
  BY RolledBack
<1>. QED BY <1>2, <1>3, <1>4, TickExclusive

(* A commit: its events are in no other tick, and what it acted on was     *)
(* never committed before.                                                 *)
LEMMA CommitExclusive ==
    ASSUME OutboxTypeOK, Exclusive, NEW w \in Worker, NEW extra, NEW over,
           Publishes(w, extra, over),
           pc[w] # "record", \A e \in Plain, c \in Consumer : <<e, c>> \notin extra,
           \A v \in Worker \ {w} : SameFor(v),
           held'[w] = NothingHeld, staged'[w] = {}, acted'[w] = {},
           pc'[w] \in {"row", "driving", "record"} => cur'[w] \notin Plain
    PROVE  Exclusive'
<1>0. Mine(w) /\ Apart /\ EffectMarked /\ AppliedOnce
  BY ExclusiveParts
<1>1. ASSUME NEW e \in Plain, NEW c \in Consumer
      PROVE  /\ <<e, c>> \in acted[w] => effect'[e][c] = 1 /\ checkpoint'[e][c] = "fresh"
             /\ <<e, c>> \notin acted[w] => effect'[e][c] = effect[e][c]
             /\ checkpoint[e][c] = "fresh" => checkpoint'[e][c] = "fresh"
             /\ ~Holds(w, e) => /\ row'[e] = row[e] /\ checkpoint'[e][c] = checkpoint[e][c]
                                /\ <<e, c>> \notin acted[w]
  <2>1. e \in Event /\ effect[e][c] \in Nat
    BY DEF Plain, OutboxTypeOK
  <2>2. /\ effect'[e][c] = effect[e][c] + (IF <<e, c>> \in acted[w] THEN 1 ELSE 0)
                                        + (IF <<e, c>> \in extra THEN 1 ELSE 0)
        /\ checkpoint'[e][c] = IF <<e, c>> \in staged[w] THEN "fresh" ELSE checkpoint[e][c]
        /\ row'[e] = IF Holds(w, e) THEN held[w][e] ELSE row[e]
    BY <2>1 DEF Publishes
  <2>3. <<e, c>> \notin extra
    OBVIOUS
  <2>4. <<e, c>> \in acted[w] => effect[e][c] = 0 /\ <<e, c>> \in staged[w] /\ Holds(w, e)
    BY <1>0 DEF Mine, Marked
  <2>5. <<e, c>> \in staged[w] => Holds(w, e)
    BY <1>0 DEF Mine
  <2>. QED BY <2>1, <2>2, <2>3, <2>4, <2>5
<1>2. EffectMarked'
  <2>. SUFFICES ASSUME NEW e \in Plain, NEW c \in Consumer, effect'[e][c] >= 1,
                       row'[e].status \notin {"done", "purged"}
                PROVE  checkpoint'[e][c] = "fresh"
    BY DEF EffectMarked, Plain
  <2>1. CASE <<e, c>> \in acted[w]
    BY <1>1, <2>1
  <2>2. CASE <<e, c>> \notin acted[w]
    <3>1. effect[e][c] >= 1
      BY <1>1, <2>2
    <3>2. row[e].status \notin {"done", "purged"}
      BY <1>0, <1>1 DEF Mine
    <3>. QED BY <1>0, <1>1, <3>1, <3>2 DEF EffectMarked
  <2>. QED BY <2>1, <2>2
<1>3. AppliedOnce'
  <2>. SUFFICES ASSUME NEW e \in Plain, NEW c \in Consumer PROVE effect'[e][c] <= 1
    BY DEF AppliedOnce, Plain
  <2>1. effect[e][c] <= 1
    BY <1>0 DEF AppliedOnce
  <2>2. effect'[e][c] = 1 \/ effect'[e][c] = effect[e][c]
    BY <1>1
  <2>3. effect[e][c] \in Nat
    BY DEF OutboxTypeOK, Plain
  <2>. QED BY <2>1, <2>2, <2>3
<1>4. \A e \in Plain : held'[w][e] = NoRow
  BY DEF NothingHeld, Plain
<1>5. Apart'
  BY <1>0, <1>4 DEF Apart, Holds, SameFor, Plain
<1>6. Mine(w)'
  BY <1>4 DEF Mine, InRow, Holds, Plain
<1>7. ASSUME NEW v \in Worker \ {w} PROVE Mine(v)'
  <2>1. Mine(v) /\ SameFor(v)
    BY ExclusiveParts
  <2>2. \A e \in Plain : Holds(v, e) => ~Holds(w, e)
    BY <1>0 DEF Apart
  <2>3. \A e \in Plain, c \in Consumer : Holds(v, e) =>
            row'[e] = row[e] /\ checkpoint'[e][c] = checkpoint[e][c] /\ effect'[e][c] = effect[e][c]
    BY <1>1, <2>2
  <2>4. \A e \in Plain : Holds(v, e) => row'[e] = row[e]
    BY <2>2 DEF Publishes, Plain
  <2>. QED BY <2>1, <2>3, <2>4 DEF Mine, Marked, InRow, Holds, SameFor, Plain
<1>. QED BY <1>2, <1>3, <1>5, <1>6, <1>7
     DEF Exclusive, LockHeld, ActedOnce, StagedHeld, Apart, Mine, Marked

LEMMA SettleExclusive ==
    ASSUME OutboxTypeOK, Exclusive, NEW w \in Worker, pc[w] = "row", cur[w] \in Event,
           NEW r \in Row, SettleRow(w, r), UNCHANGED acted,
           \A v \in Worker \ {w} : staged'[v] = staged[v],
           staged[w] \subseteq staged'[w],
           \A e \in Plain, c \in Consumer : <<e, c>> \in staged'[w] =>
              e = cur[w] \/ <<e, c>> \in staged[w]
    PROVE  Exclusive'
<1>1. Mine(w) /\ r # NoRow
  BY ExclusiveParts, OutboxAssumption
<1>2. /\ pc'[w] = "batch" /\ UNCHANGED table
      /\ held'[w] = [held[w] EXCEPT ![cur[w]] = r]
  BY DEF SettleRow, Stage, OutboxTypeOK
<1>3. \A e \in Plain : held'[w][e] # NoRow <=> Holds(w, e)
  BY <1>1, <1>2 DEF Mine, InRow, Holds, OutboxTypeOK, Plain
<1>4. cur[w] \in Plain => Holds(w, cur[w])
  BY <1>1 DEF Mine, InRow
<1>5. \A e \in Plain, c \in Consumer :
        /\ <<e, c>> \in staged'[w] => Holds(w, e)
        /\ <<e, c>> \in acted[w] =>
              /\ Holds(w, e) /\ effect[e][c] = 0 /\ checkpoint[e][c] = "none"
              /\ <<e, c>> \in staged'[w]
  BY <1>1, <1>4, MineSettled
<1>6. \A e \in Plain : Holds(w, e) => row[e].status \in {"pending", "processing"}
  BY <1>1 DEF Mine
<1>7. Mine(w)'
  BY <1>2, <1>3, <1>5, <1>6 DEF Mine, Marked, InRow, Holds, table, Plain
<1>8. \A v \in Worker \ {w} : SameFor(v)
  BY DEF SettleRow, Stage, SameFor, OutboxTypeOK
<1>. QED BY <1>2, <1>3, <1>7, <1>8, TickExclusive

(* Steps inside a row that touch neither locks nor, but for what they      *)
(* mark, the transaction.                                                  *)
LEMMA RowExclusive ==
    ASSUME Exclusive, NEW w \in Worker, UNCHANGED <<table, cur, held>>,
           \A v \in Worker \ {w} : SameFor(v), InRow(w), InRow(w)',
           \A e \in Plain, c \in Consumer : <<e, c>> \in staged'[w] => Holds(w, e),
           \A e \in Plain, c \in Consumer : <<e, c>> \in acted'[w] =>
              /\ Holds(w, e) /\ effect[e][c] = 0 /\ checkpoint[e][c] = "none"
              /\ \/ <<e, c>> \in staged'[w]
                 \/ pc'[w] = "record" /\ cur[w] = e /\ doing'[w] = c
    PROVE  Exclusive'
<1>1. Mine(w)
  BY ExclusiveParts
<1>2. Mine(w)'
  BY <1>1 DEF Mine, Marked, Holds, table, Plain
<1>3. \A e \in Plain : held'[w][e] # NoRow => Holds(w, e)
  BY DEF Holds
<1>. QED BY <1>2, <1>3, TickExclusive

LEMMA ExclusiveStep ==
    ASSUME ~OutliveRetention, WritersRaiseFirst, OutboxTypeOK, OutboxTypeOK', InRowEvent,
           Exclusive, [Next]_vars
    PROVE  Exclusive'
<1>0. /\ \A w \in Worker : Mine(w)
      /\ \A e \in Plain : e \in Event /\ row[e] \in Row
  BY ExclusiveParts DEF Plain, OutboxTypeOK
<1>1. ASSUME NEW e \in Event,
             Publish(e) \/ Timer(e) \/ RowAges(e) \/ PurgeRow(e) \/ Replay(e)
      PROVE  Exclusive'
  <2>1. UNCHANGED <<checkpoint, effect, tick, tx>>
    BY <1>1 DEF Publish, Timer, BackoffEnds, LeaseEnds, RowAges, PurgeRow, Replay
  <2>2. \A d \in Event : d # e => row'[d] = row[d]
    BY <1>1 DEF Publish, Timer, BackoffEnds, LeaseEnds, RowAges, PurgeRow, Replay, OutboxTypeOK
  <2>3. row[e] \in Row /\ row \in [Event -> Row]
    BY DEF OutboxTypeOK
  <2>4. /\ row'[e].status \notin {"done", "purged"} => row[e].status \notin {"done", "purged"}
        /\ row[e].status \in {"pending", "processing"} =>
              row'[e].status = row[e].status
    <3>1. CASE Publish(e)
      BY <2>3, <3>1 DEF Publish, Row
    <3>2. CASE Timer(e)
      BY <2>3, <3>2 DEF Timer, BackoffEnds, LeaseEnds, Row
    <3>3. CASE RowAges(e) \/ PurgeRow(e)
      BY <2>3, <3>3 DEF RowAges, PurgeRow, Row
    <3>4. CASE Replay(e)
      BY <2>3, <3>4 DEF Replay, Row
    <3>. QED BY <1>1, <3>1, <3>2, <3>3, <3>4
  <2>5. \A w \in Worker, d \in Plain : Holds(w, d) => row'[d].status \in {"pending", "processing"}
    BY <1>0, <2>2, <2>4 DEF Mine
  <2>. QED BY <1>0, <2>1, <2>2, <2>4, <2>5, TableExclusive
<1>2. ASSUME NEW e \in Event, NEW c \in Consumer, CheckpointAges(e, c) \/ PurgeCheckpoint(e, c)
      PROVE  Exclusive'
  <2>1. /\ UNCHANGED <<row, effect, tick, tx>> /\ checkpoint[e][c] # "none"
        /\ checkpoint[e][c] = "fresh" => row[e].status \in {"done", "purged"}
    BY <1>2 DEF CheckpointAges, PurgeCheckpoint
  <2>2. \E k \in {"none", "old"} : checkpoint' = [checkpoint EXCEPT ![e][c] = k]
    BY <1>2 DEF CheckpointAges, PurgeCheckpoint
  <2>3. \A d \in Event, b \in Consumer :
            checkpoint'[d][b] = checkpoint[d][b] \/ (d = e /\ b = c)
    BY <2>2 DEF OutboxTypeOK
  <2>4. \A w \in Worker, d \in Plain : Holds(w, d) => row'[d].status \in {"pending", "processing"}
    BY <1>0, <2>1 DEF Mine
  <2>5. \A d \in Plain, b \in Consumer : checkpoint[d][b] = "none" => checkpoint'[d][b] = "none"
    BY <1>0, <2>1, <2>3
  <2>6. \A d \in Plain : row'[d].status \notin {"done", "purged"} =>
            /\ row[d].status \notin {"done", "purged"}
            /\ \A b \in Consumer : checkpoint[d][b] = "fresh" => checkpoint'[d][b] = "fresh"
    BY <1>0, <2>1, <2>3
  <2>. QED BY <2>1, <2>4, <2>5, <2>6, TableExclusive
<1>3. ASSUME NEW w \in Worker, Tick(w) \/ DeadlockVictim(w) \/ TickFails(w)
      PROVE  Exclusive'
  <2>1. CASE List(w)
    <3>1. /\ pc[w] = "idle" /\ pc'[w] = "batch" /\ UNCHANGED <<table, held, staged, acted>>
      BY <2>1 DEF List, tx, OutboxTypeOK
    <3>2. Mine(w)'
      BY <1>0, <3>1 DEF Mine, Marked, InRow, Holds, table
    <3>3. \A v \in Worker \ {w} : SameFor(v)
      BY <2>1 DEF List, SameFor, tx, OutboxTypeOK
    <3>. QED BY <3>1, <3>2, <3>3, TickExclusive DEF Holds
  <2>2. CASE PollNothing(w)
    <3>1. UNCHANGED <<table, tick, tx>>
      BY <2>2 DEF PollNothing, vars
    <3>. QED BY <1>0, <3>1, TableExclusive DEF table, Mine, Plain, ExclusiveParts
  <2>3. CASE Refuse(w) \/ Finish(w)
    <3>1. pc[w] = "row" /\ cur[w] \in Event
      BY <2>3 DEF Refuse, Finish, InRowEvent, InRow
    <3>. QED BY <2>3, <3>1, RowForms, SettleExclusive DEF Refuse, Finish, Settle
  <2>4. CASE MoveTask(w)
    <3>1. /\ pc[w] = "driving" /\ pc'[w] = "record" /\ UNCHANGED <<table, cur, held, staged, acted>>
      BY <2>4 DEF MoveTask, OutboxTypeOK
    <3>2. \A v \in Worker \ {w} : SameFor(v)
      BY <2>4 DEF MoveTask, SameFor, OutboxTypeOK
    <3>3. \A e \in Plain, c \in Consumer :
            /\ <<e, c>> \in staged'[w] => Holds(w, e)
            /\ <<e, c>> \in acted'[w] =>
                  /\ Holds(w, e) /\ effect[e][c] = 0 /\ checkpoint[e][c] = "none"
                  /\ <<e, c>> \in staged'[w]
      BY <1>0, <3>1, MineSettled
    <3>. QED BY <3>1, <3>2, <3>3, RowExclusive DEF InRow
  <2>5. CASE Record(w)
    <3>1. /\ pc[w] = "record" /\ pc'[w] = "row" /\ UNCHANGED <<table, cur, held, acted>>
          /\ cur[w] \in Event /\ doing[w] \in Consumer
      BY <2>5 DEF Record, OutboxTypeOK, InRowEvent, InRow
    <3>2. /\ staged'[w] \subseteq staged[w] \cup {<<cur[w], doing[w]>>}
          /\ staged[w] \subseteq staged'[w]
          /\ checkpoint[cur[w]][doing[w]] = "none" => <<cur[w], doing[w]>> \in staged'[w]
      BY <2>5, <3>1 DEF Record, IsProcessed, Stages, OutboxTypeOK
    <3>3. \A v \in Worker \ {w} : SameFor(v)
      BY <2>5 DEF Record, Stages, SameFor, OutboxTypeOK
    <3>4. cur[w] \in Plain => Holds(w, cur[w])
      BY <1>0, <3>1 DEF Mine, InRow
    <3>5. \A e \in Plain, c \in Consumer : <<e, c>> \in staged'[w] => Holds(w, e)
      BY <1>0, <3>2, <3>4 DEF Mine
    <3>6. \A e \in Plain, c \in Consumer : <<e, c>> \in acted'[w] =>
              /\ Holds(w, e) /\ effect[e][c] = 0 /\ checkpoint[e][c] = "none"
              /\ <<e, c>> \in staged'[w]
      BY <1>0, <3>1, <3>2 DEF Mine, Marked
    <3>. QED BY <3>1, <3>3, <3>5, <3>6, RowExclusive DEF InRow
  <2>6. CASE Commit(w)
    <3>1. /\ pc[w] = "batch" /\ pc'[w] = "idle" /\ held'[w] = NothingHeld /\ staged'[w] = {}
          /\ acted'[w] = {} /\ Publishes(w, {}, {})
      BY <2>6 DEF Commit, Rollback, EmptyTx, EndTick, OutboxTypeOK
    <3>2. \A v \in Worker \ {w} : SameFor(v)
      BY <2>6, RolledBack DEF Commit
    <3>. QED BY <3>1, <3>2, CommitExclusive
  <2>7. CASE DeadlockVictim(w) \/ TickFails(w)
    BY <2>7, RolledBackExclusive DEF DeadlockVictim, TickFails
  <2>8. ASSUME NEW e \in Event, Claim(w, e) PROVE Exclusive'
    <3>1. row[e] \in Row /\ Claimed(e) \in Row /\ NoRow \notin Row
      BY RowForms, OutboxAssumption DEF OutboxTypeOK
    <3>2. /\ pc[w] = "batch" /\ pc'[w] = "row" /\ cur'[w] = e
          /\ UNCHANGED <<table, staged, acted>> /\ held'[w] = [held[w] EXCEPT ![e] = Claimed(e)]
      BY <2>8 DEF Claim, Stage, OutboxTypeOK
    <3>3. /\ held'[w][e] # NoRow
          /\ \A d \in Event : d # e => held'[w][d] = held[w][d]
      BY <3>1, <3>2 DEF OutboxTypeOK
    <3>4. row[e].status \in {"pending", "processing"}
      BY <2>8 DEF Claim, Due
    <3>5. \A d \in Plain : held'[w][d] # NoRow => d = e \/ Holds(w, d)
      BY <1>0, <3>3 DEF Holds
    <3>6. \A d \in Plain : Holds(w, d) => held'[w][d] # NoRow
      BY <1>0, <3>3 DEF Holds
    <3>7. Mine(w)'
      BY <1>0, <3>2, <3>3, <3>4, <3>5, <3>6 DEF Mine, Marked, InRow, Holds, table, Plain
    <3>8. \A v \in Worker \ {w} : SameFor(v)
      BY <2>8 DEF Claim, Stage, SameFor, OutboxTypeOK
    <3>. QED BY <2>8, <3>2, <3>5, <3>7, <3>8, TickExclusive DEF Claim
  <2>9. ASSUME NEW e \in Event, ClaimLost(w, e) PROVE Exclusive'
    <3>1. UNCHANGED <<table, pc, cur, left, doing, tx>>
      BY <2>9 DEF ClaimLost
    <3>2. Mine(w)'
      BY <1>0, <3>1 DEF Mine, Marked, InRow, Holds, table, tx
    <3>3. \A v \in Worker \ {w} : SameFor(v)
      BY <3>1 DEF SameFor, tx
    <3>. QED BY <3>1, <3>2, <3>3, TickExclusive DEF Holds, tx
  <2>10. ASSUME NEW c \in Consumer,
                Skip(w, c) \/ Handle(w, c) \/ HandleSlot(w, c) \/ Drive(w, c) \/ FailTask(w, c)
                \/ DriveNothing(w, c) \/ Raise(w, c) \/ RaiseMidway(w, c) \/ Poisoned(w, c)
         PROVE  Exclusive'
    <3>1. /\ pc[w] = "row" /\ cur[w] \in Event
          /\ c \in left[w] /\ left[w] \subseteq HandlersOf[cur[w]]
      BY <2>10 DEF Skip, Handle, HandleSlot, Drive, FailTask, DriveNothing, Raise, RaiseMidway,
                   Poisoned, Invokable, Dispatchable, InRowEvent, InRow
    <3>2. \A e \in Plain, d \in Consumer :
            /\ <<e, d>> \in staged[w] => Holds(w, e)
            /\ <<e, d>> \in acted[w] =>
                  /\ Holds(w, e) /\ effect[e][d] = 0 /\ checkpoint[e][d] = "none"
                  /\ <<e, d>> \in staged[w]
      BY <1>0, <3>1, MineSettled
    <3>3. CASE Skip(w, c)
      <4>1. /\ pc'[w] = "row" /\ UNCHANGED <<table, cur, held, staged, acted>>
        BY <3>1, <3>3 DEF Skip, tx, OutboxTypeOK
      <4>2. \A v \in Worker \ {w} : SameFor(v)
        BY <3>3 DEF Skip, SameFor, tx, OutboxTypeOK
      <4>. QED BY <3>1, <3>2, <4>1, <4>2, RowExclusive DEF InRow
    <3>4. CASE Handle(w, c) \/ HandleSlot(w, c)
      <4>1. /\ pc'[w] = "record" /\ doing'[w] = c /\ UNCHANGED <<table, cur, held>>
            /\ acted'[w] = acted[w] \cup {<<cur[w], c>>}
            /\ staged[w] \subseteq staged'[w]
            /\ staged'[w] \subseteq staged[w] \cup {<<cur[w], c>>}
        BY <3>4 DEF Handle, HandleSlot, Acts, Stages, OutboxTypeOK
      <4>2. \A v \in Worker \ {w} : SameFor(v)
        BY <3>4 DEF Handle, HandleSlot, Acts, Stages, SameFor, OutboxTypeOK
      <4>3. cur[w] \in Plain => /\ Holds(w, cur[w]) /\ checkpoint[cur[w]][c] = "none"
                                /\ effect[cur[w]][c] = 0
        <5>. SUFFICES ASSUME cur[w] \in Plain
                      PROVE  /\ Holds(w, cur[w]) /\ checkpoint[cur[w]][c] = "none"
                             /\ effect[cur[w]][c] = 0
          OBVIOUS
        <5>1. Holds(w, cur[w]) /\ row[cur[w]].status \in {"pending", "processing"}
          BY <1>0, <3>1 DEF Mine, InRow
        <5>2. checkpoint[cur[w]][c] = "none"
          BY <3>4 DEF Handle, HandleSlot, Invokable, IsProcessed
        <5>3. c \in Consumer /\ effect[cur[w]][c] \in Nat
          BY <3>1 DEF OutboxTypeOK
        <5>4. ~(effect[cur[w]][c] >= 1)
          BY <5>1, <5>2, <5>3, ExclusiveParts DEF EffectMarked
        <5>. QED BY <5>1, <5>2, <5>3, <5>4
      <4>4. \A e \in Plain, d \in Consumer : <<e, d>> \in acted'[w] =>
                /\ Holds(w, e) /\ effect[e][d] = 0 /\ checkpoint[e][d] = "none"
                /\ \/ <<e, d>> \in staged'[w]
                   \/ pc'[w] = "record" /\ cur[w] = e /\ doing'[w] = d
        BY <3>2, <4>1, <4>3
      <4>5. \A e \in Plain, d \in Consumer : <<e, d>> \in staged'[w] => Holds(w, e)
        BY <3>2, <4>1, <4>3
      <4>. QED BY <3>1, <4>1, <4>2, <4>4, <4>5, RowExclusive DEF InRow
    <3>5. CASE Drive(w, c) \/ FailTask(w, c)
      <4>1. cur[w] \notin Plain /\ UNCHANGED cur
        BY <3>1, <3>5 DEF Drive, FailTask, Plain
      <4>2. \A v \in Worker \ {w} : SameFor(v)
        BY <3>5 DEF Drive, FailTask, EmptyTx, SameFor, OutboxTypeOK
      <4>3. held'[w] = NothingHeld /\ staged'[w] = {} /\ acted'[w] = {}
        BY <3>5 DEF Drive, FailTask, EmptyTx, OutboxTypeOK
      <4>4. \A e \in Plain, d \in Consumer : <<e, d>> \notin {<<cur[w], c>>}
        BY <4>1
      <4>5. Publishes(w, {<<cur[w], c>>}, {}) \/ Publishes(w, {<<cur[w], c>>}, {cur[w]})
        BY <3>5 DEF Drive, FailTask
      <4>. QED BY <3>1, <4>1, <4>2, <4>3, <4>4, <4>5, CommitExclusive
    <3>6. CASE DriveNothing(w, c)
      <4>1. /\ pc'[w] = "record" /\ UNCHANGED <<table, cur, held, staged, acted>>
        BY <3>6 DEF DriveNothing, tx, OutboxTypeOK
      <4>2. \A v \in Worker \ {w} : SameFor(v)
        BY <3>6 DEF DriveNothing, SameFor, tx, OutboxTypeOK
      <4>. QED BY <3>1, <3>2, <4>1, <4>2, RowExclusive DEF InRow
    <3>7. CASE Raise(w, c) \/ RaiseMidway(w, c)
      <4>1. SettleRow(w, Missed(w)) /\ UNCHANGED acted
        BY <3>7 DEF Raise, RaiseMidway, Settle, WritersRaiseFirst
      <4>2. /\ \A v \in Worker \ {w} : staged'[v] = staged[v]
            /\ staged[w] \subseteq staged'[w]
            /\ staged'[w] \subseteq staged[w] \cup {<<cur[w], c>>}
        BY <3>7 DEF Raise, RaiseMidway, Settle, Stages, OutboxTypeOK
      <4>. QED BY <3>1, <4>1, <4>2, MissedType, SettleExclusive
    <3>8. CASE Poisoned(w, c)
      BY <3>8, RolledBackExclusive DEF Poisoned
    <3>. QED BY <2>10, <3>3, <3>4, <3>5, <3>6, <3>7, <3>8
  <2>. QED
    BY <1>3, <2>1, <2>2, <2>3, <2>4, <2>5, <2>6, <2>7, <2>8, <2>9, <2>10 DEF Tick
<1>4. CASE UNCHANGED vars
  <2>1. UNCHANGED <<table, tick, tx>>
    BY <1>4 DEF vars
  <2>. QED BY <1>0, <2>1, TableExclusive DEF table, Mine
<1>. QED BY <1>1, <1>2, <1>3, <1>4 DEF Next, Ageing, Purge

LEMMA ExclusiveInit ==
    ASSUME Init
    PROVE  Exclusive
BY DEF Init, Exclusive, LockHeld, ActedOnce, StagedHeld, EffectMarked, AppliedOnce, InRow, Holds,
       NothingHeld, Plain

(* A consumer's writes for an event are committed at most once, provided   *)
(* that no row stays undelivered for longer than its checkpoints are kept, *)
(* and that none raises after it has written.                              *)
THEOREM AppliedOnceHolds ==
    ASSUME ~OutliveRetention, WritersRaiseFirst
    PROVE  Spec => []AppliedOnce
<1>1. Init => Exclusive
  BY ExclusiveInit
<1>2. /\ OutboxTypeOK /\ OutboxTypeOK' /\ InRowEvent /\ Exclusive /\ [Next]_vars
      => Exclusive'
  BY ExclusiveStep
<1>3. Exclusive => AppliedOnce
  BY DEF Exclusive
<1>. QED BY <1>1, <1>2, <1>3, OutboxTypeCorrect, PTL DEF Spec

-----------------------------------------------------------------------------
(***************************************************************************)
(* The tables implement DeliveryQueue.  Only a commit moves rows that a    *)
(* tick works on, and it moves them as a batch.  What it writes was        *)
(* published, and is for consumers of the event.                           *)
(***************************************************************************)
TxSound(w) ==
    /\ \A e \in Event : Holds(w, e) => held[w][e].status # "absent"
    /\ \A e \in Event, c \in Consumer : <<e, c>> \in acted[w] => c \in HandlersOf[e]

QueueInv == \A w \in Worker : TxSound(w)

(* A worker's transaction is new, the same, or the same and what is done   *)
(* with its current row. *)
LEMMA TxSoundKept ==
    ASSUME OutboxTypeOK, NEW w \in Worker, TxSound(w), held'[w] \in {held[w], NothingHeld},
           acted'[w] \subseteq acted[w]
    PROVE  TxSound(w)'
BY DEF TxSound, Holds, NothingHeld

LEMMA TxSoundHeld ==
    ASSUME OutboxTypeOK, NEW w \in Worker, TxSound(w), NEW e \in Event, NEW r \in Row,
           Stage(w, e, r), r.status # "absent"
    PROVE  \A d \in Event : held'[w][d] # NoRow => held'[w][d].status # "absent"
BY DEF TxSound, Holds, Stage, OutboxTypeOK

(* A worker writes in its own transaction only. *)
LEMMA TxOwn ==
    ASSUME OutboxTypeOK, NEW w \in Worker, NEW v \in Worker \ {w},
           Tick(w) \/ DeadlockVictim(w) \/ TickFails(w)
    PROVE  held'[v] = held[v] /\ acted'[v] = acted[v]
<1>. USE DEF OutboxTypeOK
<1>1. CASE List(w) \/ PollNothing(w) \/ MoveTask(w) \/ Record(w)
  BY <1>1 DEF List, PollNothing, MoveTask, Record, vars, tx
<1>2. CASE Refuse(w) \/ Finish(w)
  BY <1>2 DEF Refuse, Finish, Settle, SettleRow, Stage
<1>3. CASE Commit(w) \/ DeadlockVictim(w) \/ TickFails(w)
  BY <1>3 DEF Commit, DeadlockVictim, TickFails, Rollback, EmptyTx
<1>4. ASSUME NEW e \in Event, Claim(w, e) \/ ClaimLost(w, e)
      PROVE  held'[v] = held[v] /\ acted'[v] = acted[v]
  BY <1>4 DEF Claim, ClaimLost, Stage, tx
<1>5. ASSUME NEW c \in Consumer,
             Skip(w, c) \/ Handle(w, c) \/ HandleSlot(w, c) \/ Drive(w, c) \/ FailTask(w, c)
             \/ DriveNothing(w, c) \/ Raise(w, c) \/ RaiseMidway(w, c) \/ Poisoned(w, c)
      PROVE  held'[v] = held[v] /\ acted'[v] = acted[v]
  <2>1. CASE Skip(w, c) \/ DriveNothing(w, c)
    BY <2>1 DEF Skip, DriveNothing, tx
  <2>2. CASE Handle(w, c) \/ HandleSlot(w, c)
    BY <2>2 DEF Handle, HandleSlot, Acts
  <2>3. CASE Drive(w, c) \/ FailTask(w, c) \/ Poisoned(w, c)
    BY <2>3 DEF Drive, FailTask, Poisoned, Rollback, EmptyTx
  <2>4. CASE Raise(w, c) \/ RaiseMidway(w, c)
    BY <2>4 DEF Raise, RaiseMidway, Settle, SettleRow, Stage, Acts
  <2>. QED BY <1>5, <2>1, <2>2, <2>3, <2>4
<1>. QED BY <1>1, <1>2, <1>3, <1>4, <1>5 DEF Tick

LEMMA QueueInvStep ==
    ASSUME OutboxTypeOK, InRowEvent, QueueInv, [Next]_vars
    PROVE  QueueInv'
<1>. SUFFICES ASSUME NEW v \in Worker PROVE TxSound(v)'
  BY DEF QueueInv
<1>0. TxSound(v)
  BY DEF QueueInv
<1>1. CASE UNCHANGED tx
  BY <1>0, <1>1 DEF tx, TxSound, Holds
<1>2. CASE \E e \in Event : Publish(e) \/ Timer(e) \/ Ageing(e) \/ Purge(e) \/ Replay(e)
  BY <1>1, <1>2 DEF Publish, Timer, BackoffEnds, LeaseEnds, Ageing, RowAges, CheckpointAges,
                    Purge, PurgeRow, PurgeCheckpoint, Replay
<1>3. ASSUME NEW w \in Worker, Tick(w) \/ DeadlockVictim(w) \/ TickFails(w)
      PROVE  TxSound(v)'
  <2>1. CASE v # w
    <3>1. held'[v] = held[v] /\ acted'[v] = acted[v]
      BY <1>3, <2>1, TxOwn
    <3>. QED BY <1>0, <3>1, TxSoundKept
  <2>2. CASE v = w
    <3>1. CASE List(w) \/ PollNothing(w) \/ MoveTask(w) \/ Record(w)
      <4>1. UNCHANGED <<held, acted>>
        BY <3>1 DEF List, PollNothing, MoveTask, Record, vars, tx
      <4>. QED BY <1>0, <4>1, TxSoundKept
    <3>2. CASE Commit(w) \/ DeadlockVictim(w) \/ TickFails(w)
      <4>1. held'[w] = NothingHeld /\ acted'[w] = {}
        BY <3>2 DEF Commit, DeadlockVictim, TickFails, Rollback, EmptyTx, OutboxTypeOK
      <4>. QED BY <1>0, <2>2, <4>1, TxSoundKept
    <3>3. ASSUME NEW r \in Row, r.status # "absent", cur[w] \in Event, SettleRow(w, r),
                 \A e \in Event, c \in Consumer : <<e, c>> \in acted'[w] => c \in HandlersOf[e]
          PROVE  TxSound(w)'
      BY <1>0, <2>2, <3>3, TxSoundHeld DEF SettleRow, TxSound, Holds
    <3>4. CASE Refuse(w) \/ Finish(w)
      <4>1. cur[w] \in Event
        BY <3>4 DEF Refuse, Finish, InRowEvent, InRow
      <4>2. /\ Failed(Current(w, cur[w])) \in Row /\ Failed(Current(w, cur[w])).status # "absent"
            /\ Done(Current(w, cur[w])) \in Row /\ Done(Current(w, cur[w])).status # "absent"
        <5>1. /\ Current(w, cur[w]) \in Row
              /\ Failed(Current(w, cur[w])) \in Row /\ Done(Current(w, cur[w])) \in Row
          BY <4>1, RowForms, 0 \in Nat
        <5>. QED BY <5>1 DEF Failed, Done, Row
      <4>3. acted'[w] = acted[w]
        BY <3>4 DEF Refuse, Finish, Settle
      <4>. QED BY <1>0, <2>2, <3>3, <3>4, <4>1, <4>2, <4>3 DEF Refuse, Finish, Settle, TxSound
    <3>5. ASSUME NEW e \in Event, Claim(w, e) \/ ClaimLost(w, e) PROVE TxSound(w)'
      <4>1. CASE Claim(w, e)
        <5>1. Claimed(e) \in Row /\ Claimed(e).status # "absent"
          <6>1. row[e] \in Row /\ Claimed(e) \in Row
            BY RowForms, 0 \in Nat DEF OutboxTypeOK
          <6>. QED BY <6>1 DEF Claimed, Row
        <5>2. Stage(w, e, Claimed(e)) /\ acted'[w] = acted[w]
          BY <4>1 DEF Claim
        <5>. QED BY <1>0, <2>2, <5>1, <5>2, TxSoundHeld DEF TxSound, Holds
      <4>2. CASE ClaimLost(w, e)
        BY <1>1, <2>2, <4>2 DEF ClaimLost
      <4>. QED BY <3>5, <4>1, <4>2
    <3>6. ASSUME NEW c \in Consumer,
                 Skip(w, c) \/ Handle(w, c) \/ HandleSlot(w, c) \/ Drive(w, c) \/ FailTask(w, c)
                 \/ DriveNothing(w, c) \/ Raise(w, c) \/ RaiseMidway(w, c) \/ Poisoned(w, c)
          PROVE  TxSound(w)'
      <4>1. /\ pc[w] = "row" /\ cur[w] \in Event
            /\ c \in HandlersOf[cur[w]]
        BY <3>6 DEF Skip, Handle, HandleSlot, Drive, FailTask, DriveNothing, Raise, RaiseMidway,
                    Poisoned, Invokable, Dispatchable, InRowEvent, InRow
      <4>2. ASSUME acted'[w] \subseteq acted[w] \cup {<<cur[w], c>>}
            PROVE  \A e \in Event, d \in Consumer : <<e, d>> \in acted'[w] => d \in HandlersOf[e]
        BY <1>0, <2>2, <4>1, <4>2 DEF TxSound
      <4>3. CASE Skip(w, c) \/ DriveNothing(w, c)
        BY <1>1, <2>2, <4>3 DEF Skip, DriveNothing
      <4>4. CASE Handle(w, c) \/ HandleSlot(w, c)
        <5>1. acted'[w] \subseteq acted[w] \cup {<<cur[w], c>>} /\ UNCHANGED held
          BY <4>4 DEF Handle, HandleSlot, Acts, OutboxTypeOK
        <5>. QED BY <1>0, <2>2, <4>2, <5>1 DEF TxSound, Holds
      <4>5. CASE Drive(w, c) \/ FailTask(w, c) \/ Poisoned(w, c)
        <5>1. held'[w] = NothingHeld /\ acted'[w] = {}
          BY <4>5 DEF Drive, FailTask, Poisoned, Rollback, EmptyTx, OutboxTypeOK
        <5>. QED BY <1>0, <2>2, <5>1, TxSoundKept
      <4>6. CASE Raise(w, c) \/ RaiseMidway(w, c)
        <5>1. SettleRow(w, Missed(w)) /\ acted'[w] \subseteq acted[w] \cup {<<cur[w], c>>}
          BY <4>6 DEF Raise, RaiseMidway, Settle, Acts, OutboxTypeOK
        <5>2. Missed(w) \in Row /\ Missed(w).status # "absent"
          BY <4>1, MissedType
        <5>. QED BY <3>3, <4>1, <4>2, <5>1, <5>2
      <4>. QED BY <3>6, <4>3, <4>4, <4>5, <4>6
    <3>. QED BY <1>3, <2>2, <3>1, <3>2, <3>4, <3>5, <3>6 DEF Tick
  <2>. QED BY <2>1, <2>2
<1>. QED BY <1>1, <1>2, <1>3 DEF Next, vars

(* What the queue shows changes with the rows and the effects only. *)
LEMMA QueueSees ==
    ASSUME UNCHANGED <<row, effect>>
    PROVE  UNCHANGED Queue!queue
BY DEF Queue!queue, QueuePlace, QueueTries, QueueTimes

LEMMA PlaceType ==
    ASSUME NEW r \in Row
    PROVE  /\ Place(r.status) \in {"absent", "queued", "delivered", "dead"}
           /\ Place(r.status) = "absent" <=> r.status = "absent"
           /\ Place(r.status) = "queued" <=> r.status \in {"pending", "processing"}
           /\ Place(r.status) = "delivered" <=> r.status \in {"done", "purged"}
           /\ Place(r.status) = "dead" <=> r.status = "failed"
<1>1. r.status \in {"absent", "pending", "processing", "done", "failed", "purged"}
  BY DEF Row
<1>. QED BY <1>1 DEF Place

(* Rows are published, age and are put back one at a time. *)
LEMMA RowQueues ==
    ASSUME OutboxTypeOK, OutboxTypeOK', NEW e \in Event,
           Publish(e) \/ Timer(e) \/ RowAges(e) \/ PurgeRow(e) \/ Replay(e)
    PROVE  [Queue!QueueNext]_(Queue!queue)
<1>1. UNCHANGED effect /\ row[e] \in Row /\ row'[e] \in Row
  BY DEF Publish, Timer, BackoffEnds, LeaseEnds, RowAges, PurgeRow, Replay, OutboxTypeOK
<1>2. \A d \in Event : d # e => row'[d] = row[d]
  BY DEF Publish, Timer, BackoffEnds, LeaseEnds, RowAges, PurgeRow, Replay, OutboxTypeOK
<1>3. Plain \subseteq Event /\ UNCHANGED QueueTimes
  BY <1>1 DEF Plain, QueueTimes
<1>4. ASSUME NEW p, e \in Plain => Place(row'[e].status) = p
      PROVE  QueuePlace' = [QueuePlace EXCEPT ![e] = p]
  BY <1>2, <1>3, <1>4 DEF QueuePlace
<1>5. ASSUME NEW n, e \in Plain => row'[e].attempts = n
      PROVE  QueueTries' = [QueueTries EXCEPT ![e] = n]
  BY <1>2, <1>3, <1>5 DEF QueueTries
<1>6. CASE e \notin Plain \/ Timer(e) \/ RowAges(e) \/ PurgeRow(e)
  <2>1. e \in Plain => /\ Place(row'[e].status) = Place(row[e].status)
                      /\ row'[e].attempts = row[e].attempts
    <3>1. CASE Timer(e) \/ RowAges(e)
      <4>1. \E b \in BOOLEAN : \/ row' = [row EXCEPT ![e].due = b]
                              \/ row' = [row EXCEPT ![e].leased = b]
                              \/ row' = [row EXCEPT ![e].old = b]
        BY <3>1 DEF Timer, BackoffEnds, LeaseEnds, RowAges
      <4>2. row'[e].status = row[e].status /\ row'[e].attempts = row[e].attempts
        BY <1>1, <4>1 DEF Row, OutboxTypeOK
      <4>. QED BY <4>2
    <3>2. CASE PurgeRow(e)
      <4>1. row[e].status = "done" /\ row'[e].status = "purged" /\ row'[e].attempts = row[e].attempts
        BY <1>1, <3>2 DEF PurgeRow, Row, OutboxTypeOK
      <4>. QED BY <1>1, <4>1, PlaceType
    <3>. QED BY <1>6, <3>1, <3>2
  <2>2. UNCHANGED QueuePlace /\ UNCHANGED QueueTries
    BY <1>2, <1>3, <2>1 DEF QueuePlace, QueueTries
  <2>. QED BY <1>3, <2>2 DEF Queue!queue
<1>7. CASE e \in Plain /\ Publish(e)
  <2>1. /\ row[e].status = "absent" /\ row'[e].status = "pending"
        /\ row'[e].attempts = row[e].attempts
    BY <1>1, <1>7 DEF Publish, Row, OutboxTypeOK
  <2>2. Place(row[e].status) = "absent" /\ Place(row'[e].status) = "queued"
    BY <1>1, <2>1, PlaceType
  <2>3. QueuePlace[e] = "absent" /\ QueuePlace' = [QueuePlace EXCEPT ![e] = "queued"]
    BY <1>4, <1>7, <2>2 DEF QueuePlace
  <2>4. UNCHANGED QueueTries
    BY <1>2, <1>3, <2>1 DEF QueueTries
  <2>5. Queue!Enqueue(e)
    BY <1>3, <2>3, <2>4 DEF Queue!Enqueue
  <2>. QED BY <1>7, <2>5 DEF Queue!QueueNext
<1>8. CASE e \in Plain /\ Replay(e)
  <2>1. /\ row[e].status = "failed" /\ row'[e].status = "pending" /\ row'[e].attempts = 0
    BY <1>1, <1>8 DEF Replay, Row, OutboxTypeOK
  <2>2. Place(row[e].status) = "dead" /\ Place(row'[e].status) = "queued"
    BY <1>1, <2>1, PlaceType
  <2>3. /\ QueuePlace[e] = "dead" /\ QueuePlace' = [QueuePlace EXCEPT ![e] = "queued"]
        /\ QueueTries' = [QueueTries EXCEPT ![e] = 0]
    BY <1>4, <1>5, <1>8, <2>1, <2>2 DEF QueuePlace
  <2>4. Queue!PutBack(e)
    BY <1>3, <2>3 DEF Queue!PutBack
  <2>. QED BY <1>8, <2>4 DEF Queue!QueueNext
<1>. QED BY <1>6, <1>7, <1>8

(* A commit delivers the batch of plain rows its transaction holds. *)
LEMMA CommitDelivers ==
    ASSUME OutboxTypeOK, OutboxTypeOK', Exclusive, QueueInv, AppliedOnce', DoneIsDelivered',
           NEW w \in Worker, NEW extra, NEW over, Publishes(w, extra, over),
           \A e \in Plain, c \in Consumer : <<e, c>> \notin extra
    PROVE  [Queue!QueueNext]_(Queue!queue)
<1>. DEFINE batch == {e \in Plain : Holds(w, e)}
<1>0. /\ Plain \subseteq Event /\ Mine(w) /\ TxSound(w)
      /\ \A e \in Plain : row[e] \in Row /\ row'[e] \in Row
  BY ExclusiveParts DEF Plain, QueueInv, OutboxTypeOK
<1>1. ASSUME NEW e \in Plain, NEW c \in Consumer
      PROVE  /\ effect[e][c] \in Nat /\ effect'[e][c] \in Nat
             /\ effect'[e][c] = effect[e][c] + (IF <<e, c>> \in acted[w] THEN 1 ELSE 0)
  <2>1. /\ effect[e][c] \in Nat /\ effect'[e][c] \in Nat
    BY <1>0 DEF OutboxTypeOK
  <2>2. effect'[e][c] = effect[e][c] + (IF <<e, c>> \in acted[w] THEN 1 ELSE 0)
                                     + (IF <<e, c>> \in extra THEN 1 ELSE 0)
    BY <1>0 DEF Publishes
  <2>. QED BY <2>1, <2>2
<1>2. ASSUME NEW e \in Plain, e \notin batch
      PROVE  row'[e] = row[e] /\ effect'[e] = effect[e]
  <2>1. row'[e] = row[e]
    BY <1>0, <1>2 DEF Publishes
  <2>2. \A c \in Consumer : <<e, c>> \notin acted[w]
    BY <1>0, <1>2 DEF Mine
  <2>3. ASSUME NEW c \in Consumer PROVE effect'[e][c] = effect[e][c]
    <3>1. effect[e][c] \in Nat /\ effect'[e][c] = effect[e][c] + 0
      BY <1>1, <2>2
    <3>. QED BY <3>1
  <2>4. effect[e] \in [Consumer -> Nat] /\ effect'[e] \in [Consumer -> Nat]
    BY <1>0 DEF OutboxTypeOK
  <2>. QED BY <2>1, <2>3, <2>4
<1>3. ASSUME NEW e \in batch
      PROVE  /\ QueuePlace[e] = "queued" /\ QueuePlace'[e] # "absent"
             /\ \A c \in Consumer : Queue!Given(e, c)
             /\ QueuePlace'[e] = "delivered" => \A c \in HandlersOf[e] : QueueTimes'[e][c] = 1
  <2>1. e \in Plain /\ row[e].status \in {"pending", "processing"}
    BY <1>0 DEF Mine
  <2>2. row'[e] = held[w][e] /\ row'[e].status # "absent"
    BY <1>0, <2>1 DEF Publishes, TxSound
  <2>3. QueuePlace[e] = "queued" /\ QueuePlace'[e] # "absent"
    BY <1>0, <2>1, <2>2, PlaceType DEF QueuePlace
  <2>4. ASSUME NEW c \in Consumer PROVE Queue!Given(e, c)
    <3>1. QueueTimes[e][c] = effect[e][c] /\ QueueTimes'[e][c] = effect'[e][c]
      BY <2>1 DEF QueueTimes
    <3>2. CASE <<e, c>> \in acted[w]
      <4>1. effect[e][c] = 0 /\ c \in HandlersOf[e]
        BY <1>0, <2>1, <3>2 DEF Mine, TxSound
      <4>. QED BY <1>1, <2>1, <3>1, <3>2, <4>1 DEF Queue!Given
    <3>3. CASE <<e, c>> \notin acted[w]
      BY <1>1, <2>1, <3>1, <3>3 DEF Queue!Given
    <3>. QED BY <3>2, <3>3
  <2>5. ASSUME QueuePlace'[e] = "delivered", NEW c \in HandlersOf[e]
        PROVE  QueueTimes'[e][c] = 1
    <3>1. c \in Consumer
      BY <1>0, <2>1, OutboxAssumption
    <3>2. row'[e].status \in {"done", "purged"}
      BY <1>0, <2>1, <2>5, PlaceType DEF QueuePlace
    <3>3. effect'[e][c] >= 1 /\ effect'[e][c] <= 1 /\ effect'[e][c] \in Nat
      BY <1>0, <1>1, <2>1, <3>1, <3>2 DEF DoneIsDelivered, AppliedOnce
    <3>. QED BY <2>1, <3>3 DEF QueueTimes
  <2>. QED BY <2>3, <2>4, <2>5
<1>4. QueuePlace' \in [Plain -> {"absent", "queued", "delivered", "dead"}]
  BY <1>0, PlaceType DEF QueuePlace
<1>5. \A e \in Plain \ batch : /\ QueuePlace'[e] = QueuePlace[e] /\ QueueTries'[e] = QueueTries[e]
                               /\ QueueTimes'[e] = QueueTimes[e]
  BY <1>2 DEF QueuePlace, QueueTries, QueueTimes
<1>6. Queue!Deliver(batch)
  <2>. HIDE DEF batch
  <2>. QED BY <1>3, <1>4, <1>5 DEF Queue!Deliver
<1>7. batch \in SUBSET Plain
  OBVIOUS
<1>. QED BY <1>6, <1>7 DEF Queue!QueueNext

LEMMA QueueStep ==
    ASSUME OutboxTypeOK, OutboxTypeOK', InRowEvent, Exclusive, QueueInv, AppliedOnce',
           DoneIsDelivered', [Next]_vars
    PROVE  [Queue!QueueNext]_(Queue!queue)
<1>1. CASE UNCHANGED table
  BY <1>1, QueueSees DEF table
<1>2. ASSUME NEW e \in Event, Publish(e) \/ Timer(e) \/ Ageing(e) \/ Purge(e) \/ Replay(e)
      PROVE  [Queue!QueueNext]_(Queue!queue)
  <2>1. CASE \E c \in Consumer : CheckpointAges(e, c) \/ PurgeCheckpoint(e, c)
    BY <2>1, QueueSees DEF CheckpointAges, PurgeCheckpoint
  <2>. QED BY <1>2, <2>1, RowQueues DEF Ageing, Purge
<1>3. ASSUME NEW w \in Worker, Tick(w) \/ DeadlockVictim(w) \/ TickFails(w)
      PROVE  [Queue!QueueNext]_(Queue!queue)
  <2>1. CASE Commit(w)
    BY <2>1, CommitDelivers DEF Commit
  <2>2. ASSUME NEW c \in Consumer, Drive(w, c) \/ FailTask(w, c)
        PROVE  [Queue!QueueNext]_(Queue!queue)
    <3>1. c \in HandlersOf[cur[w]] \cap Driver
      BY <2>2 DEF Drive, FailTask, Invokable, Dispatchable, InRowEvent, InRow
    <3>2. \A e \in Plain, d \in Consumer : <<e, d>> \notin {<<cur[w], c>>}
      BY <3>1 DEF Plain
    <3>3. Publishes(w, {<<cur[w], c>>}, {}) \/ Publishes(w, {<<cur[w], c>>}, {cur[w]})
      BY <2>2 DEF Drive, FailTask
    <3>. QED BY <3>2, <3>3, CommitDelivers
  <2>3. CASE \/ List(w) \/ PollNothing(w) \/ Refuse(w) \/ MoveTask(w) \/ Record(w) \/ Finish(w)
             \/ DeadlockVictim(w) \/ TickFails(w)
    BY <1>1, <2>3 DEF List, PollNothing, Refuse, Settle, SettleRow, MoveTask, Record, Finish,
                      DeadlockVictim, TickFails, vars
  <2>4. CASE \E e \in Event : Claim(w, e) \/ ClaimLost(w, e)
    BY <1>1, <2>4 DEF Claim, ClaimLost
  <2>5. CASE \E c \in Consumer : Skip(w, c) \/ Handle(w, c) \/ HandleSlot(w, c) \/ DriveNothing(w, c)
                \/ Raise(w, c) \/ RaiseMidway(w, c) \/ Poisoned(w, c)
    BY <1>1, <2>5 DEF Skip, Handle, HandleSlot, DriveNothing, Raise, RaiseMidway, Poisoned,
                      Settle, SettleRow
  <2>. QED BY <1>3, <2>1, <2>2, <2>3, <2>4, <2>5 DEF Tick
<1>. QED BY <1>1, <1>2, <1>3 DEF Next, vars

LEMMA QueueStart ==
    ASSUME Init
    PROVE  Queue!QueueInit /\ QueueInv
<1>1. QueueInv
  BY DEF Init, QueueInv, TxSound, Holds, NothingHeld
<1>2. Plain \subseteq Event
  BY DEF Plain
<1>3. \A e \in Plain : Place(row[e].status) = "absent" /\ row[e].attempts = 0
  BY <1>2 DEF Init, Place
<1>. QED BY <1>1, <1>2, <1>3 DEF Init, Queue!QueueInit, QueuePlace, QueueTries, QueueTimes

(* Of events without a retry consumer the tables implement DeliveryQueue,  *)
(* whatever crashes, is taken over, purged or replayed, provided that no   *)
(* row outlives its checkpoints and that a consumer that raises has        *)
(* written nothing, not even its checkpoint.                               *)
THEOREM DeliveryQueueImplemented ==
    ASSUME ~OutliveRetention, Messy = {}
    PROVE  Spec => ImplementsDeliveryQueue
<1>0. SlotsRaiseFirst /\ WritersRaiseFirst
  BY DEF SlotsRaiseFirst, WritersRaiseFirst
<1>1. Init => Vouched /\ Exclusive /\ QueueInv /\ Queue!QueueInit
  BY VouchedInit, ExclusiveInit, QueueStart
<1>2. /\ OutboxTypeOK /\ OutboxTypeOK' /\ InRowEvent /\ Vouched /\ Exclusive /\ QueueInv
      /\ [Next]_vars
      => Vouched' /\ Exclusive' /\ QueueInv'
  BY <1>0, VouchedStep, ExclusiveStep, QueueInvStep
<1>3. /\ OutboxTypeOK /\ OutboxTypeOK' /\ InRowEvent /\ Exclusive /\ QueueInv
      /\ Vouched' /\ Exclusive' /\ [Next]_vars
      => [Queue!QueueNext]_(Queue!queue)
  BY QueueStep DEF Vouched, Exclusive
<1>. QED BY <1>1, <1>2, <1>3, OutboxTypeCorrect, PTL
         DEF Spec, ImplementsDeliveryQueue, Queue!QueueSpec

=============================================================================
