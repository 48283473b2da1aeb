---------------------------- MODULE DeliveryQueue ----------------------------
(***************************************************************************)
(* What the outbox promises of the events whose consumers write in the     *)
(* dispatcher's transaction ("Delivery Semantics" of                       *)
(* docs/architecture/OUTBOX_EVENT_MODEL.md): an event is queued once, is   *)
(* delivered to each of its consumers exactly once, leaves the queue when  *)
(* all have had it, or as a dead letter, and only a member puts a dead     *)
(* letter back.                                                            *)
(*                                                                         *)
(* Who delivers, under which lock or lease, in how many attempts and what  *)
(* is lost on the way is the business of the module that implements this   *)
(* one.                                                                    *)
(***************************************************************************)
EXTENDS Naturals

CONSTANTS
    Event, Consumer,
    HandlersOf      \* the consumers of an event

VARIABLES
    place,      \* "absent", "queued", "delivered" or "dead"
    tries,      \* what the queue counts of an event's failed deliveries
    times       \* how often a consumer was given an event

queue == <<place, tries, times>>

QueueInit ==
    /\ place = [e \in Event |-> "absent"]
    /\ tries = [e \in Event |-> 0]
    /\ times = [e \in Event |-> [c \in Consumer |-> 0]]

Enqueue(e) ==
    /\ place[e] = "absent"
    /\ place' = [place EXCEPT ![e] = "queued"]
    /\ UNCHANGED <<tries, times>>

(* A consumer is given a queued event for the first time, or not now. *)
Given(e, c) ==
    \/ times'[e][c] = times[e][c]
    \/ c \in HandlersOf[e] /\ times[e][c] = 0 /\ times'[e][c] = 1

(* A batch of queued events is taken through their consumers.  One leaves  *)
(* the queue as delivered only with every consumer served.                 *)
Deliver(batch) ==
    /\ place' \in [Event -> {"absent", "queued", "delivered", "dead"}]
    /\ \A e \in Event \ batch : place'[e] = place[e] /\ tries'[e] = tries[e]
    /\ \A e \in Event \ batch : times'[e] = times[e]
    /\ \A e \in batch :
        /\ place[e] = "queued" /\ place'[e] # "absent"
        /\ \A c \in Consumer : Given(e, c)
        /\ place'[e] = "delivered" => \A c \in HandlersOf[e] : times'[e][c] = 1

(* A dead letter is put back, its attempts start afresh. *)
PutBack(e) ==
    /\ place[e] = "dead"
    /\ place' = [place EXCEPT ![e] = "queued"]
    /\ tries' = [tries EXCEPT ![e] = 0]
    /\ UNCHANGED times

QueueNext ==
    \/ \E e \in Event : Enqueue(e) \/ PutBack(e)
    \/ \E batch \in SUBSET Event : Deliver(batch)

QueueSpec == QueueInit /\ [][QueueNext]_queue

=============================================================================
