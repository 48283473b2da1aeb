---------------------------- MODULE ResponseStream ----------------------------
(***************************************************************************)
(* A client that follows an interaction while workers execute it, cancel   *)
(* it and clear up after each other (InteractionWork):                     *)
(* api/v1/responses/interaction_stream.py and the tailer of                *)
(* kernel/runtime/responses/streaming.py.                                  *)
(*                                                                         *)
(* The tailer never waits for anything but time: a notification of the     *)
(* event bus only ends its pause early, and one that Redis lost or that    *)
(* came before the subscription costs a poll.  Each of its reads is a      *)
(* snapshot of its own (expire_all, rollback before the pause).            *)
(***************************************************************************)
EXTENDS InteractionWork

CONSTANTS
    Page,           \* events in one listing
    MaxReconnects   \* bound on the connections that break

ASSUME StreamAssumption == Page \in Nat \ {0} /\ MaxReconnects \in Nat

VARIABLES
    at,         \* where the request of the client is
    followed,   \* the response it follows
    cursor,     \* the sequence of the last event it was sent
    since,      \* .. as the listing of this round was made with
    told,       \* the sequences of the events the client has
    full,       \* the last listing before the end was a full page
    reconnects

reader == <<at, followed, cursor, since, told, full, reconnects>>
streamVars == <<vars, reader>>

(* Bound: a client is there where heartbeats arrive in time.               *)
StreamInit ==
    /\ Init
    /\ at = (IF steady THEN "claimed" ELSE "absent") /\ followed = 0 /\ cursor = 0 /\ since = 0
    /\ told = <<>> /\ full = FALSE /\ reconnects = 0

(* Events of the response, which are numbered as they come. *)
Events(after, last) == [i \in 1..(last - after) |-> after + i]

(* list_response_events: the first page after a sequence. *)
PageEnd(after) == IF Len(log[followed]) < after + Page THEN Len(log[followed]) ELSE after + Page
Listing(after) == Events(after, PageEnd(after))

(* stream_claimed_interaction waits for the worker to bind a response.  An *)
(* interaction that ended without one is answered by the request itself.   *)
AwaitResponse ==
    /\ at = "claimed"
    /\ IF bound # 0
       THEN at' = "tail" /\ followed' = bound
       ELSE /\ status \in {"failed", "canceled"}
            /\ at' = "refused" /\ UNCHANGED followed
    /\ UNCHANGED <<cursor, since, told, full, reconnects>>

(* A round: everything after the cursor, a page at a time ... *)
TailEvents ==
    /\ at = "tail"
    /\ LET events == Listing(cursor)
       IN /\ told' = told \o events
          /\ cursor' = cursor + Len(events)
          /\ at' = IF Len(events) = Page THEN "tail" ELSE "status"
    /\ since' = IF at' = "tail" THEN 0 ELSE cursor
    /\ UNCHANGED <<followed, full, reconnects>>

(* ... then the status, read after the events. *)
TailStatus ==
    /\ at = "status"
    /\ at' = IF status \in Ended THEN "last" ELSE "tail"
    /\ since' = IF at' = "tail" THEN 0 ELSE since
    /\ UNCHANGED <<followed, cursor, told, full, reconnects>>

(* Mutant: an ended interaction is taken to have been told. *)
TailLast_AtOnce ==
    /\ at = "last"
    /\ at' = "done"
    /\ UNCHANGED <<followed, cursor, since, told, full, reconnects>>

(* What was committed between the two reads: the listing of the round is   *)
(* made again, and what the client has of it is left out.                  *)
TailLast ==
    /\ at = "last"
    /\ LET events == Events(cursor, PageEnd(since))
       IN told' = told \o events /\ cursor' = cursor + Len(events)
    /\ full' = (Len(Listing(since)) = Page)
    /\ at' = "done" /\ since' = 0
    /\ UNCHANGED <<followed, reconnects>>

(* The connection breaks with some frames on their way; the client comes   *)
(* back with Last-Event-ID, the last event it has.                         *)
Reconnect ==
    /\ at \in {"tail", "status", "last"} /\ reconnects < MaxReconnects
    /\ \E n \in 0..Len(told) :
        told' = SubSeq(told, 1, n) /\ cursor' = IF n = 0 THEN 0 ELSE told[n]
    /\ at' = "tail" /\ since' = 0 /\ full' = FALSE
    /\ reconnects' = reconnects + 1
    /\ UNCHANGED followed

Follow == AwaitResponse \/ TailEvents \/ TailStatus \/ TailLast

StreamNext ==
    \/ Next /\ UNCHANGED reader
    \/ (Follow \/ Reconnect) /\ UNCHANGED vars

StreamSpec == StreamInit /\ [][StreamNext]_streamVars
StreamFairSpec == StreamSpec /\ Fairness /\ WF_reader(Follow)

-----------------------------------------------------------------------------
StreamTypeOK ==
    /\ at \in {"absent", "claimed", "refused", "tail", "status", "last", "done"}
    /\ followed \in 0..MaxAttempts /\ cursor \in Nat /\ since \in Nat
    /\ told \in Seq(Nat) /\ full \in BOOLEAN /\ reconnects \in 0..MaxReconnects

(* "Anything the worker committed between the two reads (typically         *)
(* RUN_FINISHED itself) would otherwise never reach the client": a client  *)
(* has the events in order, each once, however often it came back, and     *)
(* when its stream ends the last of them says how the interaction ended.   *)
(* Two streams end before that: one whose last listing was a full page,    *)
(* and one of an interaction canceled with its text open, whose terminal   *)
(* event the endpoint commits after its end.                               *)
StreamIsWhole ==
    /\ told = [i \in 1..cursor |-> i]
    /\ Tame /\ at = "done" =>
        \/ \E i \in 1..cursor : log[followed][i] \in Terminal
        \/ full
        \/ resp[followed] = "canceled" /\ "closed" \in Log(followed)
=============================================================================
