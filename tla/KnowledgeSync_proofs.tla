------------------------ MODULE KnowledgeSync_proofs ------------------------
(***************************************************************************)
(* What TLAPS proves of KnowledgeSync, for any items, workers, processes   *)
(* and bounds.                                                             *)
(***************************************************************************)
EXTENDS KnowledgeSync, SequenceTheorems, TLAPS

(***************************************************************************)
(* Types.                                                                  *)
(***************************************************************************)

Status == {"none"} \cup Active \cup Ended
RunRow == [status : Status, owner : Process \cup {Nobody}, lapsed : BOOLEAN,
           attempts : Nat, cancel : BOOLEAN]
Version == [content : Nat, live : BOOLEAN, tasked : BOOLEAN]
Rows == [Item -> ItemRow \cup {NoRow}]
Documents == [Item -> Seq(Version)]

Listing == {"listing", "item", "versioned", "tasked"}
Removing == {"removing", "deleting"}
Place == {"claimed", "finishing", "ending", "crashed"} \cup Listing \cup Removing
InHand == {"item", "versioned", "tasked", "deleting"}

Loaded == [at : Place, run : Run, attempts : Nat, items : Rows,
           live : SUBSET Item, left : SUBSET Item, seen : SUBSET Item, todo : SUBSET Item,
           cur : Item \cup {Anything}, got : Nat, old : SUBSET Nat,
           truncated : BOOLEAN, failed : BOOLEAN, result : {"none"} \cup Ended,
           there : SUBSET Item, calm : BOOLEAN]

(* A row that was loaded is there for good, and what is in hand is an item *)
(* and, where it is to be retired, one that was loaded.                    *)
MemoryFits(w) ==
    /\ \A i \in Item : work[w].items[i] # NoRow => item[i] # NoRow
    /\ work[w].at \in InHand => work[w].cur \in Item
    /\ \A i \in work[w].todo : work[w].items[i] # NoRow
    /\ work[w].at = "deleting" => work[w].items[work[w].cur] # NoRow

SyncTypeOK ==
    /\ deleteRemoved \in BOOLEAN
    /\ remote \in [Item -> Nat]
    /\ source \in [alive : BOOLEAN, due : BOOLEAN]
    /\ run \in [Run -> RunRow]
    /\ item \in Rows
    /\ document \in Documents
    /\ work \in [Worker -> {Idle} \cup Loaded]
    /\ member \in {Idle} \cup [at : {"cancel", "delete"}, run : Run, queued : BOOLEAN]
    /\ changes \in Nat /\ faults \in Nat /\ overlaps \in Nat
    /\ \A w \in Worker : work[w] # Idle => MemoryFits(w)

(***************************************************************************)
(* Invariants.                                                             *)
(***************************************************************************)

(* What the remote held all along was listed, or is still to come.         *)
Kept(w) ==
    /\ \A i \in work[w].there : remote[i] # Absent
    /\ work[w].at \in Listing => work[w].there \subseteq work[w].left \cup work[w].seen
    /\ work[w].at \in Removing => work[w].there \cap work[w].todo = {}
    /\ work[w].at = "deleting" => work[w].cur \notin work[w].there

KeptInv == \A w \in Worker : work[w] # Idle => Kept(w)

(* One run of the source is active, and one worker has it, under the lease *)
(* it claimed.                                                             *)
Sole ==
    /\ \A r, q \in Run : run[r].status \in Active /\ run[q].status \in Active => r = q
    /\ \A w \in Worker : work[w] # Idle =>
        /\ Row(w).status = "running" /\ Owns(w) /\ ~Row(w).lapsed
        /\ Row(w).attempts = work[w].attempts
        /\ \A v \in Worker \ {w} : work[v] = Idle

(* What an item is said to be is what its document is, and was ingested.   *)
Ingested ==
    \A i \in Item : item[i] # NoRow =>
        /\ item[i].document \in 0..Len(document[i])
        /\ item[i].document # 0 =>
            /\ document[i][item[i].document].content = item[i].content
            /\ document[i][item[i].document].tasked

(* The worker's copies are the rows, it knows of the documents that are    *)
(* there, the version in hand is the newest, and what is to be deleted is  *)
(* all there is.                                                           *)
CopiesCurrent(w) == work[w].at \in Listing \cup Removing => work[w].items = item

KnowsLive(w) ==
    work[w].at \in Listing =>
        \A i \in Item : item[i] # NoRow /\ item[i].document \in LiveDocuments(i) => i \in work[w].live

NewestInHand(w) ==
    work[w].at \in {"versioned", "tasked"} =>
        LET i == work[w].cur
            k == Len(document[i]) IN
        /\ work[w].old = {k} /\ k > 0
        /\ document[i][k].content = work[w].got
        /\ document[i][k].tasked <=> work[w].at = "tasked"

AllInHand(w) ==
    work[w].at = "deleting" /\ deleteRemoved /\ item[work[w].cur].content # Absent =>
        LiveDocuments(work[w].cur) \subseteq work[w].old

Abreast(w) == CopiesCurrent(w) /\ KnowsLive(w) /\ NewestInHand(w) /\ AllInHand(w)

SoleInv == overlaps = 0 =>
    /\ Sole /\ Ingested
    /\ \A w \in Worker : work[w] # Idle => Abreast(w)

(* No version repeats one that is there and was ingested. *)
SkipsDone ==
    \A i \in Item : \A k \in 2..Len(document[i]) :
        document[i][k].content = document[i][k - 1].content =>
            ~document[i][k - 1].live \/ ~document[i][k - 1].tasked

(* The newest version of an item, if it is there and was ingested, is the  *)
(* one that is recorded, or is about to be.                                *)
NewestKnown ==
    \A i \in Item :
        LET k == Len(document[i]) IN
        k > 0 /\ document[i][k].live /\ document[i][k].tasked =>
            \/ item[i] # NoRow /\ item[i].document = k
            \/ \E w \in Worker : At(w, "tasked") /\ work[w].cur = i

OnceInv == faults = 0 /\ overlaps = 0 => SkipsDone /\ NewestKnown

(* Item i is dealt with, if the worker did not fail: what the listing did  *)
(* not show is gone, and retired once the listing has ended.               *)
Settled(w, i) ==
    /\ i \notin work[w].seen => remote[i] = Absent
    /\ i \in work[w].seen \/ work[w].at \notin Listing => work[w].failed \/ Mirrors(i)

(* While nothing changes outside, a worker knows which documents are there *)
(* and what the remote has of the item in hand, and all others are dealt   *)
(* with or are still to come.                                              *)
LiveKnown(w) ==
    work[w].at \in Listing =>
        \A i \in work[w].live : item[i] # NoRow /\ item[i].document \in LiveDocuments(i)

Listed(w) ==
    work[w].at \in Listing =>
        /\ work[w].left \cap work[w].seen = {}
        /\ \A i \in Item :
            i \in work[w].left \/ (work[w].at # "listing" /\ i = work[w].cur) \/ Settled(w, i)
        /\ work[w].at # "listing" =>
            work[w].cur \in work[w].seen /\ work[w].got = remote[work[w].cur] /\ work[w].got # Absent

NewestLive(w) ==
    work[w].at \in {"versioned", "tasked"} =>
        \A k \in work[w].old : document[work[w].cur][k].live

Retired(w) ==
    work[w].at \in Removing =>
        /\ work[w].todo \cap work[w].seen = {}
        /\ work[w].at = "deleting" => work[w].cur \notin work[w].seen
        /\ \A i \in Item :
            \/ /\ i \in work[w].todo \/ (work[w].at = "deleting" /\ i = work[w].cur)
               /\ remote[i] = Absent
            \/ Settled(w, i)

Told(w) ==
    work[w].at \in {"finishing", "ending"} /\ work[w].result = "succeeded" /\ ~work[w].truncated =>
        \A i \in Item : Mirrors(i)

Calm(w) == LiveKnown(w) /\ Listed(w) /\ NewestLive(w) /\ Retired(w) /\ Told(w)

StepInv == overlaps = 0 =>
    \A w \in Worker : work[w] # Idle =>
        /\ work[w].at = "claimed" => work[w].seen = {}
        /\ work[w].calm => Calm(w)

-----------------------------------------------------------------------------
(* Types.  Two numbers of the source differ; the copies are rows.          *)

LEMMA Members ==
    /\ Idle \notin Loaded
    /\ \A m \in Loaded : m # Idle /\ m.at # "idle"
    /\ \A w \in Worker : ProcessOf[w] \in Process /\ ProcessOf[w] # Nobody
    /\ NewRun \in RunRow /\ NoRun \in RunRow
    /\ NoRow \notin ItemRow
<1>1. Idle \notin Loaded /\ \A m \in Loaded : m # Idle /\ m.at # "idle"
  BY DEF Idle, Loaded, Place, Listing, Removing
<1>2. \A w \in Worker : ProcessOf[w] \in Process
  BY DEF Process
<1>3. NewRun \in RunRow /\ NoRun \in RunRow
  BY DEF NewRun, NoRun, RunRow, Status, Active, Ended
<1> QED BY <1>1, <1>2, <1>3, SyncAssumption

LEMMA MemoryType ==
    ASSUME NEW place \in Place, NEW r \in Run, NEW a \in Nat
    PROVE  /\ Memory(place, r, a) \in Loaded
           /\ Memory(place, r, a).at = place /\ Memory(place, r, a).run = r
           /\ Memory(place, r, a).attempts = a
           /\ Memory(place, r, a).items = [i \in Item |-> NoRow]
           /\ Memory(place, r, a).todo = {} /\ Memory(place, r, a).there = {}
           /\ Memory(place, r, a).result = "none" /\ Memory(place, r, a).calm = FALSE
  BY DEF Memory, Loaded, Rows, Absent

LEMMA VersionFields ==
    ASSUME NEW v \in Version
    PROVE  /\ [v EXCEPT !.live = FALSE] = [content |-> v.content, live |-> FALSE, tasked |-> v.tasked]
           /\ [v EXCEPT !.tasked = TRUE] = [content |-> v.content, live |-> v.live, tasked |-> TRUE]
           /\ [content |-> v.content, live |-> FALSE, tasked |-> v.tasked] \in Version
           /\ [content |-> v.content, live |-> v.live, tasked |-> TRUE] \in Version
<1>1. \A x, y \in Version : x.content = y.content /\ x.live = y.live /\ x.tasked = y.tasked => x = y
  BY DEF Version
<1> DEFINE x == [v EXCEPT !.live = FALSE]
           y == [v EXCEPT !.tasked = TRUE]
<1>2. x \in Version /\ x.content = v.content /\ x.live = FALSE /\ x.tasked = v.tasked
  BY DEF Version
<1>3. y \in Version /\ y.content = v.content /\ y.live = v.live /\ y.tasked = TRUE
  BY DEF Version
<1>4. /\ [content |-> v.content, live |-> FALSE, tasked |-> v.tasked] \in Version
      /\ [content |-> v.content, live |-> v.live, tasked |-> TRUE] \in Version
  BY DEF Version
<1> HIDE DEF x, y
<1>5. x = [content |-> v.content, live |-> FALSE, tasked |-> v.tasked]
  BY <1>1, <1>2, <1>4
<1>6. y = [content |-> v.content, live |-> v.live, tasked |-> TRUE]
  BY <1>1, <1>3, <1>4
<1> QED BY <1>4, <1>5, <1>6 DEF x, y

LEMMA SequenceUpdated ==
    ASSUME NEW s \in Seq(Version), NEW k \in 1..Len(s), NEW v \in Version
    PROVE  /\ [s EXCEPT ![k] = v] \in Seq(Version)
           /\ Len([s EXCEPT ![k] = v]) = Len(s)
           /\ \A m \in 1..Len(s) : [s EXCEPT ![k] = v][m] = IF m = k THEN v ELSE s[m]
  BY ExceptSeq

(* A version of a document is deleted. *)
LEMMA VersionDeleted ==
    ASSUME document \in Documents, NEW i \in Item, NEW k \in DOMAIN document[i],
           document' = [document EXCEPT ![i][k].live = FALSE]
    PROVE  /\ document' \in Documents
           /\ \A j \in Item : Len(document'[j]) = Len(document[j]) /\ DOMAIN document'[j] = DOMAIN document[j]
           /\ \A j \in Item \ {i} : document'[j] = document[j]
           /\ \A m \in DOMAIN document[i] : document'[i][m] =
                IF m = k THEN [content |-> document[i][k].content, live |-> FALSE,
                               tasked |-> document[i][k].tasked]
                ELSE document[i][m]
<1> DEFINE v == [content |-> document[i][k].content, live |-> FALSE, tasked |-> document[i][k].tasked]
<1>1. document[i] \in Seq(Version) /\ k \in 1..Len(document[i])
  BY DEF Documents
<1>2. document[i][k] \in Version
  BY <1>1, ElementOfSeq
<1>3. v \in Version /\ [document[i][k] EXCEPT !.live = FALSE] = v
  BY <1>2, VersionFields
<1>4. document'[i] = [document[i] EXCEPT ![k] = v] /\ \A j \in Item \ {i} : document'[j] = document[j]
  BY <1>3 DEF Documents
<1> HIDE DEF v
<1>5. /\ document'[i] \in Seq(Version) /\ Len(document'[i]) = Len(document[i])
      /\ \A m \in 1..Len(document[i]) : document'[i][m] = IF m = k THEN v ELSE document[i][m]
  <2> DEFINE s == document[i]
             u == [s EXCEPT ![k] = v]
  <2>1. s \in Seq(Version) /\ k \in 1..Len(s) /\ v \in Version /\ document'[i] = u
    BY <1>1, <1>3, <1>4
  <2> HIDE DEF s
  <2>2. u \in Seq(Version) /\ Len(u) = Len(s) /\ \A m \in 1..Len(s) : u[m] = IF m = k THEN v ELSE s[m]
    BY <2>1, SequenceUpdated
  <2> HIDE DEF u
  <2> QED BY <2>1, <2>2 DEF s
<1>6. document' \in Documents
  BY <1>4, <1>5 DEF Documents
<1>7. \A j \in Item : Len(document'[j]) = Len(document[j]) /\ DOMAIN document'[j] = DOMAIN document[j]
  BY <1>4, <1>5, <1>6 DEF Documents
<1> QED BY <1>1, <1>4, <1>5, <1>6, <1>7 DEF v, Documents

(* A version of a document is added. *)
AddsVersion(i, v) == document' = [document EXCEPT ![i] = Append(@, v)]

LEMMA VersionAdded ==
    ASSUME document \in Documents, NEW i \in Item, NEW v \in Version, AddsVersion(i, v),
           NEW n \in Nat, n = Len(document[i])
    PROVE  /\ document' \in Documents
           /\ \A j \in Item \ {i} : document'[j] = document[j]
           /\ Len(document'[i]) = n + 1
           /\ DOMAIN document[i] = 1..n /\ DOMAIN document'[i] = 1..(n + 1)
           /\ document'[i][n + 1] = v
           /\ \A m \in DOMAIN document[i] : document'[i][m] = document[i][m]
<1>1. document[i] \in Seq(Version)
  BY DEF Documents
<1>2. document'[i] = Append(document[i], v) /\ \A j \in Item \ {i} : document'[j] = document[j]
  BY DEF Documents, AddsVersion
<1>3. document' \in Documents
  BY <1>1, <1>2 DEF Documents, AddsVersion
<1> QED BY <1>1, <1>2, <1>3

(* Some versions of a document get their task. *)
GetTask(i, ks) ==
    document' = [document EXCEPT ![i] =
        [k \in DOMAIN @ |-> IF k \in ks THEN [@[k] EXCEPT !.tasked = TRUE] ELSE @[k]]]

LEMMA VersionTasked ==
    ASSUME document \in Documents, NEW i \in Item, NEW ks, GetTask(i, ks)
    PROVE  /\ document' \in Documents
           /\ \A j \in Item : Len(document'[j]) = Len(document[j]) /\ DOMAIN document'[j] = DOMAIN document[j]
           /\ \A j \in Item \ {i} : document'[j] = document[j]
           /\ \A m \in DOMAIN document[i] : document'[i][m] =
                IF m \in ks THEN [content |-> document[i][m].content, live |-> document[i][m].live,
                                  tasked |-> TRUE]
                ELSE document[i][m]
<1> DEFINE t == [k \in DOMAIN document[i] |->
                    IF k \in ks THEN [document[i][k] EXCEPT !.tasked = TRUE] ELSE document[i][k]]
<1>1. document[i] \in Seq(Version) /\ DOMAIN document[i] = 1..Len(document[i]) /\ Len(document[i]) \in Nat
  BY DEF Documents
<1>2. \A k \in 1..Len(document[i]) : document[i][k] \in Version
  BY <1>1, ElementOfSeq
<1>3. /\ document'[i] = t /\ \A j \in Item \ {i} : document'[j] = document[j]
      /\ document' = [document EXCEPT ![i] = t]
  BY DEF GetTask, Documents
<1>4. t \in [1..Len(document[i]) -> Version]
  BY <1>1, <1>2 DEF Version
<1>5. t \in Seq(Version)
  BY <1>1, <1>4, SeqDef
<1>6. Len(t) = Len(document[i]) /\ DOMAIN t = DOMAIN document[i]
  BY <1>1, <1>5
<1>7. \A m \in DOMAIN document[i] : t[m] =
        IF m \in ks THEN [content |-> document[i][m].content, live |-> document[i][m].live,
                          tasked |-> TRUE]
        ELSE document[i][m]
  BY <1>1, <1>2, VersionFields
<1> HIDE DEF t
<1>8. document' \in Documents
  BY <1>3, <1>5 DEF Documents
<1> QED BY <1>3, <1>6, <1>7, <1>8

(* A loaded row is written. *)
LEMMA StoresType ==
    ASSUME SyncTypeOK, NEW w \in Worker, work[w] # Idle, NEW i \in Item, NEW new \in ItemRow,
           Stores(w, i, new)
    PROVE  /\ item' \in Rows
           /\ \A j \in Item \ {i} : item'[j] = item[j]
           /\ item'[i] \in ItemRow
           /\ Copy(w, i) = NoRow => item[i] = NoRow /\ item'[i] = new
           /\ Copy(w, i) = item[i] => item'[i] = new
           /\ \A j \in Item : item[j] # NoRow => item'[j] # NoRow
<1>1. item \in Rows /\ Copy(w, i) \in ItemRow \cup {NoRow} /\ NoRow \notin ItemRow
  BY Members DEF SyncTypeOK, Loaded, Rows, Copy
<1>2. Copy(w, i) # NoRow => Copy(w, i) \in ItemRow /\ item[i] \in ItemRow
  BY <1>1 DEF SyncTypeOK, MemoryFits, Rows, Copy
<1>3. Copy(w, i) = NoRow => item[i] = NoRow
  BY DEF Stores, Storable
<1> DEFINE row == [f \in DOMAIN new |-> IF new[f] # Copy(w, i)[f] THEN new[f] ELSE item[i][f]]
<1>4. ASSUME Copy(w, i) # NoRow PROVE row \in ItemRow /\ (Copy(w, i) = item[i] => row = new)
  <2>1. DOMAIN new = {"status", "content", "document"}
    BY DEF ItemRow
  <2>2. row = [f \in {"status", "content", "document"} |->
                  IF new[f] # Copy(w, i)[f] THEN new[f] ELSE item[i][f]]
    BY <2>1
  <2>3. row \in ItemRow
    BY <1>2, <1>4, <2>2 DEF ItemRow
  <2>4. \A x, y \in ItemRow : x.status = y.status /\ x.content = y.content /\ x.document = y.document => x = y
    BY DEF ItemRow
  <2>5. Copy(w, i) = item[i] => row.status = new.status /\ row.content = new.content /\ row.document = new.document
    BY <2>2
  <2> HIDE DEF row
  <2> QED BY <2>3, <2>4, <2>5
<1>5. item' = [item EXCEPT ![i] = IF Copy(w, i) = NoRow THEN new ELSE row]
  BY DEF Stores
<1> HIDE DEF row
<1>6. item'[i] = (IF Copy(w, i) = NoRow THEN new ELSE row) /\ \A j \in Item \ {i} : item'[j] = item[j]
  BY <1>1, <1>5 DEF Rows
<1>7. item' \in Rows /\ item'[i] \in ItemRow
  BY <1>1, <1>4, <1>5, <1>6 DEF Rows
<1> QED BY <1>1, <1>3, <1>4, <1>6, <1>7 DEF Rows

LEMMA RowsNamed ==
    ASSUME NEW x \in ItemRow
    PROVE  /\ \A s \in {"present", "failed", "removed"} : [x EXCEPT !.status = s] \in ItemRow
           /\ \A s \in {"present", "failed", "removed"}, c, d \in Nat :
                [status |-> s, content |-> c, document |-> d] \in ItemRow
  BY DEF ItemRow

LEMMA BaseType ==
    ASSUME SyncTypeOK, NEW w \in Worker, work[w] # Idle, NEW i \in Item
    PROVE  Base(w, i) \in ItemRow
  BY Members DEF SyncTypeOK, Loaded, Rows, Base, Blank, Copy, ItemRow, Absent

-----------------------------------------------------------------------------
(* What a step makes of a worker's memory, field by field.                 *)

Becomes(w, place, items, live, left, seen, todo, cur, got, old, failed) ==
    /\ work[w] \in Loaded /\ work'[w] \in Loaded
    /\ work' = [work EXCEPT ![w] = work'[w]] /\ \A v \in Worker \ {w} : work'[v] = work[v]
    /\ work'[w].at = place /\ work'[w].run = work[w].run /\ work'[w].attempts = work[w].attempts
    /\ work'[w].items = items /\ work'[w].live = live /\ work'[w].left = left
    /\ work'[w].seen = seen /\ work'[w].todo = todo /\ work'[w].cur = cur
    /\ work'[w].got = got /\ work'[w].old = old /\ work'[w].failed = failed
    /\ work'[w].truncated = work[w].truncated /\ work'[w].result = work[w].result
    /\ work'[w].there = work[w].there /\ work'[w].calm = work[w].calm

LEMMA MovedMemory ==
    ASSUME SyncTypeOK, NEW w \in Worker, NEW m \in Loaded, Moves(w, m)
    PROVE  work'[w] = m /\ work' = [work EXCEPT ![w] = m] /\ \A v \in Worker \ {w} : work'[v] = work[v]
  BY DEF SyncTypeOK, Moves

LEMMA Awake ==
    ASSUME SyncTypeOK, NEW w \in Worker, work[w] # Idle
    PROVE  /\ work[w] \in Loaded /\ work[w].items \in Rows /\ work[w].run \in Run
           /\ work[w].live \subseteq Item /\ work[w].left \subseteq Item /\ work[w].seen \subseteq Item
           /\ work[w].todo \subseteq Item /\ work[w].old \subseteq Nat /\ work[w].attempts \in Nat
  BY DEF SyncTypeOK, Loaded

(* An item that is not there is passed. *)
LEMMA PassAbsentEffect ==
    ASSUME SyncTypeOK, NEW w \in Worker, NEW i \in Item, PassAbsent(w, i)
    PROVE  Becomes(w, work[w].at, work[w].items, work[w].live, work[w].left \ {i},
                   work[w].seen, work[w].todo, work[w].cur, work[w].got, work[w].old,
                   work[w].failed)
<1> DEFINE x == work[w]
           m == [x EXCEPT !.left = @ \ {i}]
<1>1. x \in Loaded
  BY Awake, Members DEF PassAbsent, At, Idle
<1>2. Moves(w, m)
  BY DEF PassAbsent
<1> HIDE DEF x
<1>4. m \in Loaded
  BY <1>1 DEF Loaded, Place, Listing, Removing
<1>5. /\ m.at = x.at /\ m.items = x.items /\ m.live = x.live /\ m.left = x.left \ {i}
      /\ m.seen = x.seen /\ m.todo = x.todo /\ m.cur = x.cur /\ m.got = x.got /\ m.old = x.old
      /\ m.failed = x.failed /\ m.run = x.run /\ m.attempts = x.attempts /\ m.truncated = x.truncated
      /\ m.result = x.result /\ m.there = x.there /\ m.calm = x.calm
  BY <1>1 DEF Loaded
<1> HIDE DEF m
<1> QED BY <1>1, <1>2, <1>4, <1>5, MovedMemory DEF Becomes, x

(* An item is taken in hand. *)
LEMMA EnterEffect ==
    ASSUME SyncTypeOK, NEW w \in Worker, NEW i \in Item, Enter(w, i)
    PROVE  Becomes(w, "item", work[w].items, work[w].live, work[w].left \ {i}, work[w].seen
                   \cup {i}, work[w].todo, i, remote[i], work[w].old, work[w].failed)
<1> DEFINE x == work[w]
           m == [x EXCEPT !.at = "item", !.left = @ \ {i}, !.cur = i, !.got = remote[i], !.seen
                          = @ \cup {i}]
<1>1. x \in Loaded
  BY Awake, Members DEF Enter, At, Idle
<1>2. Moves(w, m)
  BY DEF Enter
<1>3. remote[i] \in Nat
  BY <1>1, Awake, Members DEF SyncTypeOK
<1> HIDE DEF x
<1>4. m \in Loaded
  BY <1>1, <1>3 DEF Loaded, Place, Listing, Removing
<1>5. /\ m.at = "item" /\ m.items = x.items /\ m.live = x.live /\ m.left = x.left \ {i}
      /\ m.seen = x.seen \cup {i} /\ m.todo = x.todo /\ m.cur = i /\ m.got = remote[i]
      /\ m.old = x.old /\ m.failed = x.failed /\ m.run = x.run /\ m.attempts = x.attempts
      /\ m.truncated = x.truncated /\ m.result = x.result /\ m.there = x.there /\ m.calm = x.calm
  BY <1>1 DEF Loaded
<1> HIDE DEF m
<1> QED BY <1>1, <1>2, <1>4, <1>5, MovedMemory DEF Becomes, x

(* A version is made. *)
LEMMA CreateVersionEffect ==
    ASSUME SyncTypeOK, NEW w \in Worker, CreateVersion(w)
    PROVE  Becomes(w, "versioned", work[w].items, work[w].live, work[w].left, work[w].seen,
                   work[w].todo, work[w].cur, remote[work[w].cur], {Len(document[work[w].cur])
                   + 1}, work[w].failed)
<1> DEFINE x == work[w]
           got == remote[work[w].cur]
           old == {Len(document[work[w].cur]) + 1}
           m == [x EXCEPT !.at = "versioned", !.got = got, !.old = old]
<1>1. x \in Loaded
  BY Awake, Members DEF CreateVersion, Fetchable, At, Idle
<1>2. Moves(w, m)
  BY DEF CreateVersion
<1>3. got \in Nat /\ old \in SUBSET Nat
  BY <1>1, Awake, Members DEF SyncTypeOK, Documents, MemoryFits, InHand, CreateVersion, Fetchable, At, Idle
<1> HIDE DEF x, got, old
<1>4. m \in Loaded
  BY <1>1, <1>3 DEF Loaded, Place, Listing, Removing
<1>5. /\ m.at = "versioned" /\ m.items = x.items /\ m.live = x.live /\ m.left = x.left
      /\ m.seen = x.seen /\ m.todo = x.todo /\ m.cur = x.cur /\ m.got = got
      /\ m.old = old /\ m.failed = x.failed /\ m.run = x.run
      /\ m.attempts = x.attempts /\ m.truncated = x.truncated /\ m.result = x.result /\ m.there = x.there
      /\ m.calm = x.calm
  BY <1>1 DEF Loaded
<1> HIDE DEF m
<1> QED BY <1>1, <1>2, <1>4, <1>5, MovedMemory DEF Becomes, x, got, old

(* A worker goes on to another place. *)
LEMMA GoesEffect ==
    ASSUME SyncTypeOK, NEW w \in Worker, NEW place \in Place, work[w] # Idle, Goes(w, place)
    PROVE  Becomes(w, place, work[w].items, work[w].live, work[w].left, work[w].seen,
                   work[w].todo, work[w].cur, work[w].got, work[w].old, work[w].failed)
<1> DEFINE x == work[w]
           m == [x EXCEPT !.at = place]
<1>1. x \in Loaded
  BY Awake, Members DEF At, Idle
<1>2. Moves(w, m)
  BY DEF Goes
<1> HIDE DEF x
<1>4. m \in Loaded
  BY <1>1 DEF Loaded, Place, Listing, Removing
<1>5. /\ m.at = place /\ m.items = x.items /\ m.live = x.live /\ m.left = x.left /\ m.seen = x.seen
      /\ m.todo = x.todo /\ m.cur = x.cur /\ m.got = x.got /\ m.old = x.old /\ m.failed = x.failed
      /\ m.run = x.run /\ m.attempts = x.attempts /\ m.truncated = x.truncated /\ m.result = x.result
      /\ m.there = x.there /\ m.calm = x.calm
  BY <1>1 DEF Loaded
<1> HIDE DEF m
<1> QED BY <1>1, <1>2, <1>4, <1>5, MovedMemory DEF Becomes, x

(* The listing ends. *)
LEMMA EndListingEffect ==
    ASSUME SyncTypeOK, NEW w \in Worker, EndListing(w)
    PROVE  Becomes(w, "removing", work[w].items, work[w].live, work[w].left, work[w].seen, {i
                   \in Item \ work[w].seen : Copy(w, i) # NoRow /\ Copy(w, i).status #
                   "removed"}, work[w].cur, work[w].got, work[w].old, work[w].failed)
<1> DEFINE x == work[w]
           m == [x EXCEPT !.at = "removing", !.todo = {i \in Item \ work[w].seen : Copy(w, i) #
                          NoRow /\ Copy(w, i).status # "removed"}]
<1>1. x \in Loaded
  BY Awake, Members DEF EndListing, At, Idle
<1>2. Moves(w, m)
  BY DEF EndListing
<1> HIDE DEF x
<1>4. m \in Loaded
  BY <1>1 DEF Loaded, Place, Listing, Removing
<1>5. /\ m.at = "removing" /\ m.items = x.items /\ m.live = x.live /\ m.left = x.left
      /\ m.seen = x.seen /\ m.todo = {i \in Item \ work[w].seen : Copy(w, i) # NoRow /\ Copy(w, i).status # "removed"}
      /\ m.cur = x.cur /\ m.got = x.got /\ m.old = x.old /\ m.failed = x.failed /\ m.run = x.run
      /\ m.attempts = x.attempts /\ m.truncated = x.truncated /\ m.result = x.result /\ m.there = x.there
      /\ m.calm = x.calm
  BY <1>1 DEF Loaded
<1> HIDE DEF m
<1> QED BY <1>1, <1>2, <1>4, <1>5, MovedMemory DEF Becomes, x

(* The removal of an item begins. *)
LEMMA RetireEffect ==
    ASSUME SyncTypeOK, NEW w \in Worker, NEW i \in Item, Retire(w, i)
    PROVE  Becomes(w, "deleting", work[w].items, work[w].live, work[w].left, work[w].seen,
                   work[w].todo \ {i}, i, work[w].got, (IF deleteRemoved /\ Copy(w, i).content
                   # Absent THEN LiveDocuments(i) ELSE {}), work[w].failed)
<1> DEFINE x == work[w]
           m == [x EXCEPT !.at = "deleting", !.cur = i, !.todo = @ \ {i}, !.old = (IF
                          deleteRemoved /\ Copy(w, i).content # Absent THEN LiveDocuments(i) ELSE {})]
<1>1. x \in Loaded
  BY Awake, Members DEF Retire, At, Idle
<1>2. Moves(w, m)
  BY DEF Retire
<1>3. LiveDocuments(i) \in SUBSET Nat
  BY <1>1, Awake, Members DEF SyncTypeOK, Documents, LiveDocuments
<1> HIDE DEF x
<1>4. m \in Loaded
  BY <1>1, <1>3 DEF Loaded, Place, Listing, Removing
<1>5. /\ m.at = "deleting" /\ m.items = x.items /\ m.live = x.live /\ m.left = x.left
      /\ m.seen = x.seen /\ m.todo = x.todo \ {i} /\ m.cur = i /\ m.got = x.got
      /\ m.old = (IF deleteRemoved /\ Copy(w, i).content # Absent THEN LiveDocuments(i) ELSE {})
      /\ m.failed = x.failed /\ m.run = x.run /\ m.attempts = x.attempts /\ m.truncated = x.truncated
      /\ m.result = x.result /\ m.there = x.there /\ m.calm = x.calm
  BY <1>1 DEF Loaded
<1> HIDE DEF m
<1> QED BY <1>1, <1>2, <1>4, <1>5, MovedMemory DEF Becomes, x

(* The removal of an item fails. *)
LEMMA RemovalFailsEffect ==
    ASSUME SyncTypeOK, NEW w \in Worker, RemovalFails(w)
    PROVE  Becomes(w, "removing", work[w].items, work[w].live, work[w].left, work[w].seen,
                   work[w].todo, Anything, work[w].got, {}, TRUE)
<1> DEFINE x == work[w]
           m == [x EXCEPT !.at = "removing", !.failed = TRUE, !.cur = Anything, !.old = {}]
<1>1. x \in Loaded
  BY Awake, Members DEF RemovalFails, At, Idle
<1>2. Moves(w, m)
  BY DEF RemovalFails
<1> HIDE DEF x
<1>4. m \in Loaded
  BY <1>1 DEF Loaded, Place, Listing, Removing
<1>5. /\ m.at = "removing" /\ m.items = x.items /\ m.live = x.live /\ m.left = x.left
      /\ m.seen = x.seen /\ m.todo = x.todo /\ m.cur = Anything /\ m.got = x.got /\ m.old = {}
      /\ m.failed = TRUE /\ m.run = x.run /\ m.attempts = x.attempts /\ m.truncated = x.truncated
      /\ m.result = x.result /\ m.there = x.there /\ m.calm = x.calm
  BY <1>1 DEF Loaded
<1> HIDE DEF m
<1> QED BY <1>1, <1>2, <1>4, <1>5, MovedMemory DEF Becomes, x

(* A version is deleted. *)
LEMMA DeleteVersionEffect ==
    ASSUME SyncTypeOK, NEW w \in Worker, NEW k, DeleteVersion(w, k)
    PROVE  Becomes(w, work[w].at, work[w].items, work[w].live, work[w].left, work[w].seen,
                   work[w].todo, work[w].cur, work[w].got, work[w].old \ {k}, work[w].failed)
<1> DEFINE x == work[w]
           m == [x EXCEPT !.old = @ \ {k}]
<1>1. x \in Loaded
  BY Awake, Members DEF DeleteVersion, At, Idle
<1>2. Moves(w, m)
  BY DEF DeleteVersion
<1> HIDE DEF x
<1>4. m \in Loaded
  BY <1>1 DEF Loaded, Place, Listing, Removing
<1>5. /\ m.at = x.at /\ m.items = x.items /\ m.live = x.live /\ m.left = x.left /\ m.seen = x.seen
      /\ m.todo = x.todo /\ m.cur = x.cur /\ m.got = x.got /\ m.old = x.old \ {k} /\ m.failed = x.failed
      /\ m.run = x.run /\ m.attempts = x.attempts /\ m.truncated = x.truncated /\ m.result = x.result
      /\ m.there = x.there /\ m.calm = x.calm
  BY <1>1 DEF Loaded
<1> HIDE DEF m
<1> QED BY <1>1, <1>2, <1>4, <1>5, MovedMemory DEF Becomes, x

(* Done with an item. *)
LEMMA KeepsEffect ==
    ASSUME SyncTypeOK, NEW w \in Worker, NEW place \in Place, NEW i \in Item, NEW new \in ItemRow,
           NEW extra \in SUBSET Item, work[w] # Idle, Keeps(w, place, i, new, extra)
    PROVE  Becomes(w, place, [work[w].items EXCEPT ![i] = new], work[w].live \cup extra,
                   work[w].left, work[w].seen, work[w].todo, Anything, Absent, {},
                   (work[w].failed \/ new.status = "failed"))
<1> DEFINE x == work[w]
           m == [x EXCEPT !.at = place, !.items = [@ EXCEPT ![i] = new], !.live = @ \cup extra,
                          !.cur = Anything, !.got = Absent, !.old = {}, !.failed = (@ \/ new.status =
                          "failed")]
<1>1. x \in Loaded
  BY Awake, Members DEF At, Idle
<1>2. Moves(w, m)
  BY DEF Keeps
<1> HIDE DEF x
<1>4. m \in Loaded
  <2>1. [x.items EXCEPT ![i] = new] \in Rows
    BY <1>1 DEF Loaded, Rows
  <2> DEFINE its == [x.items EXCEPT ![i] = new]
             f == (x.failed \/ new.status = "failed")
  <2>2. f \in BOOLEAN
    OBVIOUS
  <2>3. m = [x EXCEPT !.at = place, !.items = its, !.live = @ \cup extra, !.cur = Anything,
                      !.got = Absent, !.old = {}, !.failed = f]
    BY <1>1 DEF Loaded
  <2> HIDE DEF its, f, m
  <2> QED BY <1>1, <2>1, <2>2, <2>3 DEF Loaded, Absent, its
<1>5. /\ m.at = place /\ m.items = [x.items EXCEPT ![i] = new] /\ m.live = x.live \cup extra
      /\ m.left = x.left /\ m.seen = x.seen /\ m.todo = x.todo /\ m.cur = Anything /\ m.got = Absent
      /\ m.old = {} /\ m.failed = (x.failed \/ new.status = "failed") /\ m.run = x.run
      /\ m.attempts = x.attempts /\ m.truncated = x.truncated /\ m.result = x.result /\ m.there = x.there
      /\ m.calm = x.calm
  BY <1>1 DEF Loaded
<1> HIDE DEF m
<1> QED BY <1>1, <1>2, <1>4, <1>5, MovedMemory DEF Becomes, x

(* A run is given its result, and what was loaded is forgotten. *)
LEMMA ConcludesEffect ==
    ASSUME SyncTypeOK, NEW w \in Worker, work[w] # Idle, NEW result \in Ended, NEW t \in BOOLEAN,
           Concludes(w, result, t)
    PROVE  /\ work[w] \in Loaded /\ work'[w] \in Loaded
           /\ work' = [work EXCEPT ![w] = work'[w]] /\ \A v \in Worker \ {w} : work'[v] = work[v]
           /\ work'[w].at = "finishing" /\ work'[w].run = work[w].run
           /\ work'[w].attempts = work[w].attempts /\ work'[w].items = [i \in Item |-> NoRow]
           /\ work'[w].todo = {} /\ work'[w].there = {}
           /\ work'[w].result = result /\ work'[w].truncated = t /\ work'[w].calm = work[w].calm
<1> DEFINE y == Memory("finishing", work[w].run, work[w].attempts)
           c == work[w].calm
           m == [y EXCEPT !.result = result, !.truncated = t, !.calm = c]
<1>1. work[w] \in Loaded /\ c \in BOOLEAN /\ y \in Loaded
  BY Awake, MemoryType DEF Place, Loaded
<1>2. Moves(w, m)
  BY DEF Concludes
<1>3. y.at = "finishing" /\ y.run = work[w].run /\ y.attempts = work[w].attempts
      /\ y.items = [i \in Item |-> NoRow] /\ y.todo = {} /\ y.there = {}
  BY DEF Memory
<1> HIDE DEF y, c
<1>4. m \in Loaded
  BY <1>1 DEF Loaded
<1>5. /\ m.at = y.at /\ m.run = y.run /\ m.attempts = y.attempts /\ m.items = y.items
      /\ m.todo = y.todo /\ m.there = y.there /\ m.result = result /\ m.truncated = t /\ m.calm = c
  BY <1>1 DEF Loaded
<1> HIDE DEF m
<1> QED BY <1>1, <1>2, <1>3, <1>4, <1>5, MovedMemory DEF c

(* A run begins: the rows are loaded. *)
LEMMA BeginEffect ==
    ASSUME SyncTypeOK, NEW w \in Worker, Begin(w), source.alive
    PROVE  /\ work[w] \in Loaded /\ work'[w] \in Loaded
           /\ work' = [work EXCEPT ![w] = work'[w]] /\ \A v \in Worker \ {w} : work'[v] = work[v]
           /\ work'[w].at = "listing" /\ work'[w].run = work[w].run
           /\ work'[w].attempts = work[w].attempts /\ work'[w].items = item
           /\ work'[w].left = Item /\ work'[w].todo = work[w].todo /\ work'[w].seen = work[w].seen
           /\ work'[w].live = {i \in Item : item[i] # NoRow /\ item[i].document \in LiveDocuments(i)}
           /\ work'[w].there = {i \in Item : remote[i] # Absent}
           /\ work'[w].failed = work[w].failed /\ work'[w].calm = TRUE
<1> DEFINE x == work[w]
           live == {i \in Item : item[i] # NoRow /\ item[i].document \in LiveDocuments(i)}
           there == {i \in Item : remote[i] # Absent}
           m == [x EXCEPT !.at = "listing", !.left = Item, !.items = item, !.calm = TRUE,
                          !.live = live, !.there = there]
<1>1. x \in Loaded /\ item \in Rows /\ live \in SUBSET Item /\ there \in SUBSET Item
  BY Awake, Members DEF Begin, At, Idle, SyncTypeOK
<1>2. Moves(w, m)
  BY DEF Begin
<1> HIDE DEF x, live, there
<1>4. m \in Loaded
  BY <1>1 DEF Loaded, Place, Listing
<1>5. /\ m.at = "listing" /\ m.run = x.run /\ m.attempts = x.attempts /\ m.items = item /\ m.left = Item
      /\ m.todo = x.todo /\ m.seen = x.seen /\ m.live = live /\ m.there = there /\ m.failed = x.failed
      /\ m.calm = TRUE
  BY <1>1 DEF Loaded
<1> HIDE DEF m
<1> QED BY <1>1, <1>2, <1>4, <1>5, MovedMemory DEF x, live, there

(* The steps that are done with an item. *)
Done(w, place, i, new, extra) ==
    /\ Stores(w, i, new) /\ Keeps(w, place, i, new, extra)
    /\ UNCHANGED <<deleteRemoved, remote, source, run, document, member, bounds>>

LEMMA LeaveEffect ==
    ASSUME SyncTypeOK, NEW w \in Worker, LeaveByMetadata(w) \/ LeaveByHash(w)
    PROVE  LET i == work[w].cur
               new == [Base(w, i) EXCEPT !.status = "present"] IN
           /\ work[w].at = "item" /\ i \in Item /\ HasLive(w, i) /\ new = [Copy(w, i) EXCEPT !.status = "present"]
           /\ new \in ItemRow /\ new.status = "present" /\ new.content = Copy(w, i).content
           /\ new.document = Copy(w, i).document
           /\ Done(w, "listing", i, new, {})
<1> DEFINE i == work[w].cur
           b == Base(w, i)
           new == [b EXCEPT !.status = "present"]
<1>1. work[w] # Idle /\ work[w].at \in InHand /\ i \in Item
  BY Awake, Members DEF LeaveByMetadata, LeaveByHash, Fetchable, At, Idle, SyncTypeOK, MemoryFits, InHand
<1>2. b \in ItemRow /\ HasLive(w, i) /\ b = Copy(w, i)
  BY <1>1, BaseType, Awake, Members DEF LeaveByMetadata, LeaveByHash, UnchangedByMetadata, SameBytes,
      HasLive, Base, Blank, Copy, Rows, MemoryFits, SyncTypeOK, At, Idle
<1>3. Done(w, "listing", i, new, {}) /\ work[w].at \in {"item"}
  BY <1>1 DEF LeaveByMetadata, LeaveByHash, Done, StaysSame, Fetchable, At
<1> HIDE DEF b
<1>4. new \in ItemRow /\ new.status = "present" /\ new.content = b.content /\ new.document = b.document
  BY <1>2 DEF ItemRow
<1> HIDE DEF new
<1> QED BY <1>1, <1>2, <1>3, <1>4 DEF new, b

LEMMA FailEffect ==
    ASSUME SyncTypeOK, NEW w \in Worker, ItemFails(w)
    PROVE  LET i == work[w].cur
               new == [Base(w, i) EXCEPT !.status = "failed"] IN
           /\ work[w].at \in {"item", "versioned"} /\ i \in Item
           /\ new \in ItemRow /\ new.status = "failed"
           /\ Copy(w, i) # NoRow => new.content = Copy(w, i).content /\ new.document = Copy(w, i).document
           /\ Copy(w, i) = NoRow => new.document = 0
           /\ Done(w, "listing", i, new, {})
<1> DEFINE i == work[w].cur
           b == Base(w, i)
           new == [b EXCEPT !.status = "failed"]
<1>1. work[w] # Idle /\ work[w].at \in InHand /\ i \in Item
  BY Awake, Members DEF ItemFails, Fetchable, At, Idle, SyncTypeOK, MemoryFits, InHand
<1>2. b \in ItemRow /\ (Copy(w, i) # NoRow => b = Copy(w, i)) /\ (Copy(w, i) = NoRow => b.document = 0)
  BY <1>1, BaseType, Awake, Members DEF ItemFails, UnchangedByMetadata, SameBytes, HasLive, Base, Blank,
      Copy, Rows, MemoryFits, SyncTypeOK, At, Idle
<1>3. Done(w, "listing", i, new, {}) /\ work[w].at \in {"item", "versioned"}
  BY <1>1 DEF ItemFails, Done, StaysSame, Fetchable, At
<1> HIDE DEF b
<1>4. new \in ItemRow /\ new.status = "failed" /\ new.content = b.content /\ new.document = b.document
  BY <1>2 DEF ItemRow
<1> HIDE DEF new
<1> QED BY <1>1, <1>2, <1>3, <1>4 DEF new, b

LEMMA RecordEffect ==
    ASSUME SyncTypeOK, NEW w \in Worker, RecordItem(w)
    PROVE  LET i == work[w].cur IN
           /\ work[w].at = "tasked" /\ i \in Item
           /\ \E k \in work[w].old :
                LET new == [status |-> "present", content |-> work[w].got, document |-> k] IN
                new \in ItemRow /\ Done(w, "listing", i, new, {i})
<1>1. work[w] # Idle /\ work[w].at = "tasked" /\ work[w].cur \in Item
  BY Awake, Members DEF RecordItem, At, Idle, SyncTypeOK, MemoryFits, InHand
<1>2. work[w].got \in Nat /\ work[w].old \subseteq Nat
  BY <1>1, Awake DEF Loaded
<1>3. \A k \in work[w].old : [status |-> "present", content |-> work[w].got, document |-> k] \in ItemRow
  BY <1>2, RowsNamed DEF ItemRow
<1> QED BY <1>1, <1>3 DEF RecordItem, Done

LEMMA MarkEffect ==
    ASSUME SyncTypeOK, NEW w \in Worker, MarkRemoved(w)
    PROVE  LET i == work[w].cur
               new == [Copy(w, i) EXCEPT !.status = "removed",
                       !.document = IF deleteRemoved /\ Copy(w, i).content # Absent THEN 0 ELSE @] IN
           /\ work[w].at = "deleting" /\ work[w].old = {} /\ i \in Item /\ Copy(w, i) # NoRow
           /\ new \in ItemRow /\ new.status = "removed" /\ new.content = Copy(w, i).content
           /\ new.document = (IF deleteRemoved /\ Copy(w, i).content # Absent THEN 0 ELSE Copy(w, i).document)
           /\ Done(w, "removing", i, new, {})
<1> DEFINE i == work[w].cur
           b == Copy(w, i)
           new == [b EXCEPT !.status = "removed", !.document = IF deleteRemoved /\ b.content # Absent THEN 0 ELSE @]
<1>1. work[w] # Idle /\ work[w].at \in InHand /\ i \in Item
  BY Awake, Members DEF MarkRemoved, Fetchable, At, Idle, SyncTypeOK, MemoryFits, InHand
<1>2. b \in ItemRow /\ Copy(w, i) # NoRow
  BY <1>1, BaseType, Awake, Members DEF MarkRemoved, UnchangedByMetadata, SameBytes, HasLive, Base,
      Blank, Copy, Rows, MemoryFits, SyncTypeOK, At, Idle
<1>3. Done(w, "removing", i, new, {}) /\ work[w].at \in {"deleting"} /\ work[w].old = {}
  BY <1>1 DEF MarkRemoved, Done, StaysSame, Fetchable, At
<1> HIDE DEF b
<1>4. /\ new \in ItemRow /\ new.status = "removed" /\ new.content = b.content
      /\ new.document = (IF deleteRemoved /\ b.content # Absent THEN 0 ELSE b.document)
  BY <1>2 DEF ItemRow
<1> HIDE DEF new
<1> QED BY <1>1, <1>2, <1>3, <1>4 DEF new, b

-----------------------------------------------------------------------------
(* Type correctness. *)

(* What the other workers have in memory stays, whatever one does, and     *)
(* what is loaded goes on fitting.                                         *)
LEMMA WorkFits ==
    ASSUME SyncTypeOK, NEW w \in Worker, NEW m \in Loaded \cup {Idle},
           work' = [work EXCEPT ![w] = m],
           item' \in Rows, \A j \in Item : item[j] # NoRow => item'[j] # NoRow,
           m # Idle => MemoryFits(w)'
    PROVE  /\ work' \in [Worker -> {Idle} \cup Loaded]
           /\ \A v \in Worker : work'[v] # Idle => MemoryFits(v)'
  BY DEF SyncTypeOK, MemoryFits

(* Steps that only change what a worker has in memory. *)
Unwritten == UNCHANGED <<deleteRemoved, remote, store, member, bounds>>

LEMMA MemoryStepType ==
    ASSUME SyncTypeOK, NEW w \in Worker, Unwritten,
           \/ Begin(w) \/ ListingFails(w) \/ Superseded(w) \/ Stopped(w) \/ Truncate(w)
           \/ EndListing(w) \/ RemovalFails(w) \/ EndRemoval(w) \/ FinishReads(w) \/ InsertConflicts(w)
           \/ \E i \in Item : PassAbsent(w, i) \/ Enter(w, i) \/ Retire(w, i)
    PROVE  SyncTypeOK'
<1> DEFINE Fits == /\ work'[w] \in Loaded /\ work' = [work EXCEPT ![w] = work'[w]]
                   /\ MemoryFits(w)'
<1>0. item' = item /\ item \in Rows
  BY DEF SyncTypeOK, Unwritten, store
<1>1. ASSUME NEW result \in Ended, NEW t \in BOOLEAN, work[w] # Idle, Concludes(w, result, t) PROVE Fits
  BY <1>0, <1>1, ConcludesEffect DEF MemoryFits, InHand
<1>2. CASE Superseded(w)
  <2>1. work' = [work EXCEPT ![w] = Idle]
    BY <1>2 DEF Superseded, Moves
  <2> QED BY <1>0, <2>1, WorkFits DEF SyncTypeOK, Unwritten, store, bounds
<1>3. ASSUME \/ Begin(w) \/ ListingFails(w) \/ Stopped(w) \/ Truncate(w)
             \/ EndListing(w) \/ RemovalFails(w) \/ EndRemoval(w) \/ FinishReads(w) \/ InsertConflicts(w)
             \/ \E i \in Item : PassAbsent(w, i) \/ Enter(w, i) \/ Retire(w, i)
      PROVE  Fits
  <2>1. work[w] # Idle
    <3>1. work[w].at # "idle"
      <4>1. CASE Begin(w) \/ ListingFails(w) \/ Truncate(w) \/ EndListing(w) \/ RemovalFails(w)
        BY <4>1 DEF Begin, ListingFails, Truncate, EndListing, RemovalFails, At
      <4>2. CASE Stopped(w) \/ EndRemoval(w) \/ FinishReads(w) \/ InsertConflicts(w)
        BY <4>2 DEF Stopped, EndRemoval, FinishReads, InsertConflicts, At, AtCheckpoint
      <4>3. CASE \E i \in Item : PassAbsent(w, i) \/ Enter(w, i) \/ Retire(w, i)
        BY <4>3 DEF PassAbsent, Enter, Retire, At
      <4> QED BY <1>3, <4>1, <4>2, <4>3
    <3> QED BY <3>1 DEF Idle
  <2>0. MemoryFits(w) /\ work[w] \in Loaded
    BY <2>1 DEF SyncTypeOK
  <2>2. CASE ListingFails(w) \/ Stopped(w)
    BY <1>1, <2>1, <2>2 DEF ListingFails, Stopped, Ended
  <2>3. CASE Truncate(w) \/ EndRemoval(w)
    <3>1. Result(w) \in Ended
      BY DEF Result, Ended
    <3> QED BY <1>1, <2>1, <2>3, <3>1 DEF Truncate, EndRemoval
  <2>4. CASE Begin(w)
    <3>1. CASE source.alive
      <4>1. /\ work'[w] \in Loaded /\ work' = [work EXCEPT ![w] = work'[w]] /\ work'[w].at = "listing"
            /\ work'[w].items = item /\ work'[w].todo = work[w].todo
        BY <2>4, <3>1, BeginEffect
      <4>2. \A i \in work[w].todo : item[i] # NoRow
        BY <2>0, <2>1, Awake DEF MemoryFits
      <4> QED BY <1>0, <4>1, <4>2 DEF MemoryFits, InHand
    <3>2. CASE ~source.alive
      BY <1>1, <2>1, <2>4, <3>2 DEF Begin, Ended
    <3> QED BY <3>1, <3>2
  <2>5. CASE EndListing(w)
    BY <1>0, <2>0, <2>5, EndListingEffect DEF MemoryFits, InHand, Becomes, Copy
  <2>6. CASE RemovalFails(w)
    <3>1. /\ work'[w] \in Loaded /\ work' = [work EXCEPT ![w] = work'[w]] /\ work'[w].at = "removing"
          /\ work'[w].items = work[w].items /\ work'[w].todo = work[w].todo
      BY <2>6, RemovalFailsEffect DEF Becomes
    <3> QED BY <1>0, <2>0, <3>1 DEF MemoryFits, InHand
  <2>7. CASE FinishReads(w)
    BY <1>0, <2>0, <2>1, <2>7, GoesEffect DEF MemoryFits, InHand, Becomes, FinishReads, Place
  <2>8. CASE InsertConflicts(w)
    <3> DEFINE y == Memory("crashed", work[w].run, work[w].attempts)
    <3>1. Moves(w, y) /\ y \in Loaded
      BY <2>1, <2>8, Awake, MemoryType DEF InsertConflicts, Place
    <3>2. y.at = "crashed" /\ y.items = [i \in Item |-> NoRow] /\ y.todo = {}
      BY DEF Memory
    <3> HIDE DEF y
    <3> QED BY <1>0, <3>1, <3>2, MovedMemory DEF MemoryFits, InHand
  <2>9. ASSUME NEW i \in Item, PassAbsent(w, i) PROVE Fits
    BY <1>0, <2>0, <2>9, PassAbsentEffect DEF MemoryFits, InHand, Becomes
  <2>10. ASSUME NEW i \in Item, Enter(w, i) PROVE Fits
    BY <1>0, <2>0, <2>10, EnterEffect DEF MemoryFits, InHand, Becomes
  <2>11. ASSUME NEW i \in Item, Retire(w, i) PROVE Fits
    <3>1. i \in work[w].todo /\ work[w].items[i] # NoRow
      BY <2>0, <2>11 DEF Retire, MemoryFits
    <3>2. /\ work'[w] \in Loaded /\ work' = [work EXCEPT ![w] = work'[w]] /\ work'[w].items = work[w].items
          /\ work'[w].todo = work[w].todo \ {i} /\ work'[w].cur = i
      BY <2>11, RetireEffect DEF Becomes
    <3> QED BY <1>0, <2>0, <3>1, <3>2 DEF MemoryFits
  <2> QED BY <1>3, <2>2, <2>3, <2>4, <2>5, <2>6, <2>7, <2>8, <2>9, <2>10, <2>11
<1> QED BY <1>0, <1>2, <1>3, WorkFits DEF SyncTypeOK, Unwritten, store, bounds

(* The steps that are done with an item. *)
LEMMA DoneType ==
    ASSUME SyncTypeOK, NEW w \in Worker, work[w] # Idle, NEW place \in {"listing", "removing"},
           NEW i \in Item, NEW new \in ItemRow, NEW extra \in SUBSET Item, Done(w, place, i, new, extra)
    PROVE  SyncTypeOK'
<1>1. /\ item' \in Rows /\ \A j \in Item \ {i} : item'[j] = item[j]
      /\ item'[i] \in ItemRow /\ \A j \in Item : item[j] # NoRow => item'[j] # NoRow
  BY StoresType DEF Done
<1>2. /\ work'[w] \in Loaded /\ work' = [work EXCEPT ![w] = work'[w]] /\ work'[w].at = place
      /\ work'[w].items = [work[w].items EXCEPT ![i] = new] /\ work'[w].todo = work[w].todo
  BY KeepsEffect DEF Done, Becomes, Place, Listing, Removing
<1>3. work[w].items \in Rows /\ MemoryFits(w) /\ work[w].todo \subseteq Item /\ NoRow \notin ItemRow
  BY Awake, Members DEF SyncTypeOK
<1>4. MemoryFits(w)'
  BY <1>1, <1>2, <1>3 DEF MemoryFits, InHand, Rows
<1> QED BY <1>1, <1>2, <1>4, WorkFits DEF SyncTypeOK, Done, bounds

LEMMA ItemStepType ==
    ASSUME SyncTypeOK, NEW w \in Worker,
           LeaveByMetadata(w) \/ LeaveByHash(w) \/ ItemFails(w) \/ RecordItem(w) \/ MarkRemoved(w)
    PROVE  SyncTypeOK'
<1>1. work[w] # Idle
  <2>1. work[w].at # "idle"
    BY DEF LeaveByMetadata, LeaveByHash, ItemFails, RecordItem, MarkRemoved, Fetchable, At
  <2> QED BY <2>1 DEF Idle
<1>2. \E place \in {"listing", "removing"}, i \in Item, new \in ItemRow, extra \in SUBSET Item :
        Done(w, place, i, new, extra)
  <2>1. CASE LeaveByMetadata(w) \/ LeaveByHash(w)
    BY <2>1, LeaveEffect, Zenon
  <2>2. CASE ItemFails(w)
    BY <2>2, FailEffect, Zenon
  <2>3. CASE RecordItem(w)
    BY <2>3, RecordEffect, Zenon
  <2>4. CASE MarkRemoved(w)
    BY <2>4, MarkEffect, Zenon
  <2> QED BY <2>1, <2>2, <2>3, <2>4
<1> QED BY <1>1, <1>2, DoneType

(* The steps on documents. *)
LEMMA DocumentStepType ==
    ASSUME SyncTypeOK,
           \/ \E w \in Worker : CreateVersion(w) \/ CreateTask(w) \/ \E k \in work[w].old : DeleteVersion(w, k)
           \/ \E i \in Item : \E k \in LiveDocuments(i) : DocumentDeleted(i, k)
    PROVE  SyncTypeOK'
<1>0. document \in Documents /\ item \in Rows
  BY DEF SyncTypeOK
<1>1. ASSUME NEW w \in Worker, CreateVersion(w) \/ CreateTask(w) \/ At(w, "deleting")
      PROVE  work[w] # Idle /\ work[w] \in Loaded /\ MemoryFits(w) /\ work[w].cur \in Item
  <2>1. work[w].at \in InHand /\ work[w].at # "idle"
    BY <1>1 DEF CreateVersion, CreateTask, Fetchable, At, InHand
  <2>2. work[w] # Idle
    BY <2>1 DEF Idle
  <2> QED BY <2>1, <2>2 DEF SyncTypeOK, MemoryFits
<1>2. ASSUME NEW w \in Worker, CreateVersion(w) PROVE SyncTypeOK'
  <2> DEFINE v == [content |-> remote[work[w].cur], live |-> TRUE, tasked |-> FALSE]
  <2>1. v \in Version
    BY <1>1, <1>2 DEF SyncTypeOK, Version
  <2>2. PICK i \in Item : i = work[w].cur
    BY <1>1, <1>2
  <2>2a. PICK n \in Nat : n = Len(document[i])
    BY <1>0 DEF Documents
  <2>2b. AddsVersion(i, v)
    BY <1>2, <2>2 DEF CreateVersion, AddsVersion
  <2> HIDE DEF v
  <2>3. document' \in Documents
    BY <1>0, <2>1, <2>2a, <2>2b, VersionAdded
  <2>4. /\ work'[w] \in Loaded /\ work' = [work EXCEPT ![w] = work'[w]] /\ work'[w].at = "versioned"
        /\ work'[w].items = work[w].items /\ work'[w].todo = work[w].todo /\ work'[w].cur = work[w].cur
    BY <1>2, CreateVersionEffect DEF Becomes
  <2>5. UNCHANGED <<deleteRemoved, remote, source, run, item, member, bounds>>
    BY <1>2 DEF CreateVersion
  <2>6. MemoryFits(w)'
    BY <1>1, <1>2, <2>4, <2>5 DEF MemoryFits, InHand
  <2> QED BY <1>0, <2>3, <2>4, <2>5, <2>6, WorkFits DEF SyncTypeOK, bounds
<1>3. ASSUME NEW w \in Worker, CreateTask(w) PROVE SyncTypeOK'
  <2>1. document' \in Documents
    <3>1. GetTask(work[w].cur, work[w].old)
      BY <1>3 DEF CreateTask, GetTask
    <3> QED BY <1>0, <1>1, <1>3, <3>1, VersionTasked
  <2>2. /\ work'[w] \in Loaded /\ work' = [work EXCEPT ![w] = work'[w]] /\ work'[w].at = "tasked"
        /\ work'[w].items = work[w].items /\ work'[w].todo = work[w].todo /\ work'[w].cur = work[w].cur
    BY <1>1, <1>3, GoesEffect DEF Becomes, CreateTask, Place, Listing
  <2>3. UNCHANGED <<deleteRemoved, remote, source, run, item, member, bounds>>
    BY <1>3 DEF CreateTask
  <2>4. MemoryFits(w)'
    BY <1>1, <1>3, <2>2, <2>3 DEF MemoryFits, InHand
  <2> QED BY <1>0, <2>1, <2>2, <2>3, <2>4, WorkFits DEF SyncTypeOK, bounds
<1>4. ASSUME NEW w \in Worker, NEW k \in work[w].old, DeleteVersion(w, k) PROVE SyncTypeOK'
  <2>1. document' \in Documents
    <3>1. CASE k \in DOMAIN document[work[w].cur]
      BY <1>0, <1>1, <1>4, <3>1, VersionDeleted DEF DeleteVersion
    <3>2. CASE k \notin DOMAIN document[work[w].cur]
      <4>1. \A s \in Seq(Version) : k \notin DOMAIN s => [s EXCEPT ![k].live = FALSE] = s
        OBVIOUS
      <4>2. document[work[w].cur] \in Seq(Version)
        BY <1>0, <1>1, <1>4 DEF DeleteVersion, Documents
      <4>3. document' = [document EXCEPT ![work[w].cur] = document[work[w].cur]]
        BY <1>4, <3>2, <4>1, <4>2 DEF DeleteVersion
      <4> QED BY <1>0, <4>2, <4>3 DEF Documents
    <3> QED BY <3>1, <3>2
  <2>2. /\ work'[w] \in Loaded /\ work' = [work EXCEPT ![w] = work'[w]] /\ work'[w].at = work[w].at
        /\ work'[w].items = work[w].items /\ work'[w].todo = work[w].todo /\ work'[w].cur = work[w].cur
    BY <1>4, DeleteVersionEffect DEF Becomes
  <2>3. UNCHANGED <<deleteRemoved, remote, source, run, item, member, bounds>> /\ At(w, "deleting")
    BY <1>4 DEF DeleteVersion
  <2>4. MemoryFits(w)'
    BY <1>1, <2>2, <2>3 DEF MemoryFits, InHand, At
  <2> QED BY <1>0, <2>1, <2>2, <2>3, <2>4, WorkFits DEF SyncTypeOK, bounds
<1>5. ASSUME NEW i \in Item, NEW k \in LiveDocuments(i), DocumentDeleted(i, k) PROVE SyncTypeOK'
  <2>1. document' \in Documents
    BY <1>0, <1>5, VersionDeleted DEF DocumentDeleted, LiveDocuments
  <2>2. \A w \in Worker : work'[w] = IF work[w] = Idle THEN Idle ELSE [work[w] EXCEPT !.calm = FALSE]
    BY <1>5 DEF DocumentDeleted
  <2>3. \A m \in Loaded : /\ [m EXCEPT !.calm = FALSE] \in Loaded
                          /\ [m EXCEPT !.calm = FALSE].at = m.at /\ [m EXCEPT !.calm = FALSE].items = m.items
                          /\ [m EXCEPT !.calm = FALSE].todo = m.todo /\ [m EXCEPT !.calm = FALSE].cur = m.cur
    BY DEF Loaded
  <2>4. work' \in [Worker -> {Idle} \cup Loaded]
    BY <1>5, <2>3 DEF DocumentDeleted, SyncTypeOK
  <2>5. item' = item
    BY <1>5 DEF DocumentDeleted
  <2>6. ASSUME NEW w \in Worker, work'[w] # Idle PROVE MemoryFits(w)'
    <3>1. work[w] # Idle /\ work[w] \in Loaded /\ MemoryFits(w)
      BY <2>2, <2>6 DEF SyncTypeOK
    <3>2. /\ work'[w].at = work[w].at /\ work'[w].items = work[w].items
          /\ work'[w].todo = work[w].todo /\ work'[w].cur = work[w].cur
      BY <2>2, <2>3, <3>1
    <3> QED BY <2>5, <3>1, <3>2 DEF MemoryFits
  <2> QED BY <1>5, <2>1, <2>4, <2>6 DEF SyncTypeOK, DocumentDeleted
<1> QED BY <1>2, <1>3, <1>4, <1>5

(* The steps on the source and its runs. *)
LEMMA RunStepType ==
    ASSUME SyncTypeOK,
           \/ FallsDue \/ TriggerSync \/ EnqueueDueRun \/ MemberWrites
           \/ \E r \in Run : Lapse(r) \/ \E act \in {"cancel", "delete"} : MemberReads(act, r)
    PROVE  SyncTypeOK'
<1>1. Queues => run' \in [Run -> RunRow]
  BY Members DEF Queues, SyncTypeOK
<1>2. UNCHANGED <<work, item>>
  BY DEF FallsDue, TriggerSync, EnqueueDueRun, MemberWrites, Lapse, MemberReads, store
<1>3. (\A w \in Worker : work[w] # Idle => MemoryFits(w))'
  BY <1>2 DEF SyncTypeOK, MemoryFits
<1>4. CASE FallsDue \/ TriggerSync \/ EnqueueDueRun
  BY <1>1, <1>2, <1>3, <1>4 DEF FallsDue, TriggerSync, EnqueueDueRun, SyncTypeOK, bounds
<1>5. CASE MemberWrites
  <2>1. /\ member.run \in Run /\ run[member.run] \in RunRow
    BY <1>5 DEF MemberWrites, SyncTypeOK
  <2>2. \A x \in RunRow : [x EXCEPT !.status = "canceled"] \in RunRow /\ [x EXCEPT !.cancel = TRUE] \in RunRow
    BY DEF RunRow, Status, Active, Ended
  <2>3. run' \in [Run -> RunRow]
    BY <1>5, <2>1, <2>2 DEF MemberWrites, SyncTypeOK
  <2> QED BY <1>2, <1>3, <1>5, <2>3 DEF MemberWrites, SyncTypeOK
<1>6. ASSUME NEW r \in Run, Lapse(r) PROVE SyncTypeOK'
  <2>1. run' \in [Run -> RunRow]
    BY <1>6 DEF Lapse, SyncTypeOK, RunRow
  <2> QED BY <1>2, <1>3, <1>6, <2>1 DEF Lapse, SyncTypeOK
<1>7. ASSUME NEW r \in Run, NEW act \in {"cancel", "delete"}, MemberReads(act, r) PROVE SyncTypeOK'
  BY <1>2, <1>3, <1>7 DEF MemberReads, SyncTypeOK, store
<1> QED BY <1>4, <1>5, <1>6, <1>7

LEMMA RemoteChangeType ==
    ASSUME SyncTypeOK, NEW i \in Item, NEW c \in {Absent} \cup Content, RemoteChanges(i, c)
    PROVE  SyncTypeOK'
<1>1. \A w \in Worker : work'[w] = IF work[w] = Idle THEN Idle
        ELSE [work[w] EXCEPT !.calm = FALSE, !.there = IF c = Absent THEN @ \ {i} ELSE @]
  BY DEF RemoteChanges
<1>2. \A m \in Loaded, s \in SUBSET Item :
        /\ [m EXCEPT !.calm = FALSE, !.there = s] \in Loaded
        /\ [m EXCEPT !.calm = FALSE, !.there = s].at = m.at /\ [m EXCEPT !.calm = FALSE, !.there = s].items = m.items
        /\ [m EXCEPT !.calm = FALSE, !.there = s].todo = m.todo /\ [m EXCEPT !.calm = FALSE, !.there = s].cur = m.cur
  BY DEF Loaded
<1>3. \A w \in Worker : work[w] # Idle => work[w] \in Loaded /\ work[w].there \in SUBSET Item /\ MemoryFits(w)
  BY DEF SyncTypeOK, Loaded
<1>4. \A w \in Worker : work[w] # Idle => \E s \in SUBSET Item : work'[w] = [work[w] EXCEPT !.calm = FALSE, !.there = s]
  BY <1>1, <1>3
<1>5. ASSUME NEW w \in Worker, work'[w] # Idle PROVE work'[w] \in Loaded /\ MemoryFits(w)'
  <2>1. work[w] # Idle /\ work[w] \in Loaded /\ MemoryFits(w)
    BY <1>1, <1>3, <1>5
  <2>2. /\ work'[w] \in Loaded /\ work'[w].at = work[w].at /\ work'[w].items = work[w].items
        /\ work'[w].todo = work[w].todo /\ work'[w].cur = work[w].cur
    <3>1. PICK s \in SUBSET Item : work'[w] = [work[w] EXCEPT !.calm = FALSE, !.there = s]
      BY <1>4, <2>1
    <3> DEFINE y == [work[w] EXCEPT !.calm = FALSE, !.there = s]
    <3>2. y \in Loaded /\ y.at = work[w].at /\ y.items = work[w].items /\ y.todo = work[w].todo /\ y.cur = work[w].cur
      BY <1>2, <2>1
    <3> HIDE DEF y
    <3>3. work'[w] = y
      BY <3>1 DEF y
    <3> QED BY <3>2, <3>3
  <2> QED BY <2>1, <2>2 DEF MemoryFits, RemoteChanges, store
<1>6. work' = [w \in Worker |-> work'[w]]
  BY DEF RemoteChanges
<1>7. work' \in [Worker -> {Idle} \cup Loaded]
  BY <1>5, <1>6
<1>8. remote' \in [Item -> Nat]
  <2>1. c \in Nat
    BY SyncAssumption DEF Content, Absent
  <2> QED BY <2>1 DEF RemoteChanges, SyncTypeOK
<1>9. UNCHANGED <<deleteRemoved, source, run, item, document, member, faults, overlaps>> /\ changes' = changes + 1
  BY DEF RemoteChanges, store
<1> QED BY <1>5, <1>7, <1>8, <1>9 DEF SyncTypeOK

(* The claim of a run, and the ways it ends. *)
LEMMA HolderStepType ==
    ASSUME SyncTypeOK, NEW w \in Worker,
           GiveUp(w) \/ FailCrashed(w) \/ FinishWrites(w) \/ Dies(w) \/ \E r \in Run : ClaimNextRun(w, r)
    PROVE  SyncTypeOK'
<1>1. item' = item /\ item \in Rows /\ UNCHANGED <<deleteRemoved, remote, source, document, member>>
  BY DEF GiveUp, FailCrashed, FinishWrites, Dies, ClaimNextRun, SyncTypeOK, store
<1>2. ASSUME NEW status \in Ended \cup {"none"}, work[w] # Idle, Closes(w, status)
      PROVE  run' \in [Run -> RunRow] /\ work' = [work EXCEPT ![w] = Idle]
  <2>1. work[w].run \in Run
    BY <1>2, Awake
  <2>2. \A x \in RunRow : [x EXCEPT !.status = status, !.owner = Nobody, !.lapsed = FALSE] \in RunRow
    BY DEF RunRow, Status
  <2>3. run \in [Run -> RunRow]
    BY DEF SyncTypeOK
  <2> QED BY <1>2, <2>1, <2>2, <2>3 DEF Closes, Moves
<1>3. ASSUME work[w] # Idle, work' = [work EXCEPT ![w] = Idle], run' \in [Run -> RunRow],
             UNCHANGED changes, UNCHANGED overlaps, faults' \in {faults, faults + 1}
      PROVE  SyncTypeOK'
  <2>1. /\ work' \in [Worker -> {Idle} \cup Loaded]
        /\ \A v \in Worker : work'[v] # Idle => MemoryFits(v)'
    BY <1>1, <1>3, WorkFits
  <2> QED BY <1>1, <1>3, <2>1 DEF SyncTypeOK
<1>4. CASE GiveUp(w)
  BY <1>2, <1>3, <1>4 DEF GiveUp, At, Idle, Ended, bounds
<1>5. CASE FinishWrites(w)
  <2>1. work[w] # Idle /\ work[w].result \in Ended \cup {"none"}
    BY <1>5, Awake DEF FinishWrites, At, Idle, Loaded
  <2> QED BY <1>2, <1>3, <1>5, <2>1 DEF FinishWrites, bounds
<1>6. CASE FailCrashed(w)
  <2>1. work[w] # Idle
    BY <1>6 DEF FailCrashed, At, Idle
  <2> QED BY <1>2, <1>3, <1>6, <2>1 DEF FailCrashed, Moves, Ended, SyncTypeOK, bounds
<1>7. CASE Dies(w)
  BY <1>3, <1>7 DEF Dies, Moves, SyncTypeOK, store
<1>8. ASSUME NEW r \in Run, ClaimNextRun(w, r) PROVE SyncTypeOK'
  <2> DEFINE y == Memory("claimed", r, run[r].attempts + 1)
  <2>1. run[r] \in RunRow
    BY DEF SyncTypeOK
  <2>2. run' \in [Run -> RunRow]
    <3> DEFINE x == run[r]
               new == [x EXCEPT !.status = "running", !.owner = ProcessOf[w],
                                !.lapsed = FALSE, !.attempts = @ + 1]
    <3>1. run' = [run EXCEPT ![r] = new]
      BY <1>8 DEF ClaimNextRun
    <3>2. x \in RunRow
      BY <2>1
    <3> HIDE DEF x
    <3>3. new \in RunRow
      <4> DEFINE p == ProcessOf[w]
                 n == x.attempts + 1
      <4>1. p \in Process \cup {Nobody} /\ n \in Nat /\ "running" \in Status
        BY <3>2, Members DEF RunRow, Status, Active
      <4> HIDE DEF p, n
      <4>2. [x EXCEPT !.status = "running", !.owner = p, !.lapsed = FALSE, !.attempts = n] \in RunRow
        BY <3>2, <4>1 DEF RunRow
      <4> QED BY <4>2 DEF p, n
    <3> HIDE DEF new
    <3> QED BY <3>1, <3>3 DEF SyncTypeOK
  <2>3. work' = [work EXCEPT ![w] = y] /\ UNCHANGED bounds
    BY <1>8 DEF ClaimNextRun, Moves
  <2>4. y \in Loaded
    <3>1. run[r].attempts + 1 \in Nat
      BY <2>1 DEF RunRow
    <3> QED BY <3>1, MemoryType DEF Place
  <2>5. y.at = "claimed" /\ y.items = [i \in Item |-> NoRow] /\ y.todo = {}
    BY DEF Memory
  <2> HIDE DEF y
  <2>6. work'[w] = y
    BY <2>3 DEF SyncTypeOK
  <2>7. MemoryFits(w)'
    BY <2>5, <2>6 DEF MemoryFits, InHand
  <2> QED BY <1>1, <2>2, <2>3, <2>4, <2>7, WorkFits DEF SyncTypeOK, bounds
<1> QED BY <1>4, <1>5, <1>6, <1>7, <1>8

(* Every variable keeps its type, and what a worker has in memory fits the *)
(* rows: what it loaded is there for good, and it only retires what it     *)
(* loaded.                                                                 *)
THEOREM SyncTypeCorrect == Spec => []SyncTypeOK
<1>1. Init => SyncTypeOK
  <2> SUFFICES ASSUME Init PROVE SyncTypeOK
    OBVIOUS
  <2>1. run \in [Run -> RunRow]
    BY Members DEF Init
  <2>2. item \in Rows
    BY DEF Init, Rows, Earlier, ItemRow
  <2>3. FirstVersion \in Version
    BY DEF FirstVersion, Version
  <2>4. <<>> \in Seq(Version) /\ <<FirstVersion>> \in Seq(Version)
    BY <2>3
  <2>5. document \in Documents
    BY <2>4 DEF Init, Documents
  <2> QED BY <2>1, <2>2, <2>5 DEF Init, SyncTypeOK, Absent
<1>2. SyncTypeOK /\ [Next]_vars => SyncTypeOK'
  <2> SUFFICES ASSUME SyncTypeOK, [Next]_vars PROVE SyncTypeOK'
    OBVIOUS
  <2>1. CASE UNCHANGED vars
    BY <2>1 DEF vars, store, bounds, SyncTypeOK, MemoryFits
  <2>2. CASE \E i \in Item, c \in {Absent} \cup Content : RemoteChanges(i, c)
    BY <2>2, RemoteChangeType
  <2>3. CASE \E i \in Item : \E k \in LiveDocuments(i) : DocumentDeleted(i, k)
    BY <2>3, DocumentStepType
  <2>4. CASE \/ FallsDue \/ TriggerSync \/ EnqueueDueRun \/ MemberWrites
             \/ \E r \in Run : Lapse(r) \/ \E act \in {"cancel", "delete"} : MemberReads(act, r)
    BY <2>4, RunStepType
  <2>5. CASE \E w \in Worker : Dies(w) \/ \E r \in Run : ClaimNextRun(w, r)
    BY <2>5, HolderStepType
  <2>6. ASSUME NEW w \in Worker, Execute(w) PROVE SyncTypeOK'
    <3>1. CASE GiveUp(w) \/ FailCrashed(w) \/ FinishWrites(w)
      BY <3>1, HolderStepType
    <3>2. CASE LeaveByMetadata(w) \/ LeaveByHash(w) \/ ItemFails(w) \/ RecordItem(w) \/ MarkRemoved(w)
      BY <3>2, ItemStepType
    <3>3. CASE CreateVersion(w) \/ CreateTask(w) \/ \E k \in work[w].old : DeleteVersion(w, k)
      BY <3>3, DocumentStepType
    <3>4. CASE \/ Begin(w) \/ ListingFails(w) \/ Superseded(w) \/ Stopped(w) \/ Truncate(w)
               \/ EndListing(w) \/ RemovalFails(w) \/ EndRemoval(w) \/ FinishReads(w) \/ InsertConflicts(w)
               \/ \E i \in Item : PassAbsent(w, i) \/ Enter(w, i) \/ Retire(w, i)
      <4>1. Unwritten
        BY <3>4 DEF Begin, ListingFails, Superseded, Stopped, Truncate, EndListing, RemovalFails, EndRemoval,
          FinishReads, InsertConflicts, PassAbsent, Enter, Retire, Unwritten
      <4> QED BY <3>4, <4>1, MemoryStepType
    <3> QED BY <2>6, <3>1, <3>2, <3>3, <3>4 DEF Execute, ItemStep
  <2> QED BY <2>1, <2>2, <2>3, <2>4, <2>5, <2>6 DEF Next
<1> QED BY <1>1, <1>2, PTL DEF Spec

-----------------------------------------------------------------------------
(* Removal is decided from what was listed.                                *)

(* What a step of a worker keeps of the world. *)
LEMMA Inside ==
    ASSUME NEW w \in Worker, Execute(w) \/ \E r \in Run : ClaimNextRun(w, r)
    PROVE  UNCHANGED <<deleteRemoved, remote, source, member, bounds>>
<1>1. CASE \E r \in Run : ClaimNextRun(w, r)
  BY <1>1 DEF ClaimNextRun
<1>2. CASE GiveUp(w) \/ FailCrashed(w) \/ FinishWrites(w)
  BY <1>2 DEF GiveUp, FailCrashed, FinishWrites
<1>3. CASE LeaveByMetadata(w) \/ LeaveByHash(w) \/ ItemFails(w) \/ RecordItem(w) \/ MarkRemoved(w)
  BY <1>3 DEF LeaveByMetadata, LeaveByHash, ItemFails, RecordItem, MarkRemoved
<1>4. CASE CreateVersion(w) \/ CreateTask(w) \/ \E k \in work[w].old : DeleteVersion(w, k)
  BY <1>4 DEF CreateVersion, CreateTask, DeleteVersion
<1>5. CASE \/ Begin(w) \/ ListingFails(w) \/ Superseded(w) \/ Stopped(w) \/ Truncate(w)
           \/ EndListing(w) \/ RemovalFails(w) \/ EndRemoval(w) \/ FinishReads(w) \/ InsertConflicts(w)
           \/ \E i \in Item : PassAbsent(w, i) \/ Enter(w, i) \/ Retire(w, i)
  BY <1>5 DEF Begin, ListingFails, Superseded, Stopped, Truncate, EndListing, RemovalFails, EndRemoval,
          FinishReads, InsertConflicts, PassAbsent, Enter, Retire, store
<1> QED BY <1>1, <1>2, <1>3, <1>4, <1>5 DEF Execute, ItemStep

(* A step of a worker is its own. *)
Others(w) == \A v \in Worker \ {w} : work'[v] = work[v]

(* What a step makes of its memory: it is given up, begun anew, given a    *)
(* result, loaded, or goes on.                                             *)
Drops(w) == work'[w] = Idle
Afresh(w, place) ==
    /\ work'[w] \in Loaded /\ work'[w].at = place /\ work'[w].there = {} /\ work'[w].calm = FALSE
    /\ work'[w].result = "none" /\ work'[w].failed = FALSE /\ work'[w].seen = {} /\ work'[w].todo = {}

LEMMA AfreshEffect ==
    ASSUME SyncTypeOK, NEW w \in Worker,
           InsertConflicts(w) \/ \E r \in Run : ClaimNextRun(w, r)
    PROVE  /\ Others(w)
           /\ InsertConflicts(w) =>
                Afresh(w, "crashed") /\ work'[w].run = work[w].run /\ work'[w].attempts = work[w].attempts
           /\ \A r \in Run : ClaimNextRun(w, r) =>
                Afresh(w, "claimed") /\ work'[w].run = r /\ work'[w].attempts = run[r].attempts + 1
<1>1. CASE InsertConflicts(w)
  <2> DEFINE y == Memory("crashed", work[w].run, work[w].attempts)
  <2>1. work[w] # Idle /\ ~\E r \in Run : ClaimNextRun(w, r)
    <3>1. work[w].at # "idle"
      BY <1>1 DEF InsertConflicts, At
    <3>2. ASSUME NEW r \in Run, ClaimNextRun(w, r) PROVE FALSE
      BY <3>1, <3>2 DEF ClaimNextRun, At
    <3>3. work[w] # Idle
      BY <3>1 DEF Idle
    <3> QED BY <3>2, <3>3
  <2>2. Moves(w, y) /\ y \in Loaded
    BY <1>1, <2>1, Awake, MemoryType DEF InsertConflicts, Place
  <2>3. /\ y.at = "crashed" /\ y.run = work[w].run /\ y.attempts = work[w].attempts
        /\ y.there = {} /\ y.calm = FALSE /\ y.result = "none" /\ y.failed = FALSE /\ y.seen = {} /\ y.todo = {}
    BY DEF Memory
  <2> HIDE DEF y
  <2> QED BY <2>1, <2>2, <2>3, MovedMemory DEF Others, Afresh
<1>2. CASE \E r \in Run : ClaimNextRun(w, r)
  <2>1. ~InsertConflicts(w)
    BY <1>2 DEF InsertConflicts, ClaimNextRun, At
  <2>2. ASSUME NEW r \in Run, ClaimNextRun(w, r)
        PROVE  Others(w) /\ Afresh(w, "claimed") /\ work'[w].run = r /\ work'[w].attempts = run[r].attempts + 1
    <3> DEFINE n == run[r].attempts + 1
               y == Memory("claimed", r, n)
    <3>1. n \in Nat
      BY DEF SyncTypeOK, RunRow
    <3>2. Moves(w, y) /\ y \in Loaded
      BY <2>2, <3>1, MemoryType DEF ClaimNextRun, Place
    <3>3. /\ y.at = "claimed" /\ y.run = r /\ y.attempts = n
          /\ y.there = {} /\ y.calm = FALSE /\ y.result = "none" /\ y.failed = FALSE /\ y.seen = {} /\ y.todo = {}
      BY DEF Memory
    <3> HIDE DEF y
    <3> QED BY <3>2, <3>3, MovedMemory DEF Others, Afresh
  <2> QED BY <1>2, <2>1, <2>2
<1> QED BY <1>1, <1>2

LEMMA DropsEffect ==
    ASSUME SyncTypeOK, NEW w \in Worker,
           GiveUp(w) \/ FailCrashed(w) \/ FinishWrites(w) \/ Superseded(w) \/ Dies(w)
    PROVE  Others(w) /\ Drops(w) /\ work[w] # Idle
<1>1. Moves(w, Idle) /\ work[w] # Idle
  <2>1. CASE GiveUp(w) \/ FinishWrites(w) \/ Dies(w)
    BY <2>1 DEF GiveUp, FinishWrites, Dies, Closes, At, Idle
  <2>2. CASE FailCrashed(w) \/ Superseded(w)
    BY <2>2 DEF FailCrashed, Superseded, Closes, At, AtCheckpoint, Idle
  <2> QED BY <2>1, <2>2
<1> QED BY <1>1 DEF Moves, Others, Drops, SyncTypeOK

LEMMA DoneEffect ==
    ASSUME SyncTypeOK, NEW w \in Worker,
           LeaveByMetadata(w) \/ LeaveByHash(w) \/ ItemFails(w) \/ RecordItem(w) \/ MarkRemoved(w)
    PROVE  \E place \in {"listing", "removing"}, new \in ItemRow, extra \in SUBSET Item :
            /\ Done(w, place, work[w].cur, new, extra) /\ work[w].cur \in Item
            /\ place = "removing" => work[w].at = "deleting"
            /\ place = "listing" => work[w].at \in Listing
            /\ Becomes(w, place, [work[w].items EXCEPT ![work[w].cur] = new], work[w].live \cup extra,
                       work[w].left, work[w].seen, work[w].todo, Anything, Absent, {},
                       (work[w].failed \/ new.status = "failed"))
<1>1. work[w] # Idle
  <2>1. work[w].at # "idle"
    BY DEF LeaveByMetadata, LeaveByHash, ItemFails, RecordItem, MarkRemoved, Fetchable, At
  <2> QED BY <2>1 DEF Idle
<1>2. \E place \in {"listing", "removing"}, new \in ItemRow, extra \in SUBSET Item :
        /\ Done(w, place, work[w].cur, new, extra) /\ work[w].cur \in Item
        /\ place = "removing" => work[w].at = "deleting"
        /\ place = "listing" => work[w].at \in Listing
  <2>1. CASE LeaveByMetadata(w) \/ LeaveByHash(w)
    <3>1. work[w].at \in Listing
      BY <2>1, LeaveEffect DEF Listing
    <3> DEFINE new == [Base(w, work[w].cur) EXCEPT !.status = "present"]
    <3>2. new \in ItemRow /\ work[w].cur \in Item /\ Done(w, "listing", work[w].cur, new, {})
      BY <2>1, LeaveEffect
    <3> HIDE DEF new
    <3> QED BY <3>1, <3>2
  <2>2. CASE ItemFails(w)
    <3>1. work[w].at \in Listing
      BY <2>2, FailEffect DEF Listing
    <3> DEFINE new == [Base(w, work[w].cur) EXCEPT !.status = "failed"]
    <3>2. new \in ItemRow /\ work[w].cur \in Item /\ Done(w, "listing", work[w].cur, new, {})
      BY <2>2, FailEffect
    <3> HIDE DEF new
    <3> QED BY <3>1, <3>2
  <2>3. CASE RecordItem(w)
    <3>1. work[w].at \in Listing
      BY <2>3, RecordEffect DEF Listing
    <3>2. \E k \in work[w].old :
            LET new == [status |-> "present", content |-> work[w].got, document |-> k] IN
            new \in ItemRow /\ Done(w, "listing", work[w].cur, new, {work[w].cur})
      BY <2>3, RecordEffect
    <3>3. work[w].cur \in Item
      BY <2>3, RecordEffect
    <3>4. \E new \in ItemRow : Done(w, "listing", work[w].cur, new, {work[w].cur})
      BY <3>2, Zenon
    <3> QED BY <3>1, <3>3, <3>4
  <2>4. CASE MarkRemoved(w)
    BY <2>4, MarkEffect, Zenon
  <2> QED BY <2>1, <2>2, <2>3, <2>4
<1>3. PICK place \in {"listing", "removing"}, new \in ItemRow, extra \in SUBSET Item :
        /\ Done(w, place, work[w].cur, new, extra) /\ work[w].cur \in Item
        /\ place = "removing" => work[w].at = "deleting"
        /\ place = "listing" => work[w].at \in Listing
  BY <1>2, Zenon
<1>4. Becomes(w, place, [work[w].items EXCEPT ![work[w].cur] = new], work[w].live \cup extra,
              work[w].left, work[w].seen, work[w].todo, Anything, Absent, {},
              (work[w].failed \/ new.status = "failed"))
  <2>1. place \in Place
    BY DEF Place, Listing, Removing
  <2> QED BY <1>1, <1>3, <2>1, KeepsEffect DEF Done
<1> QED BY <1>3, <1>4, Zenon

LEMMA KeptStep ==
    ASSUME SyncTypeOK, KeptInv, NEW w \in Worker, Execute(w) \/ \E r \in Run : ClaimNextRun(w, r)
    PROVE  KeptInv'
<1> DEFINE Goal == Others(w) /\ (work'[w] # Idle => Kept(w)')
<1>0. remote' = remote /\ (work[w] # Idle => Kept(w))
  BY Inside DEF KeptInv
<1>1. ASSUME Goal PROVE KeptInv'
  <2>1. ASSUME NEW v \in Worker, v # w, work'[v] # Idle PROVE Kept(v)'
    BY <1>0, <1>1, <2>1 DEF Others, KeptInv, Kept
  <2> QED BY <1>1, <2>1 DEF KeptInv
<1>2. ASSUME \E r \in Run : ClaimNextRun(w, r) PROVE Goal
  BY <1>2, AfreshEffect DEF Afresh, Kept
<1>3. ASSUME InsertConflicts(w) PROVE Goal
  BY <1>3, AfreshEffect DEF Afresh, Kept
<1>4. ASSUME GiveUp(w) \/ FailCrashed(w) \/ FinishWrites(w) \/ Superseded(w) PROVE Goal
  BY <1>4, DropsEffect DEF Drops
<1>5. ASSUME NEW result \in Ended, NEW t \in BOOLEAN, work[w] # Idle, Concludes(w, result, t) PROVE Goal
  BY <1>5, ConcludesEffect DEF Others, Kept
<1>6. ASSUME ListingFails(w) \/ Stopped(w) \/ Truncate(w) \/ EndRemoval(w) PROVE Goal
  <2>1. work[w] # Idle
    <3>1. work[w].at # "idle"
      BY <1>6 DEF ListingFails, Stopped, AtCheckpoint, Truncate, EndRemoval, At
    <3> QED BY <3>1 DEF Idle
  <2>2. \E result \in Ended, t \in BOOLEAN : Concludes(w, result, t)
    <3>1. Result(w) \in Ended /\ "failed" \in Ended /\ "canceled" \in Ended
      BY DEF Result, Ended
    <3> QED BY <1>6, <3>1 DEF ListingFails, Stopped, Truncate, EndRemoval
  <2> QED BY <1>5, <2>1, <2>2
<1>7. ASSUME Begin(w) PROVE Goal
  <2>1. CASE source.alive
    <3>1. \A i \in Item : remote[i] # Absent => i \in Item
      OBVIOUS
    <3> QED BY <1>0, <1>7, <2>1, BeginEffect DEF Others, Kept, Removing
  <2>2. CASE ~source.alive
    <3>1. work[w] # Idle
      BY <1>7 DEF Begin, At, Idle
    <3> QED BY <1>5, <1>7, <2>2, <3>1 DEF Begin, Ended
  <2> QED BY <2>1, <2>2
<1>8. ASSUME LeaveByMetadata(w) \/ LeaveByHash(w) \/ ItemFails(w) \/ RecordItem(w) \/ MarkRemoved(w) PROVE Goal
  <2>1. /\ Others(w) /\ work[w] # Idle
        /\ work'[w].there = work[w].there /\ work'[w].left = work[w].left /\ work'[w].seen = work[w].seen
        /\ work'[w].todo = work[w].todo
        /\ \/ work'[w].at = "removing" /\ work[w].at = "deleting"
           \/ work'[w].at = "listing" /\ work[w].at \in Listing
    <3>1. PICK place \in {"listing", "removing"}, new \in ItemRow, extra \in SUBSET Item :
            /\ place = "removing" => work[w].at = "deleting"
            /\ place = "listing" => work[w].at \in Listing
            /\ Becomes(w, place, [work[w].items EXCEPT ![work[w].cur] = new], work[w].live \cup extra,
                       work[w].left, work[w].seen, work[w].todo, Anything, Absent, {},
                       (work[w].failed \/ new.status = "failed"))
      BY <1>8, DoneEffect, Zenon
    <3>2. /\ work[w] \in Loaded /\ work'[w].at = place /\ work'[w].there = work[w].there
          /\ work'[w].left = work[w].left /\ work'[w].seen = work[w].seen /\ work'[w].todo = work[w].todo
          /\ Others(w)
      BY <3>1 DEF Becomes, Others
    <3>3. work[w] # Idle
      BY <3>2, Members
    <3> QED BY <3>1, <3>2, <3>3
  <2> QED BY <1>0, <2>1 DEF Kept, Listing, Removing
<1>9. ASSUME EndListing(w) PROVE Goal
  <2>1. Others(w) /\ work[w] \in Loaded
    BY <1>9, EndListingEffect DEF Becomes, Others
  <2>2. /\ work'[w].at = "removing" /\ work'[w].there = work[w].there
        /\ work'[w].todo \cap work[w].seen = {}
    BY <1>9, EndListingEffect DEF Becomes
  <2>3. work[w].at = "listing" /\ work[w].left = {}
    BY <1>9 DEF EndListing, At
  <2>4. Kept(w)
    BY <1>0, <2>1, Members
  <2> QED BY <1>0, <2>1, <2>2, <2>3, <2>4 DEF Kept, Listing, Removing
<1>10. ASSUME RemovalFails(w) PROVE Goal
  <2>1. Others(w) /\ work[w] \in Loaded
    BY <1>10, RemovalFailsEffect DEF Becomes, Others
  <2>2. /\ work'[w].at = "removing" /\ work'[w].there = work[w].there /\ work'[w].todo = work[w].todo
    BY <1>10, RemovalFailsEffect DEF Becomes
  <2>3. work[w].at = "deleting"
    BY <1>10 DEF RemovalFails, At
  <2>4. Kept(w)
    BY <1>0, <2>1, Members
  <2> QED BY <1>0, <2>1, <2>2, <2>3, <2>4 DEF Kept, Listing, Removing
<1>11. ASSUME FinishReads(w) \/ CreateTask(w) PROVE Goal
  <2>1. work[w] # Idle
    BY <1>11 DEF FinishReads, CreateTask, At, Idle
  <2>2. /\ Others(w) /\ work'[w].there = work[w].there
        /\ work'[w].left = work[w].left /\ work'[w].seen = work[w].seen
        /\ \/ work'[w].at = "ending"
           \/ work'[w].at = "tasked" /\ work[w].at \in Listing
    <3>1. CASE FinishReads(w)
      <4>1. Goes(w, "ending") /\ "ending" \in Place
        BY <3>1 DEF FinishReads, Place
      <4>2. Becomes(w, "ending", work[w].items, work[w].live, work[w].left, work[w].seen,
                    work[w].todo, work[w].cur, work[w].got, work[w].old, work[w].failed)
        BY <2>1, <4>1, GoesEffect
      <4> QED BY <4>2 DEF Becomes, Others
    <3>2. CASE CreateTask(w)
      BY <2>1, <3>2, GoesEffect DEF CreateTask, At, Becomes, Others, Place, Listing
    <3> QED BY <1>11, <3>1, <3>2
  <2> QED BY <1>0, <2>1, <2>2 DEF Kept, Listing, Removing
<1>12. ASSUME CreateVersion(w) PROVE Goal
  <2>1. Others(w) /\ work[w] \in Loaded
    BY <1>12, CreateVersionEffect DEF Becomes, Others
  <2>2. /\ work'[w].at = "versioned" /\ work'[w].there = work[w].there
        /\ work'[w].left = work[w].left /\ work'[w].seen = work[w].seen
    BY <1>12, CreateVersionEffect DEF Becomes
  <2>3. work[w].at = "item"
    BY <1>12 DEF CreateVersion, Fetchable, At
  <2>4. Kept(w)
    BY <1>0, <2>1, Members
  <2> QED BY <1>0, <2>1, <2>2, <2>3, <2>4 DEF Kept, Listing, Removing
<1>13. ASSUME NEW k \in work[w].old, DeleteVersion(w, k) PROVE Goal
  BY <1>0, <1>13, DeleteVersionEffect, Members DEF DeleteVersion, At, Becomes, Others, Kept, Listing, Removing
<1>14. ASSUME NEW i \in Item, PassAbsent(w, i) PROVE Goal
  BY <1>0, <1>14, PassAbsentEffect, Members DEF PassAbsent, At, Becomes, Others, Kept, Listing, Removing
<1>15. ASSUME NEW i \in Item, Enter(w, i) PROVE Goal
  <2>1. Others(w) /\ work[w] \in Loaded
    BY <1>15, EnterEffect DEF Becomes, Others
  <2>2. /\ work'[w].at = "item" /\ work'[w].there = work[w].there
        /\ work'[w].left = work[w].left \ {i} /\ work'[w].seen = work[w].seen \cup {i}
    BY <1>15, EnterEffect DEF Becomes
  <2>3. work[w].at = "listing"
    BY <1>15 DEF Enter, At
  <2>4. Kept(w)
    BY <1>0, <2>1, Members
  <2> QED BY <1>0, <2>1, <2>2, <2>3, <2>4 DEF Kept, Listing, Removing
<1>16. ASSUME NEW i \in Item, Retire(w, i) PROVE Goal
  <2>1. Others(w) /\ work[w] \in Loaded
    BY <1>16, RetireEffect DEF Becomes, Others
  <2>2. /\ work'[w].at = "deleting" /\ work'[w].there = work[w].there
        /\ work'[w].todo = work[w].todo \ {i} /\ work'[w].cur = i
    BY <1>16, RetireEffect DEF Becomes
  <2>3. work[w].at = "removing" /\ i \in work[w].todo
    BY <1>16 DEF Retire, At
  <2>4. Kept(w)
    BY <1>0, <2>1, Members
  <2> QED BY <1>0, <2>1, <2>2, <2>3, <2>4 DEF Kept, Listing, Removing
<1> QED BY <1>1, <1>2, <1>3, <1>4, <1>6, <1>7, <1>8, <1>9, <1>10, <1>11, <1>12, <1>13, <1>14, <1>15, <1>16
        DEF Execute, ItemStep

(* An item that the remote held for as long as a worker goes through it is *)
(* not retired by that worker, whatever became of the item on the way.     *)
THEOREM RemovedWasGoneHolds == Spec => []RemovedWasGone
<1>1. Init => KeptInv
  BY DEF Init, KeptInv
<1>2. SyncTypeOK /\ KeptInv /\ [Next]_vars => KeptInv'
  <2> SUFFICES ASSUME SyncTypeOK, KeptInv, [Next]_vars PROVE KeptInv'
    OBVIOUS
  <2>1. CASE UNCHANGED vars \/ FallsDue \/ TriggerSync \/ EnqueueDueRun \/ MemberWrites
             \/ \E r \in Run : Lapse(r) \/ \E act \in {"cancel", "delete"} : MemberReads(act, r)
    <3>1. UNCHANGED <<work, remote>>
      BY <2>1 DEF vars, FallsDue, TriggerSync, EnqueueDueRun, MemberWrites, Lapse, MemberReads
    <3> QED BY <3>1 DEF KeptInv, Kept
  <2>2. ASSUME NEW i \in Item, NEW c \in {Absent} \cup Content, RemoteChanges(i, c) PROVE KeptInv'
    <3>1. ASSUME NEW w \in Worker, work'[w] # Idle PROVE Kept(w)'
      <4>1. /\ work[w] # Idle /\ work[w] \in Loaded
            /\ work'[w] = [work[w] EXCEPT !.calm = FALSE, !.there = IF c = Absent THEN @ \ {i} ELSE @]
        BY <2>2, <3>1 DEF RemoteChanges, SyncTypeOK
      <4>2. /\ work'[w].at = work[w].at /\ work'[w].left = work[w].left /\ work'[w].seen = work[w].seen
            /\ work'[w].todo = work[w].todo /\ work'[w].cur = work[w].cur
            /\ work'[w].there = IF c = Absent THEN work[w].there \ {i} ELSE work[w].there
        BY <4>1 DEF Loaded
      <4>3. \A j \in Item : remote'[j] = IF j = i THEN c ELSE remote[j]
        BY <2>2 DEF RemoteChanges, SyncTypeOK
      <4>4. Kept(w) /\ work[w].there \subseteq Item
        BY <4>1 DEF KeptInv, Loaded
      <4> QED BY <4>2, <4>3, <4>4 DEF Kept
    <3> QED BY <3>1 DEF KeptInv
  <2>3. ASSUME NEW i \in Item, NEW k \in LiveDocuments(i), DocumentDeleted(i, k) PROVE KeptInv'
    <3>1. ASSUME NEW w \in Worker, work'[w] # Idle PROVE Kept(w)'
      <4>1. work[w] # Idle /\ work[w] \in Loaded /\ work'[w] = [work[w] EXCEPT !.calm = FALSE]
        BY <2>3, <3>1 DEF DocumentDeleted, SyncTypeOK
      <4>2. /\ work'[w].at = work[w].at /\ work'[w].left = work[w].left /\ work'[w].seen = work[w].seen
            /\ work'[w].todo = work[w].todo /\ work'[w].cur = work[w].cur /\ work'[w].there = work[w].there
        BY <4>1 DEF Loaded
      <4>3. Kept(w) /\ remote' = remote
        BY <2>3, <4>1 DEF KeptInv, DocumentDeleted
      <4> QED BY <4>2, <4>3 DEF Kept
    <3> QED BY <3>1 DEF KeptInv
  <2>4. ASSUME NEW w \in Worker, Dies(w) PROVE KeptInv'
    <3>1. remote' = remote /\ Others(w) /\ Drops(w)
      BY <2>4, DropsEffect DEF Dies
    <3> QED BY <3>1 DEF KeptInv, Kept, Others, Drops
  <2>5. ASSUME NEW w \in Worker, Execute(w) \/ \E r \in Run : ClaimNextRun(w, r) PROVE KeptInv'
    BY <2>5, KeptStep
  <2> QED BY <2>1, <2>2, <2>3, <2>4, <2>5 DEF Next
<1>3. SyncTypeOK /\ KeptInv => RemovedWasGone
  BY Members DEF KeptInv, Kept, RemovedWasGone, At, Idle
<1> QED BY <1>1, <1>2, <1>3, SyncTypeCorrect, PTL DEF Spec

-----------------------------------------------------------------------------
(* One worker at a time, and what it knows.                                *)

(* A step of the execution leaves the worker with its run, unless it is    *)
(* the last one. *)
LEMMA Bearing ==
    ASSUME SyncTypeOK, NEW w \in Worker, Execute(w)
    PROVE  /\ Others(w) /\ work[w] # Idle
           /\ \/ /\ Drops(w)
                 /\ \/ run' = run
                    \/ \E status \in Ended \cup {"none"} : run' = [run EXCEPT ![work[w].run] =
                            [@ EXCEPT !.status = status, !.owner = Nobody, !.lapsed = FALSE]]
              \/ /\ work'[w] \in Loaded /\ run' = run
                 /\ work'[w].run = work[w].run /\ work'[w].attempts = work[w].attempts
<1> DEFINE On == /\ work[w] # Idle /\ Others(w) /\ work'[w] \in Loaded /\ run' = run
                 /\ work'[w].run = work[w].run /\ work'[w].attempts = work[w].attempts
           Off == /\ work[w] # Idle /\ Others(w) /\ Drops(w)
                  /\ \/ run' = run
                     \/ \E status \in Ended \cup {"none"} : run' = [run EXCEPT ![work[w].run] =
                            [@ EXCEPT !.status = status, !.owner = Nobody, !.lapsed = FALSE]]
<1>1. ASSUME GiveUp(w) PROVE Off
  <2>1. "failed" \in Ended \cup {"none"}
    BY DEF Ended
  <2> QED BY <1>1, <2>1, DropsEffect DEF GiveUp, Closes
<1>2. ASSUME FailCrashed(w) PROVE Off
  <2>1. "failed" \in Ended \cup {"none"}
    BY DEF Ended
  <2> QED BY <1>2, <2>1, DropsEffect DEF FailCrashed, Closes
<1>3. ASSUME FinishWrites(w) PROVE Off
  <2>1. work[w] # Idle /\ Others(w) /\ Drops(w)
    BY <1>3, DropsEffect
  <2>2. work[w].result \in Ended \cup {"none"}
    BY <2>1, Awake DEF Loaded
  <2> QED BY <1>3, <2>1, <2>2 DEF FinishWrites, Closes
<1>4. ASSUME Superseded(w) PROVE Off
  BY <1>4, DropsEffect DEF Superseded, store
<1>5. ASSUME NEW result \in Ended, NEW t \in BOOLEAN, work[w] # Idle, Concludes(w, result, t), UNCHANGED store PROVE On
  BY <1>5, ConcludesEffect DEF Others, store
<1>6. ASSUME ListingFails(w) \/ Stopped(w) \/ Truncate(w) \/ EndRemoval(w) PROVE On
  <2>1. work[w] # Idle
    <3>1. work[w].at # "idle"
      BY <1>6 DEF ListingFails, Stopped, AtCheckpoint, Truncate, EndRemoval, At
    <3> QED BY <3>1 DEF Idle
  <2>2. \E result \in Ended, t \in BOOLEAN : Concludes(w, result, t)
    <3>1. Result(w) \in Ended /\ "failed" \in Ended /\ "canceled" \in Ended
      BY DEF Result, Ended
    <3> QED BY <1>6, <3>1 DEF ListingFails, Stopped, Truncate, EndRemoval
  <2>3. UNCHANGED store
    BY <1>6 DEF ListingFails, Stopped, Truncate, EndRemoval
  <2> QED BY <1>5, <2>1, <2>2, <2>3
<1>7. ASSUME Begin(w) PROVE On
  <2>1. work[w] # Idle /\ UNCHANGED store
    BY <1>7 DEF Begin, At, Idle
  <2>2. CASE source.alive
    BY <1>7, <2>1, <2>2, BeginEffect DEF Others, store
  <2>3. CASE ~source.alive
    BY <1>5, <1>7, <2>1, <2>3 DEF Begin, Ended
  <2> QED BY <2>2, <2>3
<1>8. ASSUME LeaveByMetadata(w) \/ LeaveByHash(w) \/ ItemFails(w) \/ RecordItem(w) \/ MarkRemoved(w) PROVE On
  <2>1. run' = run
    BY <1>8 DEF LeaveByMetadata, LeaveByHash, ItemFails, RecordItem, MarkRemoved
  <2> QED BY <1>8, <2>1, DoneEffect, Members DEF Becomes, Others
<1>9. ASSUME EndListing(w) \/ RemovalFails(w) PROVE On
  BY <1>9, EndListingEffect, RemovalFailsEffect, Members DEF EndListing, RemovalFails, store, Becomes, Others
<1>10. ASSUME FinishReads(w) \/ CreateTask(w) PROVE On
  <2>1. work[w] # Idle /\ run' = run
    BY <1>10 DEF FinishReads, CreateTask, At, Idle, store
  <2>2. "ending" \in Place /\ "tasked" \in Place
    BY DEF Place, Listing
  <2>3. \E place \in Place : Goes(w, place)
    BY <1>10, <2>2 DEF FinishReads, CreateTask
  <2> QED BY <2>1, <2>3, GoesEffect DEF Becomes, Others
<1>11. ASSUME CreateVersion(w) PROVE On
  BY <1>11, CreateVersionEffect, Members DEF CreateVersion, Becomes, Others
<1>12. ASSUME NEW k \in work[w].old, DeleteVersion(w, k) PROVE On
  BY <1>12, DeleteVersionEffect, Members DEF DeleteVersion, Becomes, Others
<1>13. ASSUME NEW i \in Item, PassAbsent(w, i) PROVE On
  BY <1>13, PassAbsentEffect, Members DEF PassAbsent, Becomes, Others, store
<1>14. ASSUME NEW i \in Item, Enter(w, i) PROVE On
  BY <1>14, EnterEffect, Members DEF Enter, Becomes, Others, store
<1>15. ASSUME NEW i \in Item, Retire(w, i) PROVE On
  BY <1>15, RetireEffect, Members DEF Retire, Becomes, Others, store
<1>16. ASSUME InsertConflicts(w) PROVE On
  <2>1. work[w] # Idle /\ run' = run
    BY <1>16 DEF InsertConflicts, At, Idle, store
  <2> QED BY <1>16, <2>1, AfreshEffect DEF Afresh
<1>17. On \/ Off
  BY <1>1, <1>2, <1>3, <1>4, <1>6, <1>7, <1>8, <1>9, <1>10, <1>11, <1>12, <1>13, <1>14, <1>15, <1>16
        DEF Execute, ItemStep
<1> QED BY <1>17

(* Once a lease was lost that is not forgotten. *)
LEMMA OverlapsGrow ==
    ASSUME SyncTypeOK, [Next]_vars, overlaps' = 0
    PROVE  overlaps = 0
<1>1. CASE UNCHANGED vars
  BY <1>1 DEF vars, bounds
<1>2. CASE FallsDue \/ TriggerSync \/ EnqueueDueRun
  BY <1>2 DEF FallsDue, TriggerSync, EnqueueDueRun, bounds
<1>3. CASE MemberWrites
  BY <1>3 DEF MemberWrites, SyncTypeOK
<1>4. ASSUME NEW r \in Run, Lapse(r) \/ \E act \in {"cancel", "delete"} : MemberReads(act, r) PROVE overlaps = 0
  BY <1>4 DEF Lapse, MemberReads, SyncTypeOK
<1>5. ASSUME NEW i \in Item, \/ \E c \in {Absent} \cup Content : RemoteChanges(i, c)
                             \/ \E k \in LiveDocuments(i) : DocumentDeleted(i, k)
      PROVE  overlaps = 0
  BY <1>5 DEF RemoteChanges, DocumentDeleted
<1>6. ASSUME NEW w \in Worker, Dies(w) PROVE overlaps = 0
  BY <1>6 DEF Dies
<1>7. ASSUME NEW w \in Worker, Execute(w) \/ \E r \in Run : ClaimNextRun(w, r) PROVE overlaps = 0
  BY <1>7, Inside DEF bounds
<1> QED BY <1>1, <1>2, <1>3, <1>4, <1>5, <1>6, <1>7 DEF Next

(* What happens outside leaves the workers where they are. *)
Alike(m, n) ==
    /\ n.at = m.at /\ n.run = m.run /\ n.attempts = m.attempts /\ n.items = m.items /\ n.live = m.live
    /\ n.left = m.left /\ n.seen = m.seen /\ n.todo = m.todo /\ n.cur = m.cur /\ n.got = m.got
    /\ n.old = m.old /\ n.failed = m.failed /\ n.truncated = m.truncated /\ n.result = m.result
    /\ n.calm = FALSE

LEMMA OutsideEffect ==
    ASSUME SyncTypeOK, NEW w \in Worker,
           \/ \E i \in Item, c \in {Absent} \cup Content : RemoteChanges(i, c)
           \/ \E i \in Item : \E k \in LiveDocuments(i) : DocumentDeleted(i, k)
    PROVE  /\ work[w] = Idle => work'[w] = Idle
           /\ work[w] # Idle => work'[w] # Idle /\ Alike(work[w], work'[w])
<1>1. \A m \in Loaded, s \in SUBSET Item : Alike(m, [m EXCEPT !.calm = FALSE, !.there = s])
  BY DEF Loaded, Alike
<1>2. \A m \in Loaded : Alike(m, [m EXCEPT !.calm = FALSE])
  BY DEF Loaded, Alike
<1>3. \A m, n : m # Idle /\ m \in Loaded /\ Alike(m, n) => n # Idle
  BY DEF Loaded, Alike, Idle, Place, Listing, Removing
<1>4. work[w] # Idle => work[w] \in Loaded /\ work[w].there \in SUBSET Item
  BY DEF SyncTypeOK, Loaded
<1>5. ASSUME NEW i \in Item, NEW c \in {Absent} \cup Content, RemoteChanges(i, c)
      PROVE  /\ work[w] = Idle => work'[w] = Idle
             /\ work[w] # Idle => work'[w] # Idle /\ Alike(work[w], work'[w])
  <2> DEFINE s == IF c = Absent THEN work[w].there \ {i} ELSE work[w].there
  <2>1. work[w] # Idle => work'[w] = [work[w] EXCEPT !.calm = FALSE, !.there = s]
    BY <1>5 DEF RemoteChanges
  <2>2. work[w] # Idle => s \in SUBSET Item
    BY <1>4
  <2> HIDE DEF s
  <2>3. work[w] # Idle => Alike(work[w], [work[w] EXCEPT !.calm = FALSE, !.there = s])
    BY <1>1, <1>4, <2>2
  <2>4. work[w] = Idle => work'[w] = Idle
    BY <1>5 DEF RemoteChanges
  <2> QED BY <1>3, <1>4, <2>1, <2>3, <2>4
<1>6. ASSUME NEW i \in Item, NEW k \in LiveDocuments(i), DocumentDeleted(i, k)
      PROVE  /\ work[w] = Idle => work'[w] = Idle
             /\ work[w] # Idle => work'[w] # Idle /\ Alike(work[w], work'[w])
  BY <1>2, <1>3, <1>4, <1>6 DEF DocumentDeleted
<1> QED BY <1>5, <1>6

(* A worker that goes on holds its run as before. *)
Holds(w) ==
    /\ Row(w).status = "running" /\ Owns(w) /\ ~Row(w).lapsed
    /\ Row(w).attempts = work[w].attempts
    /\ \A v \in Worker \ {w} : work[v] = Idle

LEMMA SoleIs ==
    Sole <=> /\ \A r, q \in Run : run[r].status \in Active /\ run[q].status \in Active => r = q
             /\ \A w \in Worker : work[w] # Idle => Holds(w)
  BY DEF Sole, Holds

LEMMA SoleStep ==
    ASSUME SyncTypeOK, overlaps = 0 => Sole, [Next]_vars, overlaps' = 0
    PROVE  Sole'
<1>0. /\ \A r, q \in Run : run[r].status \in Active /\ run[q].status \in Active => r = q
      /\ \A w \in Worker : work[w] # Idle => Holds(w)
      /\ \A w \in Worker : work[w] # Idle => work[w].run \in Run
      /\ overlaps = 0 /\ run \in [Run -> RunRow]
  BY OverlapsGrow, SoleIs, Awake DEF SyncTypeOK
<1>1. ASSUME run' = run, \A w \in Worker : \/ work'[w] = Idle
                                           \/ /\ work[w] # Idle /\ work'[w].run = work[w].run
                                              /\ work'[w].attempts = work[w].attempts
      PROVE  Sole'
  BY <1>0, <1>1 DEF Sole, Holds, Row, Owns
<1>2. CASE UNCHANGED vars \/ FallsDue \/ \E r \in Run, act \in {"cancel", "delete"} : MemberReads(act, r)
  <2>1. UNCHANGED <<run, work>>
    BY <1>2 DEF vars, store, FallsDue, MemberReads
  <2> QED BY <1>1, <2>1
<1>3. ASSUME Idles, Queues, UNCHANGED work PROVE Sole'
  <2>1. \A w \in Worker : work[w] = Idle
    BY <1>0, <1>3 DEF Holds, Row, Idles, Active
  <2>2. \A r, q \in Run : run'[r].status \in Active /\ run'[q].status \in Active => r = q
    BY <1>0, <1>3 DEF Idles, Queues, NewRun
  <2> QED BY <1>3, <2>1, <2>2 DEF Sole
<1>4. CASE TriggerSync \/ EnqueueDueRun
  BY <1>1, <1>3, <1>4 DEF TriggerSync, EnqueueDueRun
<1>5. CASE MemberWrites
  <2>1. member.run \in Run /\ (member.queued => run[member.run].status = "queued") /\ work' = work
    BY <1>0, <1>5 DEF MemberWrites, SyncTypeOK
  <2>2. CASE member.queued
    <3>1. \A r \in Run : run'[r] = IF r = member.run THEN [run[r] EXCEPT !.status = "canceled"] ELSE run[r]
      BY <1>0, <1>5, <2>1, <2>2 DEF MemberWrites
    <3>2. \A r \in Run : run'[r].status = IF r = member.run THEN "canceled" ELSE run[r].status
      BY <1>0, <3>1 DEF RunRow
    <3>3. \A w \in Worker : work[w] # Idle => work[w].run # member.run
      BY <1>0, <2>1, <2>2 DEF Holds, Row
    <3>4. \A w \in Worker : work[w] # Idle => Holds(w)'
      <4>1. \A w \in Worker : work[w] # Idle => run'[work[w].run] = run[work[w].run]
        BY <1>0, <3>1, <3>3
      <4> QED BY <1>0, <2>1, <4>1 DEF Holds, Row, Owns
    <3> QED BY <1>0, <2>1, <3>2, <3>4 DEF Sole, Holds, Active
  <2>3. CASE ~member.queued
    <3>1. \A r \in Run : run'[r] = IF r = member.run THEN [run[r] EXCEPT !.cancel = TRUE] ELSE run[r]
      BY <1>0, <1>5, <2>1, <2>3 DEF MemberWrites
    <3>2. \A r \in Run : /\ run'[r].status = run[r].status /\ run'[r].owner = run[r].owner
                         /\ run'[r].lapsed = run[r].lapsed /\ run'[r].attempts = run[r].attempts
      BY <1>0, <3>1 DEF RunRow
    <3>3. \A w \in Worker : work[w] # Idle => Holds(w)'
      BY <1>0, <2>1, <3>2 DEF Holds, Row, Owns
    <3> QED BY <1>0, <2>1, <3>2, <3>3 DEF Sole, Holds
  <2> QED BY <2>2, <2>3
<1>6. ASSUME NEW r \in Run, Lapse(r) PROVE Sole'
  <2>1. Holder(r) = {} /\ work' = work
    BY <1>0, <1>6 DEF Lapse, SyncTypeOK
  <2>2. \A w \in Worker : work[w] # Idle => work[w].run # r
    BY <1>0, <2>1 DEF Holder, Holds, Row
  <2>3. \A q \in Run : run'[q] = IF q = r THEN [run[q] EXCEPT !.lapsed = TRUE] ELSE run[q]
    BY <1>0, <1>6 DEF Lapse
  <2>4. \A q \in Run : run'[q].status = run[q].status
    BY <1>0, <2>3 DEF RunRow
  <2>5. \A w \in Worker : work[w] # Idle => Holds(w)'
    <3>1. ASSUME NEW w \in Worker, work[w] # Idle PROVE Holds(w)'
      <4>1. run'[work[w].run] = run[work[w].run]
        BY <1>0, <2>2, <2>3, <3>1
      <4> QED BY <1>0, <2>1, <3>1, <4>1 DEF Holds, Row, Owns
    <3> QED BY <3>1
  <2> QED BY <1>0, <2>1, <2>4, <2>5 DEF Sole, Holds
<1>7. CASE \/ \E i \in Item, c \in {Absent} \cup Content : RemoteChanges(i, c)
           \/ \E i \in Item : \E k \in LiveDocuments(i) : DocumentDeleted(i, k)
  <2>1. run' = run
    BY <1>7 DEF RemoteChanges, DocumentDeleted, store
  <2> QED BY <1>1, <1>7, <2>1, OutsideEffect DEF Alike
<1>8. ASSUME NEW w \in Worker, Dies(w) PROVE Sole'
  <2>1. run' = run
    BY <1>8 DEF Dies, store
  <2> QED BY <1>1, <1>8, <2>1, DropsEffect DEF Others, Drops
<1>9. ASSUME NEW w \in Worker, NEW r \in Run, ClaimNextRun(w, r) PROVE Sole'
  <2>1. work'[w].run = r /\ work'[w].attempts = run[r].attempts + 1 /\ Others(w) /\ work[w] = Idle
    BY <1>9, AfreshEffect, Members DEF ClaimNextRun, At, SyncTypeOK
  <2>2. \A v \in Worker : work[v] = Idle
    BY <1>0, <1>9 DEF ClaimNextRun, Claimable, Holds, Row, Active
  <2>3. \A q \in Run : run'[q] = IF q = r THEN [run[q] EXCEPT !.status = "running", !.owner = ProcessOf[w],
                                                !.lapsed = FALSE, !.attempts = run[r].attempts + 1] ELSE run[q]
    BY <1>0, <1>9 DEF ClaimNextRun
  <2>4. /\ run'[r].status = "running" /\ run'[r].owner = ProcessOf[w] /\ ~run'[r].lapsed
        /\ run'[r].attempts = run[r].attempts + 1
        /\ run[r].status \in Active
    <3>1. run[r].status \in Active
      BY <1>9 DEF ClaimNextRun, Claimable, Active
    <3>2. run[r] \in RunRow
      BY <1>0
    <3> QED BY <2>3, <3>1, <3>2 DEF RunRow
  <2>5. Holds(w)'
    BY <2>1, <2>2, <2>4 DEF Holds, Row, Owns, Others
  <2>6. \A p, q \in Run : run'[p].status \in Active /\ run'[q].status \in Active => p = q
    BY <1>0, <2>3, <2>4
  <2> QED BY <2>1, <2>2, <2>5, <2>6 DEF Sole, Holds, Others
<1>10. ASSUME NEW w \in Worker, Execute(w) PROVE Sole'
  <2>1. Others(w) /\ work[w] # Idle /\ \A v \in Worker \ {w} : work[v] = Idle
    BY <1>0, <1>10, Bearing DEF Holds
  <2>2. CASE run' = run
    <3>1. \/ work'[w] = Idle
          \/ work'[w].run = work[w].run /\ work'[w].attempts = work[w].attempts
      BY <1>10, Bearing DEF Drops
    <3> QED BY <1>1, <2>1, <2>2, <3>1 DEF Others
  <2>3. CASE run' # run
    <3>1. Drops(w) /\ \E status \in Ended \cup {"none"} : run' = [run EXCEPT ![work[w].run] =
                            [@ EXCEPT !.status = status, !.owner = Nobody, !.lapsed = FALSE]]
      BY <1>10, <2>3, Bearing
    <3>2. \A v \in Worker : work'[v] = Idle
      BY <2>1, <3>1 DEF Others, Drops
    <3>3. \A q \in Run : run'[q].status \in Active => run[q].status \in Active
      BY <1>0, <2>1, <3>1 DEF RunRow, Active, Ended
    <3> QED BY <1>0, <3>2, <3>3 DEF Sole
  <2> QED BY <2>2, <2>3
<1> QED BY <1>2, <1>4, <1>5, <1>6, <1>7, <1>8, <1>9, <1>10 DEF Next

(* A worker that neither lists nor removes need not know anything. *)
LEMMA AbreastElsewhere ==
    ASSUME NEW w \in Worker, work'[w].at \notin Listing \cup Removing
    PROVE  Abreast(w)'
  BY DEF Abreast, CopiesCurrent, KnowsLive, NewestInHand, AllInHand, Listing, Removing

LEMMA AbreastStays ==
    ASSUME NEW w \in Worker, Abreast(w), UNCHANGED <<deleteRemoved, item, document>>,
           work'[w].at = work[w].at, work'[w].items = work[w].items, work'[w].live = work[w].live,
           work'[w].cur = work[w].cur, work'[w].got = work[w].got, work'[w].old = work[w].old
    PROVE  Abreast(w)'
  BY DEF Abreast, CopiesCurrent, KnowsLive, NewestInHand, AllInHand, LiveDocuments

LEMMA IngestedStays ==
    ASSUME Ingested, UNCHANGED <<item, document>>
    PROVE  Ingested'
  BY DEF Ingested

(* A document is deleted under the worker's hands, by others or by itself. *)
LEMMA IngestedDeleted ==
    ASSUME SyncTypeOK, Ingested, NEW i \in Item, NEW k \in DOMAIN document[i], item' = item,
           document' = [document EXCEPT ![i][k].live = FALSE]
    PROVE  /\ Ingested'
           /\ LiveDocuments(i)' = LiveDocuments(i) \ {k}
           /\ \A j \in Item \ {i} : LiveDocuments(j)' = LiveDocuments(j)
           /\ \A j \in Item : /\ Len(document'[j]) = Len(document[j])
                              /\ \A m \in DOMAIN document[j] :
                                    /\ document'[j][m].content = document[j][m].content
                                    /\ document'[j][m].tasked = document[j][m].tasked
<1>1. document \in Documents /\ item \in Rows
  BY DEF SyncTypeOK
<1>2. /\ \A j \in Item : Len(document'[j]) = Len(document[j]) /\ DOMAIN document'[j] = DOMAIN document[j]
      /\ \A j \in Item \ {i} : document'[j] = document[j]
      /\ \A m \in DOMAIN document[i] : document'[i][m] =
                IF m = k THEN [content |-> document[i][k].content, live |-> FALSE,
                               tasked |-> document[i][k].tasked]
                ELSE document[i][m]
  BY <1>1, VersionDeleted
<1>3. \A j \in Item : \A m \in DOMAIN document[j] :
        /\ document'[j][m].content = document[j][m].content
        /\ document'[j][m].tasked = document[j][m].tasked
  BY <1>2
<1>4. LiveDocuments(i)' = LiveDocuments(i) \ {k} /\ \A j \in Item \ {i} : LiveDocuments(j)' = LiveDocuments(j)
  BY <1>2 DEF LiveDocuments
<1>5. \A j \in Item : DOMAIN document[j] = 1..Len(document[j]) /\ Len(document[j]) \in Nat
  BY <1>1 DEF Documents
<1>6. Ingested'
  BY <1>2, <1>3, <1>5 DEF Ingested
<1> QED BY <1>2, <1>3, <1>4, <1>6

LEMMA OutsideAbreast ==
    ASSUME SyncTypeOK, Ingested, NEW w \in Worker, work[w] # Idle => Abreast(w),
           \/ \E i \in Item, c \in {Absent} \cup Content : RemoteChanges(i, c)
           \/ \E i \in Item : \E k \in LiveDocuments(i) : DocumentDeleted(i, k)
    PROVE  Ingested' /\ (work'[w] # Idle => Abreast(w)')
<1>1. work'[w] # Idle => work[w] # Idle /\ Alike(work[w], work'[w])
  BY OutsideEffect
<1>2. ASSUME NEW i \in Item, NEW c \in {Absent} \cup Content, RemoteChanges(i, c)
      PROVE  Ingested' /\ (work'[w] # Idle => Abreast(w)')
  BY <1>1, <1>2, AbreastStays, IngestedStays DEF RemoteChanges, store, Alike
<1>3. ASSUME NEW i \in Item, NEW k \in LiveDocuments(i), DocumentDeleted(i, k)
      PROVE  Ingested' /\ (work'[w] # Idle => Abreast(w)')
  <2>1. /\ k \in DOMAIN document[i] /\ UNCHANGED <<item, deleteRemoved>>
        /\ document' = [document EXCEPT ![i][k].live = FALSE]
    BY <1>3 DEF DocumentDeleted, LiveDocuments
  <2>2. /\ Ingested'
        /\ \A j \in Item : LiveDocuments(j)' \subseteq LiveDocuments(j)
        /\ \A j \in Item : /\ Len(document'[j]) = Len(document[j])
                           /\ \A m \in DOMAIN document[j] :
                                /\ document'[j][m].content = document[j][m].content
                                /\ document'[j][m].tasked = document[j][m].tasked
    BY <2>1, IngestedDeleted
  <2>3. ASSUME work'[w] # Idle PROVE Abreast(w)'
    <3>1. work[w] # Idle /\ Alike(work[w], work'[w]) /\ Abreast(w) /\ (work[w].at \in InHand => work[w].cur \in Item)
      BY <1>1, <2>3 DEF SyncTypeOK, MemoryFits
    <3>2. CopiesCurrent(w)' /\ KnowsLive(w)'
      BY <2>1, <2>2, <3>1 DEF Abreast, CopiesCurrent, KnowsLive, Alike
    <3>3. NewestInHand(w)'
      <4>1. \A j \in Item : DOMAIN document[j] = 1..Len(document[j]) /\ Len(document[j]) \in Nat
        BY DEF SyncTypeOK, Documents
      <4> QED BY <2>2, <3>1, <4>1 DEF Abreast, NewestInHand, Alike, InHand
    <3>4. AllInHand(w)'
      BY <2>1, <2>2, <3>1 DEF Abreast, AllInHand, Alike, InHand
    <3> QED BY <3>2, <3>3, <3>4 DEF Abreast
  <2> QED BY <2>2, <2>3
<1> QED BY <1>2, <1>3

(* The worker's own writes to an item. *)
LEMMA Written ==
    ASSUME SyncTypeOK, NEW w \in Worker, work[w] # Idle, CopiesCurrent(w), work[w].at \in Listing \cup Removing,
           NEW place \in {"listing", "removing"}, NEW i \in Item, NEW new \in ItemRow,
           NEW extra \in SUBSET Item, Done(w, place, i, new, extra)
    PROVE  /\ item' = [item EXCEPT ![i] = new] /\ document' = document
           /\ item'[i] = new /\ \A j \in Item \ {i} : item'[j] = item[j]
           /\ work'[w].at = place /\ work'[w].items = item'
           /\ work'[w].live = work[w].live \cup extra
<1>1. Copy(w, i) = item[i] /\ work[w].items = item /\ item \in Rows
  BY DEF CopiesCurrent, Copy, SyncTypeOK
<1>2. item' \in Rows /\ item'[i] = new /\ \A j \in Item \ {i} : item'[j] = item[j]
  BY <1>1, StoresType DEF Done
<1>3. item' = [item EXCEPT ![i] = new]
  BY <1>1, <1>2 DEF Rows
<1>4. place \in Place
  BY DEF Place, Listing, Removing
<1>5. /\ work'[w].at = place /\ work'[w].items = [item EXCEPT ![i] = new]
      /\ work'[w].live = work[w].live \cup extra
  <2>1. Becomes(w, place, [work[w].items EXCEPT ![i] = new], work[w].live \cup extra,
                work[w].left, work[w].seen, work[w].todo, Anything, Absent, {},
                (work[w].failed \/ new.status = "failed"))
    BY <1>4, KeepsEffect DEF Done
  <2> QED BY <1>1, <2>1 DEF Becomes
<1> QED BY <1>2, <1>3, <1>5 DEF Done

(* A row is sound if its document is there and has its content.            *)
Sound(i, new) ==
    /\ new.document \in 0..Len(document[i])
    /\ new.document # 0 =>
        /\ document[i][new.document].content = new.content
        /\ document[i][new.document].tasked

LEMMA DoneSound ==
    ASSUME SyncTypeOK, Ingested, NEW w \in Worker, Abreast(w),
           LeaveByMetadata(w) \/ LeaveByHash(w) \/ ItemFails(w) \/ RecordItem(w) \/ MarkRemoved(w)
    PROVE  /\ work[w] # Idle /\ work[w].at \in Listing \cup Removing /\ work[w].cur \in Item
           /\ \E place \in {"listing", "removing"}, new \in ItemRow, extra \in SUBSET Item :
                /\ Done(w, place, work[w].cur, new, extra)
                /\ Sound(work[w].cur, new)
                /\ place = "listing" => work[w].at \in Listing
                /\ place = "listing" /\ new.document \in LiveDocuments(work[w].cur) =>
                        work[w].cur \in work[w].live \cup extra
<1> DEFINE i == work[w].cur
           Goal(place, new, extra) ==
                /\ Done(w, place, i, new, extra)
                /\ Sound(i, new)
                /\ place = "listing" => work[w].at \in Listing
                /\ place = "listing" /\ new.document \in LiveDocuments(i) => i \in work[w].live \cup extra
<1>0. work[w] # Idle /\ work[w].at \in Listing \cup Removing
  <2>1. work[w].at \in Listing \cup Removing
    <3>1. CASE LeaveByMetadata(w) \/ LeaveByHash(w) \/ ItemFails(w)
      BY <3>1 DEF LeaveByMetadata, LeaveByHash, ItemFails, Fetchable, At, Listing
    <3>2. CASE RecordItem(w) \/ MarkRemoved(w)
      BY <3>2 DEF RecordItem, MarkRemoved, At, Listing, Removing
    <3> QED BY <3>1, <3>2
  <2> QED BY <2>1 DEF Idle, Listing, Removing
<1>1. /\ Copy(w, i) = item[i]
      /\ work[w].at \in Listing /\ i \in Item /\ item[i] # NoRow /\ item[i].document \in LiveDocuments(i) =>
            i \in work[w].live
  BY <1>0 DEF Abreast, CopiesCurrent, KnowsLive, Copy
<1>2. \A j \in Item : Len(document[j]) \in Nat /\ DOMAIN document[j] = 1..Len(document[j])
  BY DEF SyncTypeOK, Documents
<1>3. ASSUME LeaveByMetadata(w) \/ LeaveByHash(w)
      PROVE  i \in Item /\ \E new \in ItemRow : Goal("listing", new, {})
  <2> DEFINE new == [Base(w, i) EXCEPT !.status = "present"]
  <2>1. /\ work[w].at = "item" /\ i \in Item /\ item[i] # NoRow
        /\ new \in ItemRow /\ new.content = item[i].content /\ new.document = item[i].document
        /\ Done(w, "listing", i, new, {})
    BY <1>1, <1>3, LeaveEffect DEF HasLive
  <2> HIDE DEF new
  <2>2. Goal("listing", new, {})
    BY <1>1, <2>1 DEF Ingested, Sound, Listing
  <2> QED BY <2>1, <2>2
<1>4. ASSUME ItemFails(w)
      PROVE  i \in Item /\ \E new \in ItemRow : Goal("listing", new, {})
  <2> DEFINE new == [Base(w, i) EXCEPT !.status = "failed"]
  <2>1. /\ work[w].at \in {"item", "versioned"} /\ i \in Item /\ new \in ItemRow
        /\ item[i] # NoRow => new.content = item[i].content /\ new.document = item[i].document
        /\ item[i] = NoRow => new.document = 0
        /\ Done(w, "listing", i, new, {})
    BY <1>1, <1>4, FailEffect
  <2> HIDE DEF new
  <2>2. Sound(i, new)
    BY <1>2, <2>1 DEF Ingested, Sound
  <2>3. new.document \in LiveDocuments(i) => i \in work[w].live
    BY <1>1, <1>2, <2>1 DEF LiveDocuments, Listing
  <2> QED BY <2>1, <2>2, <2>3 DEF Listing
<1>5. ASSUME RecordItem(w)
      PROVE  i \in Item /\ \E new \in ItemRow : Goal("listing", new, {i})
  <2>1. work[w].at = "tasked" /\ i \in Item
    BY <1>5, RecordEffect
  <2>2. PICK k \in work[w].old :
            LET new == [status |-> "present", content |-> work[w].got, document |-> k] IN
            new \in ItemRow /\ Done(w, "listing", i, new, {i})
    BY <1>5, RecordEffect
  <2> DEFINE new == [status |-> "present", content |-> work[w].got, document |-> k]
  <2>3. k = Len(document[i]) /\ k > 0 /\ document[i][k].content = work[w].got /\ document[i][k].tasked
    BY <2>1 DEF Abreast, NewestInHand
  <2>4. Sound(i, new)
    BY <1>2, <2>1, <2>3 DEF Sound
  <2>5. new \in ItemRow /\ Done(w, "listing", i, new, {i})
    BY <2>2
  <2> HIDE DEF new
  <2> QED BY <2>1, <2>4, <2>5 DEF Listing
<1>6. ASSUME MarkRemoved(w)
      PROVE  i \in Item /\ \E new \in ItemRow : Goal("removing", new, {})
  <2> DEFINE new == [Copy(w, i) EXCEPT !.status = "removed",
                       !.document = IF deleteRemoved /\ Copy(w, i).content # Absent THEN 0 ELSE @]
  <2>1. /\ i \in Item /\ item[i] # NoRow /\ new \in ItemRow /\ new.content = item[i].content
        /\ new.document = 0 \/ new.document = item[i].document
        /\ Done(w, "removing", i, new, {})
    BY <1>1, <1>6, MarkEffect
  <2> HIDE DEF new
  <2>2. Sound(i, new)
    BY <1>2, <2>1 DEF Ingested, Sound
  <2> QED BY <2>1, <2>2
<1>7. i \in Item /\ \E place \in {"listing", "removing"}, new \in ItemRow, extra \in SUBSET Item : Goal(place, new, extra)
  <2> HIDE DEF Goal
  <2>1. {} \in SUBSET Item /\ (i \in Item => {i} \in SUBSET Item)
    OBVIOUS
  <2>2. CASE LeaveByMetadata(w) \/ LeaveByHash(w) \/ ItemFails(w)
    <3>1. PICK new \in ItemRow : Goal("listing", new, {})
      BY <1>3, <1>4, <2>2
    <3> QED BY <1>3, <1>4, <2>1, <2>2, <3>1
  <2>3. CASE RecordItem(w)
    <3>1. PICK new \in ItemRow : Goal("listing", new, {i})
      BY <1>5, <2>3
    <3> QED BY <1>5, <2>1, <2>3, <3>1
  <2>4. CASE MarkRemoved(w)
    <3>1. PICK new \in ItemRow : Goal("removing", new, {})
      BY <1>6, <2>4
    <3> QED BY <1>6, <2>1, <2>4, <3>1
  <2> QED BY <2>2, <2>3, <2>4
<1> QED BY <1>0, <1>7, Zenon

LEMMA DoneKnows ==
    ASSUME SyncTypeOK, Ingested, NEW w \in Worker, Abreast(w),
           LeaveByMetadata(w) \/ LeaveByHash(w) \/ ItemFails(w) \/ RecordItem(w) \/ MarkRemoved(w)
    PROVE  Ingested' /\ Abreast(w)'
<1>1. work[w] # Idle /\ work[w].at \in Listing \cup Removing /\ work[w].cur \in Item
  BY DoneSound
<1>2. PICK place \in {"listing", "removing"}, new \in ItemRow, extra \in SUBSET Item :
                /\ Done(w, place, work[w].cur, new, extra)
                /\ Sound(work[w].cur, new)
                /\ place = "listing" => work[w].at \in Listing
                /\ place = "listing" /\ new.document \in LiveDocuments(work[w].cur) =>
                        work[w].cur \in work[w].live \cup extra
  BY DoneSound, Zenon
<1>3. CopiesCurrent(w)
  BY DEF Abreast
<1> DEFINE i == work[w].cur
<1>4. /\ document' = document /\ item'[i] = new /\ \A j \in Item \ {i} : item'[j] = item[j]
      /\ work'[w].at = place /\ work'[w].items = item' /\ work'[w].live = work[w].live \cup extra
  BY <1>1, <1>2, <1>3, Written
<1>5. Ingested'
  BY <1>1, <1>2, <1>4 DEF Ingested, Sound
<1>6. KnowsLive(w)'
  <2>1. \A j : LiveDocuments(j)' = LiveDocuments(j)
    BY <1>4 DEF LiveDocuments
  <2>2. KnowsLive(w)
    BY DEF Abreast
  <2>3. ASSUME place = "listing", NEW j \in Item, item'[j] # NoRow, item'[j].document \in LiveDocuments(j)
        PROVE  j \in work'[w].live
    <3>1. CASE j = i
      BY <1>2, <1>4, <2>3, <3>1
    <3>2. CASE j # i
      BY <1>2, <1>4, <2>2, <2>3, <3>2 DEF KnowsLive
    <3> QED BY <3>1, <3>2
  <2>4. CASE place = "listing"
    BY <2>1, <2>3, <2>4 DEF KnowsLive
  <2>5. CASE place = "removing"
    BY <1>4, <2>5 DEF KnowsLive, Listing
  <2> QED BY <2>4, <2>5
<1>7. CopiesCurrent(w)' /\ NewestInHand(w)' /\ AllInHand(w)'
  BY <1>4 DEF CopiesCurrent, NewestInHand, AllInHand
<1> QED BY <1>5, <1>6, <1>7 DEF Abreast

LEMMA VersionKnows ==
    ASSUME SyncTypeOK, Ingested, NEW w \in Worker, Abreast(w), CreateVersion(w)
    PROVE  Ingested' /\ Abreast(w)'
<1>0. work[w].at = "item" /\ work[w] # Idle /\ work[w].cur \in Item
  BY DEF CreateVersion, Fetchable, At, Idle, SyncTypeOK, MemoryFits, InHand
<1>1. PICK i \in Item : i = work[w].cur
  BY <1>0
<1>1a. PICK n \in Nat : n = Len(document[i])
  BY <1>1 DEF SyncTypeOK, Documents
<1> DEFINE v == [content |-> remote[i], live |-> TRUE, tasked |-> FALSE]
<1>2. v \in Version /\ document \in Documents
  BY <1>1 DEF SyncTypeOK, Version
<1>3. AddsVersion(i, v) /\ item' = item /\ deleteRemoved' = deleteRemoved
  BY <1>1 DEF CreateVersion, AddsVersion
<1> HIDE DEF v
<1>4. /\ \A j \in Item \ {i} : document'[j] = document[j]
      /\ Len(document'[i]) = n + 1
      /\ DOMAIN document[i] = 1..n /\ DOMAIN document'[i] = 1..(n + 1)
      /\ document'[i][n + 1] = v
      /\ \A m \in DOMAIN document[i] : document'[i][m] = document[i][m]
  BY <1>1a, <1>2, <1>3, VersionAdded
<1>5. Ingested'
  <2>1. ASSUME NEW j \in Item, item[j] # NoRow PROVE Sound(j, item[j])'
    <3>1. Sound(j, item[j])
      BY <2>1 DEF Ingested, Sound
    <3>2. CASE j = i
      BY <1>1a, <1>3, <1>4, <3>1, <3>2 DEF Sound
    <3>3. CASE j # i
      BY <1>3, <1>4, <3>1, <3>3 DEF Sound
    <3> QED BY <3>2, <3>3
  <2> QED BY <1>3, <2>1 DEF Ingested, Sound
<1>6. /\ work'[w].at = "versioned" /\ work'[w].items = work[w].items /\ work'[w].live = work[w].live
      /\ work'[w].cur = i /\ work'[w].got = remote[i] /\ work'[w].old = {n + 1}
  BY <1>1, <1>1a, CreateVersionEffect DEF Becomes
<1>7. v.content = remote[i] /\ v.tasked = FALSE
  BY DEF v
<1>8. CopiesCurrent(w)'
  BY <1>0, <1>3, <1>6 DEF Abreast, CopiesCurrent, Listing
<1>9. NewestInHand(w)'
  BY <1>1a, <1>4, <1>6, <1>7 DEF NewestInHand
<1>10. \A j \in Item : item[j] # NoRow /\ item[j].document \in LiveDocuments(j)' => item[j].document \in LiveDocuments(j)
  <2>1. ASSUME NEW j \in Item, item[j] # NoRow, item[j].document \in LiveDocuments(j)'
        PROVE  item[j].document \in LiveDocuments(j)
    <3>1. item[j].document \in 0..Len(document[j])
      BY <2>1 DEF Ingested
    <3>2. CASE j = i
      BY <1>1a, <1>4, <2>1, <3>1, <3>2 DEF LiveDocuments
    <3>3. CASE j # i
      BY <1>4, <2>1, <3>3 DEF LiveDocuments
    <3> QED BY <3>2, <3>3
  <2> QED BY <2>1
<1>11. KnowsLive(w)'
  BY <1>0, <1>3, <1>6, <1>10 DEF Abreast, KnowsLive, Listing
<1>12. AllInHand(w)'
  BY <1>6 DEF AllInHand
<1> QED BY <1>5, <1>8, <1>9, <1>11, <1>12 DEF Abreast

LEMMA TaskKnows ==
    ASSUME SyncTypeOK, Ingested, NEW w \in Worker, Abreast(w), CreateTask(w)
    PROVE  Ingested' /\ Abreast(w)'
<1>0. work[w].at = "versioned" /\ work[w] # Idle /\ work[w].cur \in Item
  BY DEF CreateTask, At, Idle, SyncTypeOK, MemoryFits, InHand
<1>1. PICK i \in Item : i = work[w].cur
  BY <1>0
<1>1a. PICK n \in Nat : n = Len(document[i])
  BY <1>1 DEF SyncTypeOK, Documents
<1>2. document \in Documents /\ item' = item /\ deleteRemoved' = deleteRemoved
  BY DEF SyncTypeOK, CreateTask
<1>3. work[w].old = {n} /\ n > 0 /\ document[i][n].content = work[w].got
  BY <1>0, <1>1, <1>1a DEF Abreast, NewestInHand
<1>4. /\ \A j \in Item : Len(document'[j]) = Len(document[j]) /\ DOMAIN document'[j] = DOMAIN document[j]
      /\ \A j \in Item \ {i} : document'[j] = document[j]
      /\ \A m \in DOMAIN document[i] : document'[i][m] =
                IF m \in work[w].old THEN [content |-> document[i][m].content, live |-> document[i][m].live,
                                  tasked |-> TRUE]
                ELSE document[i][m]
  <2>1. GetTask(i, work[w].old)
    BY <1>1 DEF CreateTask, GetTask
  <2> QED BY <1>2, <2>1, VersionTasked
<1>5. \A j \in Item : DOMAIN document[j] = 1..Len(document[j]) /\ Len(document[j]) \in Nat
  BY <1>2 DEF Documents
<1>6. \A j \in Item : \A m \in DOMAIN document[j] :
        /\ document'[j][m].content = document[j][m].content /\ document'[j][m].live = document[j][m].live
        /\ document[j][m].tasked => document'[j][m].tasked
  <2>1. ASSUME NEW m \in DOMAIN document[i]
        PROVE  /\ document'[i][m].content = document[i][m].content /\ document'[i][m].live = document[i][m].live
               /\ document[i][m].tasked => document'[i][m].tasked
    <3>1. CASE m \in work[w].old
      <4>1. document'[i][m] = [content |-> document[i][m].content, live |-> document[i][m].live, tasked |-> TRUE]
        BY <1>4, <3>1
      <4> QED BY <4>1
    <3>2. CASE m \notin work[w].old
      <4>1. document'[i][m] = document[i][m]
        BY <1>4, <3>2
      <4> QED BY <4>1
    <3> QED BY <3>1, <3>2
  <2>2. ASSUME NEW j \in Item, j # i, NEW m \in DOMAIN document[j]
        PROVE  /\ document'[j][m].content = document[j][m].content /\ document'[j][m].live = document[j][m].live
               /\ document[j][m].tasked => document'[j][m].tasked
    BY <1>4, <2>2
  <2> QED BY <2>1, <2>2
<1>7. document'[i][n].tasked = TRUE
  <2>1. n \in DOMAIN document[i] /\ n \in work[w].old
    BY <1>1a, <1>3, <1>5
  <2>2. document'[i][n] = [content |-> document[i][n].content, live |-> document[i][n].live, tasked |-> TRUE]
    BY <1>4, <2>1
  <2> QED BY <2>2
<1>8. Ingested'
  BY <1>2, <1>4, <1>5, <1>6 DEF Ingested
<1>9. \A j \in Item : LiveDocuments(j)' = LiveDocuments(j)
  BY <1>4, <1>6 DEF LiveDocuments
<1>10. /\ work'[w].at = "tasked" /\ work'[w].items = work[w].items /\ work'[w].live = work[w].live
       /\ work'[w].cur = i /\ work'[w].got = work[w].got /\ work'[w].old = work[w].old
  BY <1>0, <1>1, GoesEffect DEF CreateTask, Becomes, Place, Listing
<1>11. NewestInHand(w)'
  <2>1. n \in DOMAIN document[i] /\ Len(document'[i]) = n
    BY <1>1a, <1>3, <1>4, <1>5
  <2> QED BY <1>3, <1>6, <1>7, <1>10, <2>1 DEF NewestInHand
<1>12. CopiesCurrent(w)' /\ KnowsLive(w)' /\ AllInHand(w)'
  BY <1>0, <1>2, <1>9, <1>10 DEF Abreast, CopiesCurrent, KnowsLive, AllInHand, Listing
<1> QED BY <1>8, <1>11, <1>12 DEF Abreast

LEMMA DeleteKnows ==
    ASSUME SyncTypeOK, Ingested, NEW w \in Worker, Abreast(w), NEW k \in work[w].old, DeleteVersion(w, k)
    PROVE  Ingested' /\ Abreast(w)'
<1>0. work[w].at = "deleting" /\ work[w] # Idle /\ work[w].cur \in Item
  BY DEF DeleteVersion, At, Idle, SyncTypeOK, MemoryFits, InHand
<1>1. PICK i \in Item : i = work[w].cur
  BY <1>0
<1>2. document' = [document EXCEPT ![i][k].live = FALSE] /\ item' = item /\ deleteRemoved' = deleteRemoved
  BY <1>1 DEF DeleteVersion
<1>3. Ingested' /\ LiveDocuments(i)' = LiveDocuments(i) \ {k}
  <2>1. CASE k \in DOMAIN document[i]
    BY <1>2, <2>1, IngestedDeleted
  <2>2. CASE k \notin DOMAIN document[i]
    <3>1. \A s \in Seq(Version) : k \notin DOMAIN s => [s EXCEPT ![k].live = FALSE] = s
      OBVIOUS
    <3>2. document[i] \in Seq(Version) /\ document \in Documents
      BY <1>1 DEF SyncTypeOK, Documents
    <3>3. document' = [document EXCEPT ![i] = document[i]]
      BY <1>2, <2>2, <3>1, <3>2
    <3>4. document' = document
      BY <1>1, <3>2, <3>3 DEF Documents
    <3>5. LiveDocuments(i)' = LiveDocuments(i) /\ k \notin LiveDocuments(i)
      BY <2>2, <3>4 DEF LiveDocuments
    <3> QED BY <1>2, <3>4, <3>5, IngestedStays
  <2> QED BY <2>1, <2>2
<1>4. /\ work'[w].at = "deleting" /\ work'[w].items = work[w].items
      /\ work'[w].cur = i /\ work'[w].old = work[w].old \ {k}
  BY <1>0, <1>1, DeleteVersionEffect DEF Becomes
<1>5. CopiesCurrent(w)' /\ KnowsLive(w)' /\ NewestInHand(w)'
  BY <1>0, <1>2, <1>4 DEF Abreast, CopiesCurrent, KnowsLive, NewestInHand, Listing, Removing
<1>6. AllInHand(w)'
  BY <1>0, <1>1, <1>2, <1>3, <1>4 DEF Abreast, AllInHand
<1> QED BY <1>3, <1>5, <1>6 DEF Abreast

(* The steps in between. *)
LEMMA BetweenKnows ==
    ASSUME SyncTypeOK, NEW w \in Worker, Abreast(w), UNCHANGED <<deleteRemoved, item, document>>,
           \/ EndListing(w) \/ RemovalFails(w)
           \/ \E i \in Item : PassAbsent(w, i) \/ Enter(w, i) \/ Retire(w, i)
    PROVE  Abreast(w)'
<1>1. \A j : LiveDocuments(j)' = LiveDocuments(j)
  BY DEF LiveDocuments
<1>2. CASE EndListing(w) \/ RemovalFails(w)
  <2>1. /\ work[w].at \in Listing \cup Removing /\ work'[w].at = "removing" /\ work'[w].items = work[w].items
    <3>1. CASE EndListing(w)
      BY <3>1, EndListingEffect DEF EndListing, At, Becomes, Listing
    <3>2. CASE RemovalFails(w)
      BY <3>2, RemovalFailsEffect DEF RemovalFails, At, Becomes, Removing
    <3> QED BY <1>2, <3>1, <3>2
  <2> QED BY <2>1 DEF Abreast, CopiesCurrent, KnowsLive, NewestInHand, AllInHand, Listing
<1>3. ASSUME NEW i \in Item, PassAbsent(w, i) \/ Enter(w, i) PROVE Abreast(w)'
  <2>1. /\ work[w].at = "listing" /\ work'[w].at \in {"listing", "item"} /\ work'[w].items = work[w].items
        /\ work'[w].live = work[w].live
    <3>1. CASE PassAbsent(w, i)
      BY <3>1, PassAbsentEffect DEF PassAbsent, At, Becomes
    <3>2. CASE Enter(w, i)
      BY <3>2, EnterEffect DEF Enter, At, Becomes
    <3> QED BY <1>3, <3>1, <3>2
  <2> QED BY <1>1, <2>1 DEF Abreast, CopiesCurrent, KnowsLive, NewestInHand, AllInHand, Listing
<1>4. ASSUME NEW i \in Item, Retire(w, i) PROVE Abreast(w)'
  <2>1. /\ work[w].at = "removing" /\ work'[w].at = "deleting" /\ work'[w].items = work[w].items
        /\ work'[w].cur = i
        /\ work'[w].old = IF deleteRemoved /\ work[w].items[i].content # Absent THEN LiveDocuments(i) ELSE {}
    <3>1. work[w].at = "removing"
      BY <1>4 DEF Retire, At
    <3> QED BY <1>4, <3>1, RetireEffect DEF Becomes, Copy
  <2>2. work[w].items = item
    BY <2>1 DEF Abreast, CopiesCurrent, Removing
  <2> QED BY <1>1, <2>1, <2>2 DEF Abreast, CopiesCurrent, KnowsLive, NewestInHand, AllInHand, Listing
<1> QED BY <1>2, <1>3, <1>4

(* A run begins with the rows as they are. *)
LEMMA BeginKnows ==
    ASSUME SyncTypeOK, NEW w \in Worker, Begin(w), source.alive
    PROVE  Abreast(w)'
<1>1. UNCHANGED <<item, document>>
  BY DEF Begin, store
<1>2. /\ work'[w].at = "listing" /\ work'[w].items = item
      /\ work'[w].live = {i \in Item : item[i] # NoRow /\ item[i].document \in LiveDocuments(i)}
  BY BeginEffect
<1>3. \A j : LiveDocuments(j)' = LiveDocuments(j)
  BY <1>1 DEF LiveDocuments
<1> QED BY <1>1, <1>2, <1>3 DEF Abreast, CopiesCurrent, KnowsLive, NewestInHand, AllInHand

(* Whatever a worker does, it knows of it. *)
LEMMA WorkerKnows ==
    ASSUME SyncTypeOK, Ingested, NEW w \in Worker, Abreast(w), Execute(w)
    PROVE  Ingested' /\ (work'[w] # Idle => Abreast(w)')
<1> DEFINE Goal == Ingested' /\ (work'[w] # Idle => Abreast(w)')
<1>1. ASSUME GiveUp(w) \/ FailCrashed(w) \/ FinishWrites(w) \/ Superseded(w) PROVE Goal
  <2>1. UNCHANGED <<item, document>>
    BY <1>1 DEF GiveUp, FailCrashed, FinishWrites, Superseded, store
  <2>2. work'[w] = Idle
    BY <1>1, DropsEffect DEF Drops
  <2> QED BY <2>1, <2>2, IngestedStays
<1>2. ASSUME NEW result \in Ended, NEW t \in BOOLEAN, work[w] # Idle, Concludes(w, result, t), UNCHANGED store
      PROVE  Goal
  <2>1. work'[w].at = "finishing"
    BY <1>2, ConcludesEffect
  <2> QED BY <1>2, <2>1, IngestedStays, AbreastElsewhere DEF store, Listing, Removing
<1>3. ASSUME ListingFails(w) \/ Stopped(w) \/ Truncate(w) \/ EndRemoval(w) PROVE Goal
  <2>1. work[w] # Idle
    <3>1. work[w].at # "idle"
      BY <1>3 DEF ListingFails, Stopped, AtCheckpoint, Truncate, EndRemoval, At
    <3> QED BY <3>1 DEF Idle
  <2>2. \E result \in Ended, t \in BOOLEAN : Concludes(w, result, t)
    <3>1. Result(w) \in Ended /\ "failed" \in Ended /\ "canceled" \in Ended
      BY DEF Result, Ended
    <3> QED BY <1>3, <3>1 DEF ListingFails, Stopped, Truncate, EndRemoval
  <2>3. UNCHANGED store
    BY <1>3 DEF ListingFails, Stopped, Truncate, EndRemoval
  <2> QED BY <1>2, <2>1, <2>2, <2>3
<1>4. ASSUME Begin(w) PROVE Goal
  <2>1. work[w] # Idle /\ UNCHANGED store
    BY <1>4 DEF Begin, At, Idle
  <2>2. CASE source.alive
    BY <1>4, <2>1, <2>2, BeginKnows, IngestedStays DEF store
  <2>3. CASE ~source.alive
    BY <1>2, <1>4, <2>1, <2>3 DEF Begin, Ended
  <2> QED BY <2>2, <2>3
<1>5. ASSUME LeaveByMetadata(w) \/ LeaveByHash(w) \/ ItemFails(w) \/ RecordItem(w) \/ MarkRemoved(w) PROVE Goal
  BY <1>5, DoneKnows
<1>6. ASSUME CreateVersion(w) \/ CreateTask(w) \/ \E k \in work[w].old : DeleteVersion(w, k) PROVE Goal
  BY <1>6, VersionKnows, TaskKnows, DeleteKnows
<1>7. ASSUME FinishReads(w) \/ InsertConflicts(w) PROVE Goal
  <2>1. UNCHANGED <<item, document>>
    BY <1>7 DEF FinishReads, InsertConflicts, store
  <2>2. ASSUME FinishReads(w) PROVE work'[w].at = "ending"
    BY <2>2, GoesEffect DEF FinishReads, At, Idle, Becomes, Place
  <2>3. work'[w].at = "ending" \/ work'[w].at = "crashed"
    BY <1>7, <2>2, AfreshEffect DEF Afresh
  <2> QED BY <2>1, <2>3, IngestedStays, AbreastElsewhere DEF Listing, Removing
<1>8. ASSUME \/ EndListing(w) \/ RemovalFails(w)
             \/ \E i \in Item : PassAbsent(w, i) \/ Enter(w, i) \/ Retire(w, i)
      PROVE  Goal
  <2>1. UNCHANGED <<deleteRemoved, item, document>>
    BY <1>8 DEF EndListing, RemovalFails, PassAbsent, Enter, Retire, store
  <2> QED BY <1>8, <2>1, BetweenKnows, IngestedStays
<1>9. Goal
  BY <1>1, <1>3, <1>4, <1>5, <1>6, <1>7, <1>8 DEF Execute, ItemStep
<1> QED BY <1>9

LEMMA SoleInvStep ==
    ASSUME SyncTypeOK, SoleInv, [Next]_vars
    PROVE  SoleInv'
<1> SUFFICES ASSUME overlaps' = 0
             PROVE  Sole' /\ Ingested' /\ \A w \in Worker : work'[w] # Idle => Abreast(w)'
  BY DEF SoleInv
<1>1. overlaps = 0 /\ Sole /\ Ingested /\ \A w \in Worker : work[w] # Idle => Abreast(w)
  BY OverlapsGrow DEF SoleInv
<1>2. Sole'
  BY <1>1, SoleStep
<1> DEFINE Goal == Ingested' /\ \A w \in Worker : work'[w] # Idle => Abreast(w)'
<1>3. UNCHANGED <<deleteRemoved, item, document, work>> => Goal
  BY <1>1, IngestedStays, AbreastStays
<1>4. ASSUME UNCHANGED vars \/ FallsDue \/ TriggerSync \/ EnqueueDueRun \/ MemberWrites PROVE Goal
  <2>1. UNCHANGED <<deleteRemoved, item, document, work>>
    BY <1>4 DEF vars, store, FallsDue, TriggerSync, EnqueueDueRun, MemberWrites
  <2> QED BY <1>3, <2>1
<1>5. ASSUME NEW r \in Run, Lapse(r) \/ \E act \in {"cancel", "delete"} : MemberReads(act, r) PROVE Goal
  <2>1. UNCHANGED <<deleteRemoved, item, document, work>>
    BY <1>5 DEF store, Lapse, MemberReads
  <2> QED BY <1>3, <2>1
<1>6. ASSUME \/ \E i \in Item, c \in {Absent} \cup Content : RemoteChanges(i, c)
             \/ \E i \in Item : \E k \in LiveDocuments(i) : DocumentDeleted(i, k)
      PROVE  Goal
  <2>1. ASSUME NEW w \in Worker PROVE Ingested' /\ (work'[w] # Idle => Abreast(w)')
    BY <1>1, <1>6, OutsideAbreast
  <2>2. ASSUME Worker = {} PROVE Ingested'
    <3>1. CASE \E i \in Item, c \in {Absent} \cup Content : RemoteChanges(i, c)
      BY <1>1, <3>1, IngestedStays DEF RemoteChanges, store
    <3>2. ASSUME NEW i \in Item, NEW k \in LiveDocuments(i), DocumentDeleted(i, k) PROVE Ingested'
      BY <1>1, <3>2, IngestedDeleted DEF DocumentDeleted, LiveDocuments
    <3> QED BY <1>6, <3>1, <3>2
  <2>3. Ingested'
    BY <2>1, <2>2
  <2> QED BY <2>1, <2>3
<1>7. ASSUME NEW w \in Worker, Dies(w) PROVE Goal
  <2>1. UNCHANGED <<deleteRemoved, item, document>> /\ Others(w) /\ work'[w] = Idle
    BY <1>7, DropsEffect DEF Dies, store, Drops
  <2>2. ASSUME NEW v \in Worker, work'[v] # Idle PROVE Abreast(v)'
    BY <1>1, <2>1, <2>2, AbreastStays DEF Others
  <2> QED BY <1>1, <2>1, <2>2, IngestedStays
<1>8. ASSUME NEW w \in Worker, NEW r \in Run, ClaimNextRun(w, r) PROVE Goal
  <2>1. UNCHANGED <<deleteRemoved, item, document>> /\ Others(w) /\ work'[w].at = "claimed"
    BY <1>8, AfreshEffect DEF ClaimNextRun, Afresh
  <2>2. Abreast(w)'
    BY <2>1, AbreastElsewhere DEF Listing, Removing
  <2>3. ASSUME NEW v \in Worker \ {w}, work'[v] # Idle PROVE Abreast(v)'
    BY <1>1, <2>1, <2>3, AbreastStays DEF Others
  <2> QED BY <1>1, <2>1, <2>2, <2>3, IngestedStays
<1>9. ASSUME NEW w \in Worker, Execute(w) PROVE Goal
  <2>1. work[w] # Idle /\ \A v \in Worker \ {w} : work'[v] = Idle
    BY <1>1, <1>9, Bearing DEF Others, Sole
  <2>2. Ingested' /\ (work'[w] # Idle => Abreast(w)')
    BY <1>1, <1>9, <2>1, WorkerKnows
  <2> QED BY <2>1, <2>2
<1>10. Goal
  BY <1>4, <1>5, <1>6, <1>7, <1>8, <1>9 DEF Next
<1> QED BY <1>2, <1>10

LEMMA SoleInvHolds == Spec => []SoleInv
<1>1. Init => SoleInv
  <2> SUFFICES ASSUME Init PROVE SoleInv
    OBVIOUS
  <2>1. \A w \in Worker : work[w] = Idle
    BY DEF Init
  <2>2. \A r \in Run : run[r].status = "none"
    BY DEF Init, NoRun, NewRun
  <2>3. Sole
    BY <2>1, <2>2 DEF Sole, Active
  <2>4. Ingested
    <3>1. ASSUME NEW i \in Item, item[i] # NoRow PROVE Sound(i, item[i])
      <4>1. item[i].content = 1 /\ item[i].document = 1
        BY <3>1 DEF Init, Earlier
      <4>2. document[i] = <<FirstVersion>>
        BY <3>1 DEF Init
      <4>3. FirstVersion.content = 1 /\ FirstVersion.tasked = TRUE
        BY DEF FirstVersion
      <4> HIDE DEF FirstVersion
      <4>4. Len(<<FirstVersion>>) = 1 /\ <<FirstVersion>>[1] = FirstVersion
        OBVIOUS
      <4> QED BY <4>1, <4>2, <4>3, <4>4 DEF Sound
    <3> QED BY <3>1 DEF Ingested, Sound
  <2> QED BY <2>1, <2>3, <2>4 DEF SoleInv
<1>2. SyncTypeOK /\ SoleInv /\ [Next]_vars => SoleInv'
  BY SoleInvStep
<1> QED BY <1>1, <1>2, SyncTypeCorrect, PTL DEF Spec

-----------------------------------------------------------------------------
(* Ingested once.                                                          *)

Watches ==
    \A v \in Worker : work[v].at = "tasked" => work'[v].at = "tasked" /\ work'[v].cur = work[v].cur

(* Nothing is ingested, and what is recorded stays. *)
LEMMA OnceStays ==
    ASSUME SyncTypeOK, SkipsDone, NewestKnown, Watches,
           \A i \in Item : item[i] # NoRow => item'[i] # NoRow /\ item'[i].document = item[i].document,
           \A i \in Item : /\ Len(document'[i]) = Len(document[i])
                           /\ \A k \in DOMAIN document[i] :
                                /\ document'[i][k].content = document[i][k].content
                                /\ document'[i][k].tasked = document[i][k].tasked
                                /\ document'[i][k].live => document[i][k].live
    PROVE  SkipsDone' /\ NewestKnown'
<1>1. \A i \in Item : DOMAIN document[i] = 1..Len(document[i]) /\ Len(document[i]) \in Nat
  BY DEF SyncTypeOK, Documents
<1>2. SkipsDone'
  <2>1. \A i \in Item : \A k \in 2..Len(document[i]) : k \in DOMAIN document[i] /\ k - 1 \in DOMAIN document[i]
    BY <1>1
  <2> QED BY <2>1 DEF SkipsDone
<1>3. NewestKnown'
  <2>1. \A i \in Item : Len(document[i]) > 0 => Len(document[i]) \in DOMAIN document[i]
    BY <1>1
  <2> QED BY <2>1 DEF NewestKnown, Watches, At
<1> QED BY <1>2, <1>3

(* A step by which a worker does not leave the place where it has ingested *)
(* a version and is to record it.                                          *)
LEMMA WatchesOn ==
    ASSUME NEW w \in Worker, Others(w), work[w].at # "tasked"
    PROVE  Watches
  BY DEF Others, Watches

(* Only one worker is awake. *)
Alone(w) == \A v \in Worker \ {w} : work[v] = Idle

LEMMA NotWatched ==
    ASSUME NEW w \in Worker, Alone(w), work[w].at # "tasked", NEW i \in Item, NewestKnown,
           Len(document[i]) > 0, document[i][Len(document[i])].live, document[i][Len(document[i])].tasked
    PROVE  item[i] # NoRow /\ item[i].document = Len(document[i])
  BY DEF Alone, NewestKnown, At, Idle

LEMMA VersionOnce ==
    ASSUME SyncTypeOK, Ingested, SkipsDone, NewestKnown, NEW w \in Worker, Alone(w), Abreast(w),
           CreateVersion(w)
    PROVE  SkipsDone' /\ NewestKnown'
<1>0. work[w].at = "item" /\ work[w] # Idle /\ work[w].cur \in Item
  BY DEF CreateVersion, Fetchable, At, Idle, SyncTypeOK, MemoryFits, InHand
<1>1. PICK i \in Item : i = work[w].cur
  BY <1>0
<1>1a. PICK n \in Nat : n = Len(document[i])
  BY <1>1 DEF SyncTypeOK, Documents
<1> DEFINE v == [content |-> remote[i], live |-> TRUE, tasked |-> FALSE]
<1>2. v \in Version /\ document \in Documents
  BY <1>1 DEF SyncTypeOK, Version
<1>3. AddsVersion(i, v) /\ item' = item
  BY <1>1 DEF CreateVersion, AddsVersion
<1>3a. v.content = remote[i] /\ v.tasked = FALSE
  OBVIOUS
<1> HIDE DEF v
<1>4. /\ \A j \in Item \ {i} : document'[j] = document[j]
      /\ Len(document'[i]) = n + 1
      /\ DOMAIN document[i] = 1..n /\ DOMAIN document'[i] = 1..(n + 1)
      /\ document'[i][n + 1] = v
      /\ \A m \in DOMAIN document[i] : document'[i][m] = document[i][m]
  BY <1>1a, <1>2, <1>3, VersionAdded
<1>5. ASSUME n > 0, document[i][n].content = remote[i], document[i][n].live, document[i][n].tasked
      PROVE  FALSE
  <2>1. item[i] # NoRow /\ item[i].document = n
    BY <1>0, <1>1a, <1>5, NotWatched
  <2>2. item[i].content = remote[i]
    BY <1>5, <2>1 DEF Ingested
  <2>3. n \in LiveDocuments(i)
    BY <1>4, <1>5 DEF LiveDocuments
  <2>4. i \in work[w].live /\ Copy(w, i) = item[i]
    BY <1>0, <2>1, <2>3 DEF Abreast, KnowsLive, CopiesCurrent, Copy, Listing
  <2>5. SameBytes(w)
    BY <1>1, <2>1, <2>2, <2>4 DEF SameBytes, HasLive
  <2> QED BY <2>5 DEF CreateVersion
<1>6. SkipsDone'
  <2>1. ASSUME NEW j \in Item, NEW k \in 2..Len(document'[j]),
               document'[j][k].content = document'[j][k - 1].content
        PROVE  ~document'[j][k - 1].live \/ ~document'[j][k - 1].tasked
    <3>1. CASE j # i
      BY <1>4, <2>1, <3>1 DEF SkipsDone
    <3>2. CASE j = i /\ k <= n
      <4>1. k \in DOMAIN document[i] /\ k - 1 \in DOMAIN document[i] /\ k \in 2..Len(document[i])
        BY <1>1a, <1>4, <2>1, <3>2
      <4> QED BY <1>4, <2>1, <3>2, <4>1 DEF SkipsDone
    <3>3. CASE j = i /\ k = n + 1
      <4>1. n > 0 /\ n \in DOMAIN document[i] /\ k - 1 = n
        BY <1>4, <2>1, <3>3
      <4>2. document[i][n].content = remote[i]
        BY <1>3a, <1>4, <2>1, <3>3, <4>1
      <4>3. ~document[i][n].live \/ ~document[i][n].tasked
        BY <1>5, <4>1, <4>2
      <4> QED BY <1>4, <3>3, <4>1, <4>3
    <3>4. k <= n \/ k = n + 1 \/ j # i
      BY <1>4, <2>1
    <3> QED BY <3>1, <3>2, <3>3, <3>4
  <2> QED BY <2>1 DEF SkipsDone
<1>7. NewestKnown'
  <2>1. \A u \in Worker \ {w} : work'[u] = work[u]
    BY CreateVersionEffect DEF Becomes
  <2>2. Watches
    BY <1>0, <2>1, WatchesOn DEF Others
  <2>3. document'[i][Len(document'[i])].tasked = FALSE
    BY <1>3a, <1>4
  <2>4. ASSUME NEW j \in Item \ {i}, Len(document'[j]) > 0, document'[j][Len(document'[j])].live,
               document'[j][Len(document'[j])].tasked
        PROVE  \/ item'[j] # NoRow /\ item'[j].document = Len(document'[j])
               \/ \E u \in Worker : At(u, "tasked")' /\ work'[u].cur = j
    <3>1. document'[j] = document[j]
      BY <1>4
    <3>2. \/ item[j] # NoRow /\ item[j].document = Len(document[j])
          \/ \E u \in Worker : At(u, "tasked") /\ work[u].cur = j
      BY <2>4, <3>1 DEF NewestKnown
    <3> QED BY <1>3, <2>2, <3>1, <3>2 DEF Watches, At
  <2> QED BY <2>3, <2>4 DEF NewestKnown
<1> QED BY <1>6, <1>7

LEMMA TaskOnce ==
    ASSUME SyncTypeOK, SkipsDone, NewestKnown, NEW w \in Worker, Abreast(w), CreateTask(w)
    PROVE  SkipsDone' /\ NewestKnown'
<1>0. work[w].at = "versioned" /\ work[w] # Idle /\ work[w].cur \in Item
  BY DEF CreateTask, At, Idle, SyncTypeOK, MemoryFits, InHand
<1>1. PICK i \in Item : i = work[w].cur
  BY <1>0
<1>1a. PICK n \in Nat : n = Len(document[i])
  BY <1>1 DEF SyncTypeOK, Documents
<1>2. document \in Documents /\ item' = item
  BY DEF SyncTypeOK, CreateTask
<1>3. work[w].old = {n} /\ n > 0
  BY <1>0, <1>1, <1>1a DEF Abreast, NewestInHand
<1>4. /\ \A j \in Item : Len(document'[j]) = Len(document[j])
      /\ \A j \in Item \ {i} : document'[j] = document[j]
      /\ \A m \in DOMAIN document[i] : document'[i][m] =
                IF m \in work[w].old THEN [content |-> document[i][m].content, live |-> document[i][m].live,
                                  tasked |-> TRUE]
                ELSE document[i][m]
  <2>1. GetTask(i, work[w].old)
    BY <1>1 DEF CreateTask, GetTask
  <2> QED BY <1>2, <2>1, VersionTasked
<1>5. DOMAIN document[i] = 1..n
  BY <1>1a, <1>2 DEF Documents
<1>6. \A m \in DOMAIN document[i] :
        /\ document'[i][m].content = document[i][m].content
        /\ m # n => document'[i][m] = document[i][m]
  <2>1. ASSUME NEW m \in DOMAIN document[i], m # n PROVE document'[i][m] = document[i][m]
    BY <1>3, <1>4, <2>1
  <2>2. n \in DOMAIN document[i]
    BY <1>3, <1>5
  <2>3. document'[i][n] = [content |-> document[i][n].content, live |-> document[i][n].live, tasked |-> TRUE]
    BY <1>3, <1>4, <2>2
  <2>4. document'[i][n].content = document[i][n].content
    BY <2>3
  <2> QED BY <2>1, <2>4
<1>7. SkipsDone'
  <2>1. ASSUME NEW k \in 2..n PROVE /\ k \in DOMAIN document[i] /\ k - 1 \in DOMAIN document[i] /\ k - 1 # n
    BY <1>5
  <2>2. ASSUME NEW k \in 2..n, document'[i][k].content = document'[i][k - 1].content
        PROVE  ~document'[i][k - 1].live \/ ~document'[i][k - 1].tasked
    BY <1>1a, <1>6, <2>1, <2>2 DEF SkipsDone
  <2> QED BY <1>1a, <1>4, <2>2 DEF SkipsDone
<1>8. /\ work'[w].at = "tasked" /\ work'[w].cur = i /\ \A u \in Worker \ {w} : work'[u] = work[u]
  BY <1>0, <1>1, GoesEffect DEF CreateTask, Becomes, Place, Listing
<1>9. NewestKnown'
  <2>1. Watches
    BY <1>0, <1>8, WatchesOn DEF Others
  <2>2. \E u \in Worker : At(u, "tasked")' /\ work'[u].cur = i
    BY <1>8 DEF At
  <2> QED BY <1>2, <1>4, <2>1, <2>2 DEF NewestKnown, Watches, At
<1> QED BY <1>7, <1>9

(* A row that is written over keeps its document. *)
LEMMA SameDocument ==
    ASSUME SyncTypeOK, SkipsDone, NewestKnown, NEW w \in Worker, work[w] # Idle, CopiesCurrent(w),
           work[w].at \in Listing \cup Removing, work[w].at # "tasked",
           NEW place \in {"listing", "removing"}, NEW i \in Item, NEW new \in ItemRow,
           NEW extra \in SUBSET Item, Done(w, place, i, new, extra),
           item[i] # NoRow => new.document = item[i].document
    PROVE  SkipsDone' /\ NewestKnown'
<1>1. document' = document /\ item'[i] = new /\ \A j \in Item \ {i} : item'[j] = item[j]
  BY Written
<1>2. new # NoRow
  BY SyncAssumption
<1>3. \A j \in Item : item[j] # NoRow => item'[j] # NoRow /\ item'[j].document = item[j].document
  BY <1>1, <1>2
<1>4. Watches
  <2>1. place \in Place
    BY DEF Place, Listing, Removing
  <2>2. Others(w)
    BY <2>1, KeepsEffect DEF Done, Becomes, Others
  <2> QED BY <2>2, WatchesOn
<1> QED BY <1>1, <1>3, <1>4, OnceStays

LEMMA DoneOnce ==
    ASSUME SyncTypeOK, Ingested, SkipsDone, NewestKnown, NEW w \in Worker, Alone(w), Abreast(w),
           LeaveByMetadata(w) \/ LeaveByHash(w) \/ ItemFails(w) \/ RecordItem(w) \/ MarkRemoved(w)
    PROVE  SkipsDone' /\ NewestKnown'
<1> DEFINE Goal == SkipsDone' /\ NewestKnown'
<1>0. work[w] # Idle /\ work[w].at \in Listing \cup Removing /\ work[w].cur \in Item
  BY DoneSound
<1>1. PICK i \in Item : i = work[w].cur
  BY <1>0
<1>2. CopiesCurrent(w) /\ Copy(w, i) = item[i]
  BY <1>0 DEF Abreast, CopiesCurrent, Copy
<1>3. ASSUME LeaveByMetadata(w) \/ LeaveByHash(w) PROVE Goal
  <2> DEFINE new == [Base(w, i) EXCEPT !.status = "present"]
  <2>1. /\ work[w].at # "tasked" /\ new \in ItemRow /\ new.document = item[i].document
        /\ Done(w, "listing", i, new, {})
    BY <1>1, <1>2, <1>3, LeaveEffect
  <2> HIDE DEF new
  <2> QED BY <1>0, <1>2, <2>1, SameDocument
<1>4. ASSUME ItemFails(w) PROVE Goal
  <2> DEFINE new == [Base(w, i) EXCEPT !.status = "failed"]
  <2>1. /\ work[w].at # "tasked" /\ new \in ItemRow /\ (item[i] # NoRow => new.document = item[i].document)
        /\ Done(w, "listing", i, new, {})
    BY <1>1, <1>2, <1>4, FailEffect
  <2> HIDE DEF new
  <2> QED BY <1>0, <1>2, <2>1, SameDocument
<1>5. ASSUME RecordItem(w) PROVE Goal
  <2>1. work[w].at = "tasked"
    BY <1>5, RecordEffect
  <2>2. PICK k \in work[w].old :
            LET new == [status |-> "present", content |-> work[w].got, document |-> k] IN
            new \in ItemRow /\ Done(w, "listing", i, new, {i})
    BY <1>1, <1>5, RecordEffect
  <2> DEFINE new == [status |-> "present", content |-> work[w].got, document |-> k]
  <2>3. k = Len(document[i])
    BY <1>1, <2>1 DEF Abreast, NewestInHand
  <2>4. new \in ItemRow /\ Done(w, "listing", i, new, {i}) /\ new.document = k
    BY <2>2
  <2> HIDE DEF new
  <2>5. document' = document /\ item'[i] = new /\ \A j \in Item \ {i} : item'[j] = item[j]
    BY <1>0, <1>2, <2>4, Written
  <2>6. new # NoRow
    BY <2>4, SyncAssumption
  <2>7. SkipsDone'
    BY <2>5 DEF SkipsDone
  <2>8. NewestKnown'
    <3>1. ASSUME NEW j \in Item \ {i}, Len(document[j]) > 0, document[j][Len(document[j])].live,
                 document[j][Len(document[j])].tasked
          PROVE  item[j] # NoRow /\ item[j].document = Len(document[j])
      BY <1>1, <3>1 DEF NewestKnown, Alone, At, Idle
    <3> QED BY <2>3, <2>4, <2>5, <2>6, <3>1 DEF NewestKnown
  <2> QED BY <2>7, <2>8
<1>6. ASSUME MarkRemoved(w) PROVE Goal
  <2> DEFINE new == [Copy(w, i) EXCEPT !.status = "removed",
                       !.document = IF deleteRemoved /\ Copy(w, i).content # Absent THEN 0 ELSE @]
  <2>1. /\ work[w].at = "deleting" /\ work[w].old = {} /\ new \in ItemRow
        /\ new.document = (IF deleteRemoved /\ item[i].content # Absent THEN 0 ELSE item[i].document)
        /\ Done(w, "removing", i, new, {})
    BY <1>1, <1>2, <1>6, MarkEffect
  <2> HIDE DEF new
  <2>2. CASE ~(deleteRemoved /\ item[i].content # Absent)
    <3>1. new.document = item[i].document
      BY <2>1, <2>2
    <3> QED BY <1>0, <1>2, <2>1, <3>1, SameDocument
  <2>3. CASE deleteRemoved /\ item[i].content # Absent
    <3>1. LiveDocuments(i) = {}
      BY <1>1, <2>1, <2>3 DEF Abreast, AllInHand
    <3>2. document' = document /\ \A j \in Item \ {i} : item'[j] = item[j]
      BY <1>0, <1>2, <2>1, Written
    <3>3. SkipsDone'
      BY <3>2 DEF SkipsDone
    <3>4. Len(document[i]) > 0 => ~document[i][Len(document[i])].live
      <4>1. DOMAIN document[i] = 1..Len(document[i]) /\ Len(document[i]) \in Nat
        BY DEF SyncTypeOK, Documents
      <4> QED BY <3>1, <4>1 DEF LiveDocuments
    <3>5. ASSUME NEW j \in Item \ {i}, Len(document[j]) > 0, document[j][Len(document[j])].live,
                 document[j][Len(document[j])].tasked
          PROVE  item[j] # NoRow /\ item[j].document = Len(document[j])
      BY <2>1, <3>5, NotWatched
    <3>6. NewestKnown'
      BY <3>2, <3>4, <3>5 DEF NewestKnown
    <3> QED BY <3>3, <3>6
  <2> QED BY <2>2, <2>3
<1> QED BY <1>3, <1>4, <1>5, <1>6

(* A version is deleted, by the worker or by a member. *)
LEMMA DeletedOnce ==
    ASSUME SyncTypeOK, Ingested, SkipsDone, NewestKnown, Watches, NEW i \in Item, NEW k, item' = item,
           document' = [document EXCEPT ![i][k].live = FALSE]
    PROVE  SkipsDone' /\ NewestKnown'
<1>1. CASE k \in DOMAIN document[i]
  <2>1. \A j \in Item : LiveDocuments(j)' \subseteq LiveDocuments(j) /\ DOMAIN document'[j] = DOMAIN document[j]
    <3>1. \A j \in Item : DOMAIN document'[j] = DOMAIN document[j]
      BY <1>1, VersionDeleted DEF SyncTypeOK
    <3> QED BY <1>1, <3>1, IngestedDeleted
  <2>2. \A j \in Item : \A m \in DOMAIN document[j] : document'[j][m].live => document[j][m].live
    BY <2>1 DEF LiveDocuments
  <2> QED BY <1>1, <2>2, IngestedDeleted, OnceStays
<1>2. CASE k \notin DOMAIN document[i]
  <2>1. \A s \in Seq(Version) : k \notin DOMAIN s => [s EXCEPT ![k].live = FALSE] = s
    OBVIOUS
  <2>2. document[i] \in Seq(Version) /\ document \in Documents
    BY DEF SyncTypeOK, Documents
  <2>3. document' = [document EXCEPT ![i] = document[i]]
    BY <1>2, <2>1, <2>2
  <2>4. document' = document
    BY <2>2, <2>3 DEF Documents
  <2> QED BY <2>4, OnceStays
<1> QED BY <1>1, <1>2

(* The steps of a worker that write no version and no item. *)
LEMMA RestOnce ==
    ASSUME SyncTypeOK, SkipsDone, NewestKnown, NEW w \in Worker, CopiesCurrent(w), Others(w),
           Execute(w), UNCHANGED <<item, document>>,
           ~RecordItem(w)
    PROVE  SkipsDone' /\ NewestKnown'
<1>1. ASSUME work[w].at = "tasked" PROVE FALSE
  <2>1. InsertConflicts(w)
    <3>1. ~GiveUp(w) /\ ~Begin(w) /\ ~ListingFails(w) /\ ~Truncate(w) /\ ~EndListing(w) /\ ~EndRemoval(w)
      BY <1>1 DEF At, GiveUp, Begin, ListingFails, Truncate, EndListing, EndRemoval
    <3>2. ~Superseded(w) /\ ~Stopped(w) /\ ~FinishReads(w) /\ ~FinishWrites(w) /\ ~FailCrashed(w)
      BY <1>1 DEF At, AtCheckpoint, Superseded, Stopped, FinishReads, FinishWrites, FailCrashed
    <3>3. ~LeaveByMetadata(w) /\ ~LeaveByHash(w) /\ ~CreateVersion(w) /\ ~CreateTask(w) /\ ~ItemFails(w)
      BY <1>1 DEF At, LeaveByMetadata, LeaveByHash, Fetchable, CreateVersion, CreateTask, ItemFails
    <3>4. ~MarkRemoved(w) /\ ~RemovalFails(w) /\ ~At(w, "deleting")
      BY <1>1 DEF At, MarkRemoved, RemovalFails
    <3>5. \A i \in Item : ~PassAbsent(w, i) /\ ~Enter(w, i) /\ ~Retire(w, i)
      BY <1>1 DEF At, PassAbsent, Enter, Retire
    <3> QED BY <3>1, <3>2, <3>3, <3>4, <3>5 DEF Execute, ItemStep
  <2> QED BY <1>1, <2>1 DEF InsertConflicts, Storable, Copy, CopiesCurrent, Listing
<1> QED BY <1>1, WatchesOn, OnceStays

LEMMA WorkerOnce ==
    ASSUME SyncTypeOK, Ingested, SkipsDone, NewestKnown, NEW w \in Worker, Alone(w), Abreast(w), Execute(w)
    PROVE  SkipsDone' /\ NewestKnown'
<1> DEFINE Goal == SkipsDone' /\ NewestKnown'
<1>1. Others(w)
  BY Bearing
<1>2. ASSUME LeaveByMetadata(w) \/ LeaveByHash(w) \/ ItemFails(w) \/ RecordItem(w) \/ MarkRemoved(w) PROVE Goal
  BY <1>2, DoneOnce
<1>3. ASSUME CreateVersion(w) \/ CreateTask(w) PROVE Goal
  BY <1>3, VersionOnce, TaskOnce
<1>4. ASSUME NEW k \in work[w].old, DeleteVersion(w, k) PROVE Goal
  <2>1. work[w].at = "deleting" /\ work[w] # Idle /\ work[w].cur \in Item
    BY <1>4 DEF DeleteVersion, At, Idle, SyncTypeOK, MemoryFits, InHand
  <2>2. PICK i \in Item : i = work[w].cur
    BY <2>1
  <2>3. document' = [document EXCEPT ![i][k].live = FALSE] /\ item' = item
    BY <1>4, <2>2 DEF DeleteVersion
  <2>4. Watches
    BY <1>1, <2>1, WatchesOn
  <2> QED BY <2>3, <2>4, DeletedOnce
<1>5. ASSUME UNCHANGED <<item, document>> PROVE Goal
  BY <1>1, <1>2, <1>5, RestOnce DEF Abreast
<1>6. CASE GiveUp(w) \/ FailCrashed(w) \/ FinishWrites(w) \/ Superseded(w)
  BY <1>5, <1>6 DEF GiveUp, FailCrashed, FinishWrites, Superseded, store
<1>7. CASE \/ Begin(w) \/ ListingFails(w) \/ Stopped(w) \/ Truncate(w)
           \/ EndListing(w) \/ RemovalFails(w) \/ EndRemoval(w) \/ FinishReads(w) \/ InsertConflicts(w)
           \/ \E i \in Item : PassAbsent(w, i) \/ Enter(w, i) \/ Retire(w, i)
  <2>1. UNCHANGED store
    BY <1>7 DEF Begin, ListingFails, Stopped, Truncate, EndListing, RemovalFails, EndRemoval,
            FinishReads, InsertConflicts, PassAbsent, Enter, Retire
  <2> QED BY <1>5, <2>1 DEF store
<1> QED BY <1>2, <1>3, <1>4, <1>6, <1>7 DEF Execute, ItemStep

LEMMA OnceStep ==
    ASSUME SyncTypeOK, SoleInv, OnceInv, [Next]_vars
    PROVE  OnceInv'
<1> SUFFICES ASSUME faults' = 0, overlaps' = 0
             PROVE  SkipsDone' /\ NewestKnown'
  BY DEF OnceInv
<1> DEFINE Goal == SkipsDone' /\ NewestKnown'
<1>1. overlaps = 0 /\ Sole /\ Ingested /\ \A w \in Worker : work[w] # Idle => Abreast(w)
  BY OverlapsGrow DEF SoleInv
<1>2. ASSUME faults = 0 PROVE SkipsDone /\ NewestKnown
  BY <1>1, <1>2 DEF OnceInv
<1>3. faults = 0 /\ UNCHANGED <<item, document, work>> => Goal
  <2>1. UNCHANGED work => Watches
    BY DEF Watches
  <2> QED BY <1>2, <2>1, OnceStays
<1>4. ASSUME UNCHANGED vars \/ FallsDue \/ TriggerSync \/ EnqueueDueRun \/ MemberWrites PROVE Goal
  <2>1. UNCHANGED <<item, document, work, faults>>
    BY <1>4 DEF vars, store, bounds, FallsDue, TriggerSync, EnqueueDueRun, MemberWrites
  <2> QED BY <1>3, <2>1
<1>5. ASSUME NEW r \in Run, Lapse(r) \/ \E act \in {"cancel", "delete"} : MemberReads(act, r) PROVE Goal
  <2>1. UNCHANGED <<item, document, work, faults>>
    BY <1>5 DEF store, Lapse, MemberReads
  <2> QED BY <1>3, <2>1
<1>6. ASSUME \/ \E i \in Item, c \in {Absent} \cup Content : RemoteChanges(i, c)
             \/ \E i \in Item : \E k \in LiveDocuments(i) : DocumentDeleted(i, k)
      PROVE  Goal
  <2>1. Watches
    <3>1. ASSUME NEW v \in Worker, work[v].at = "tasked"
          PROVE  work'[v].at = "tasked" /\ work'[v].cur = work[v].cur
      <4>1. work[v] # Idle
        BY <3>1 DEF Idle
      <4> QED BY <1>6, <3>1, <4>1, OutsideEffect DEF Alike
    <3> QED BY <3>1 DEF Watches
  <2>2. ASSUME NEW i \in Item, NEW c \in {Absent} \cup Content, RemoteChanges(i, c) PROVE Goal
    <3>1. UNCHANGED <<item, document, faults>>
      BY <2>2 DEF RemoteChanges, store
    <3> QED BY <1>2, <2>1, <3>1, OnceStays
  <2>3. ASSUME NEW i \in Item, NEW k \in LiveDocuments(i), DocumentDeleted(i, k) PROVE Goal
    <3>1. item' = item /\ faults' = faults /\ document' = [document EXCEPT ![i][k].live = FALSE]
      BY <2>3 DEF DocumentDeleted
    <3> QED BY <1>1, <1>2, <2>1, <3>1, DeletedOnce
  <2> QED BY <1>6, <2>2, <2>3
<1>7. ASSUME NEW w \in Worker PROVE ~Dies(w)
  BY DEF Dies, SyncTypeOK
<1>8. ASSUME NEW w \in Worker, NEW r \in Run, ClaimNextRun(w, r) PROVE Goal
  <2>1. UNCHANGED <<item, document, faults>> /\ Others(w) /\ work[w].at = "idle"
    BY <1>8, AfreshEffect DEF ClaimNextRun, bounds, At
  <2>2. Watches
    BY <2>1, WatchesOn
  <2> QED BY <1>2, <2>1, <2>2, OnceStays
<1>9. ASSUME NEW w \in Worker, Execute(w) PROVE Goal
  <2>1. work[w] # Idle /\ faults' = faults
    BY <1>9, Bearing, Inside DEF bounds
  <2>2. Alone(w)
    BY <1>1, <2>1 DEF Sole, Alone
  <2> QED BY <1>1, <1>2, <1>9, <2>1, <2>2, WorkerOnce
<1>10. Goal
  BY <1>4, <1>5, <1>6, <1>7, <1>8, <1>9 DEF Next
<1> QED BY <1>10

(* A repeat skips what was done (connector_sync.py, _sync_item): unless a  *)
(* worker was lost or lost its lease, one content of an item is ingested   *)
(* twice in a row only if the first was deleted or never got a task.       *)
THEOREM IngestedOnceHolds == Spec => []IngestedOnce
<1>1. Init => OnceInv
  <2> SUFFICES ASSUME Init PROVE SkipsDone /\ NewestKnown
    BY DEF OnceInv
  <2>1. ASSUME NEW i \in Item
        PROVE  \/ item[i] = NoRow /\ Len(document[i]) = 0
               \/ item[i] # NoRow /\ item[i].document = 1 /\ Len(document[i]) = 1
    <3>1. CASE item[i] = NoRow
      <4>1. document[i] = <<>>
        BY <3>1 DEF Init
      <4> QED BY <3>1, <4>1
    <3>2. CASE item[i] # NoRow
      <4>1. item[i].document = 1
        BY <3>2 DEF Init, Earlier
      <4>2. document[i] = <<FirstVersion>>
        BY <3>2 DEF Init
      <4> QED BY <3>2, <4>1, <4>2
    <3> QED BY <3>1, <3>2
  <2>2. \A i \in Item : 2..Len(document[i]) = {}
    <3>1. 2..0 = {} /\ 2..1 = {}
      OBVIOUS
    <3> QED BY <2>1, <3>1
  <2> QED BY <2>1, <2>2 DEF SkipsDone, NewestKnown
<1>2. SyncTypeOK /\ SoleInv /\ OnceInv /\ [Next]_vars => OnceInv'
  BY OnceStep
<1>3. OnceInv => IngestedOnce
  BY DEF OnceInv, SkipsDone, IngestedOnce
<1> QED BY <1>1, <1>2, <1>3, SyncTypeCorrect, SoleInvHolds, PTL DEF Spec

-----------------------------------------------------------------------------
(* In step.                                                                *)

LEMMA MirrorsStays ==
    ASSUME NEW i \in Item, Mirrors(i), item'[i] = item[i], remote' = remote,
           remote[i] = Absent \/ document'[i] = document[i]
    PROVE  Mirrors(i)'
  BY DEF Mirrors, LiveDocuments

LEMMA SettledStays ==
    ASSUME NEW w \in Worker, NEW i \in Item, Settled(w, i), item'[i] = item[i], remote' = remote,
           remote[i] = Absent \/ document'[i] = document[i],
           i \in work'[w].seen <=> i \in work[w].seen,
           work[w].failed => work'[w].failed,
           work'[w].at \in Listing <=> work[w].at \in Listing
    PROVE  Settled(w, i)'
  BY MirrorsStays DEF Settled

(* A worker that failed with an item is not asked what became of the rest. *)
LEMMA SettledAnyhow ==
    ASSUME NEW w \in Worker, NEW i \in Item, i \notin work[w].seen => remote[i] = Absent, remote' = remote,
           work'[w].seen = work[w].seen, work'[w].failed = TRUE
    PROVE  Settled(w, i)'
  BY DEF Settled

LEMMA CalmElsewhere ==
    ASSUME NEW w \in Worker, work'[w].at \notin Listing \cup Removing,
           work'[w].at \in {"finishing", "ending"} => work'[w].result # "succeeded" \/ work'[w].truncated
    PROVE  Calm(w)'
  BY DEF Calm, LiveKnown, Listed, NewestLive, Retired, Told, Listing, Removing

LEMMA CalmStays ==
    ASSUME NEW w \in Worker, Calm(w), UNCHANGED <<remote, item, document>>, work'[w] = work[w]
    PROVE  Calm(w)'
<1>1. \A i : Mirrors(i)' <=> Mirrors(i)
  BY DEF Mirrors, LiveDocuments
<1>2. \A i : LiveDocuments(i)' = LiveDocuments(i)
  BY DEF LiveDocuments
<1> QED BY <1>1, <1>2 DEF Calm, LiveKnown, Listed, NewestLive, Retired, Told, Settled

(* The steps of the listing that write nothing. *)
LEMMA ListingCalm ==
    ASSUME SyncTypeOK, NEW w \in Worker, Calm(w), UNCHANGED <<remote, item, document>>, NEW i \in Item,
           PassAbsent(w, i) \/ Enter(w, i)
    PROVE  Calm(w)'
<1>1. /\ work[w].at = "listing" /\ i \in work[w].left /\ work[w] # Idle
  BY DEF PassAbsent, Enter, At, Idle
<1>2. /\ work'[w].live = work[w].live /\ work'[w].left = work[w].left \ {i} /\ work'[w].failed = work[w].failed
      /\ \/ /\ work'[w].at = "listing" /\ work'[w].seen = work[w].seen /\ remote[i] = Absent
         \/ /\ work'[w].at = "item" /\ work'[w].seen = work[w].seen \cup {i} /\ work'[w].cur = i
            /\ work'[w].got = remote[i] /\ remote[i] # Absent
  <2>1. CASE PassAbsent(w, i)
    BY <1>1, <2>1, PassAbsentEffect DEF PassAbsent, Becomes
  <2>2. CASE Enter(w, i)
    BY <2>2, EnterEffect DEF Enter, Becomes
  <2> QED BY <2>1, <2>2
<1>3. LiveKnown(w)'
  <2>1. \A j : LiveDocuments(j)' = LiveDocuments(j)
    BY DEF LiveDocuments
  <2> QED BY <1>1, <1>2, <2>1 DEF Calm, LiveKnown, Listing
<1>4. i \notin work[w].seen /\ work[w].left \cap work[w].seen = {}
  BY <1>1 DEF Calm, Listed, Listing
<1>5. \A j \in Item : j # i => j \in work[w].left \/ Settled(w, j)'
  <2>1. ASSUME NEW j \in Item, j # i, Settled(w, j) PROVE Settled(w, j)'
    BY <1>1, <1>2, <2>1, SettledStays DEF Listing
  <2> QED BY <1>1, <2>1 DEF Calm, Listed, Listing
<1>6. Listed(w)'
  <2>1. CASE work'[w].at = "item"
    BY <1>2, <1>4, <1>5, <2>1 DEF Listed
  <2>2. CASE work'[w].at # "item"
    <3>1. Settled(w, i)'
      BY <1>2, <1>4, <2>2 DEF Settled, Listing
    <3> QED BY <1>2, <1>4, <1>5, <2>2, <3>1 DEF Listed
  <2> QED BY <2>1, <2>2
<1>7. NewestLive(w)' /\ Retired(w)' /\ Told(w)'
  BY <1>2 DEF NewestLive, Retired, Told, Removing
<1> QED BY <1>3, <1>6, <1>7 DEF Calm

(* ... and those of the removal. *)
LEMMA EndListingCalm ==
    ASSUME SyncTypeOK, NEW w \in Worker, Calm(w), Abreast(w), UNCHANGED <<remote, item, document>>, EndListing(w)
    PROVE  Calm(w)'
<1>1. /\ work[w].at = "listing" /\ work[w].left = {} /\ work[w] # Idle
  BY DEF EndListing, At, Idle
<1>2. /\ work'[w].at = "removing" /\ work'[w].seen = work[w].seen /\ work'[w].failed = work[w].failed
      /\ work'[w].todo = {i \in Item \ work[w].seen : Copy(w, i) # NoRow /\ Copy(w, i).status # "removed"}
  BY EndListingEffect DEF EndListing, Becomes
<1>3. \A i \in Item : Copy(w, i) = item[i]
  BY <1>1 DEF Abreast, CopiesCurrent, Copy, Listing
<1>4. ASSUME NEW i \in Item PROVE (i \in work'[w].todo /\ remote'[i] = Absent) \/ Settled(w, i)'
  <2>1. Settled(w, i)
    BY <1>1 DEF Calm, Listed, Listing
  <2>2. CASE i \in work[w].seen
    <3>1. work[w].failed \/ Mirrors(i)
      BY <2>1, <2>2 DEF Settled
    <3>2. Mirrors(i) => Mirrors(i)'
      BY MirrorsStays
    <3> QED BY <1>2, <2>2, <3>1, <3>2 DEF Settled
  <2>3. CASE i \notin work[w].seen
    <3>1. remote[i] = Absent
      BY <2>1, <2>3 DEF Settled
    <3>2. i \in work'[w].todo \/ item[i] = NoRow \/ item[i].status = "removed"
      BY <1>2, <1>3, <2>3
    <3>3. i \in work'[w].todo \/ Mirrors(i)'
      BY <3>1, <3>2 DEF Mirrors
    <3> QED BY <1>2, <2>3, <3>1, <3>3 DEF Settled
  <2> QED BY <2>2, <2>3
<1>5. Retired(w)'
  BY <1>2, <1>4 DEF Retired
<1>6. LiveKnown(w)' /\ Listed(w)' /\ NewestLive(w)' /\ Told(w)'
  BY <1>2 DEF LiveKnown, Listed, NewestLive, Told, Listing
<1> QED BY <1>5, <1>6 DEF Calm

LEMMA RetireCalm ==
    ASSUME SyncTypeOK, NEW w \in Worker, Calm(w), UNCHANGED <<remote, item, document>>, NEW i \in Item,
           Retire(w, i)
    PROVE  Calm(w)'
<1>1. /\ work[w].at = "removing" /\ i \in work[w].todo /\ work[w] # Idle
  BY DEF Retire, At, Idle
<1>2. /\ work'[w].at = "deleting" /\ work'[w].seen = work[w].seen /\ work'[w].failed = work[w].failed
      /\ work'[w].todo = work[w].todo \ {i} /\ work'[w].cur = i
  BY RetireEffect DEF Retire, Becomes
<1>3. /\ work[w].todo \cap work[w].seen = {}
      /\ \A j \in Item : (j \in work[w].todo /\ remote[j] = Absent) \/ Settled(w, j)
  BY <1>1 DEF Calm, Retired, Removing
<1>4. i \notin work[w].seen /\ remote[i] = Absent
  BY <1>1, <1>3 DEF Settled
<1>5. \A j \in Item : (j \in work[w].todo /\ remote[j] = Absent) \/ Settled(w, j)'
  BY <1>1, <1>2, <1>3, SettledStays DEF Listing
<1>6. Retired(w)'
  BY <1>2, <1>3, <1>4, <1>5 DEF Retired
<1>7. LiveKnown(w)' /\ Listed(w)' /\ NewestLive(w)' /\ Told(w)'
  BY <1>2 DEF LiveKnown, Listed, NewestLive, Told, Listing
<1> QED BY <1>6, <1>7 DEF Calm

(* What is being removed is gone from the remote. *)
LEMMA GoneInHand ==
    ASSUME NEW w \in Worker, Calm(w), work[w].at = "deleting", work[w].cur \in Item
    PROVE  /\ remote[work[w].cur] = Absent /\ work[w].cur \notin work[w].seen
           /\ work[w].todo \cap work[w].seen = {}
           /\ \A i \in Item : i \notin work[w].seen => remote[i] = Absent
           /\ \A i \in Item \ {work[w].cur} : (i \in work[w].todo /\ remote[i] = Absent) \/ Settled(w, i)
  BY DEF Calm, Retired, Removing, Settled

LEMMA RemovalCalm ==
    ASSUME SyncTypeOK, NEW w \in Worker, Calm(w), UNCHANGED <<remote, item>>,
           \/ RemovalFails(w) /\ document' = document
           \/ \E k \in work[w].old : DeleteVersion(w, k)
    PROVE  Calm(w)'
<1>1. work[w].at = "deleting" /\ work[w] # Idle /\ work[w].cur \in Item
  <2>1. work[w].at = "deleting"
    BY DEF RemovalFails, DeleteVersion, At
  <2>2. work[w] # Idle
    BY <2>1 DEF Idle
  <2> QED BY <2>1, <2>2 DEF SyncTypeOK, MemoryFits, InHand
<1>2. ASSUME RemovalFails(w), document' = document PROVE Retired(w)' /\ work'[w].at = "removing"
  <2>1. /\ work'[w].at = "removing" /\ work'[w].seen = work[w].seen /\ work'[w].failed = TRUE
        /\ work'[w].todo = work[w].todo
    BY <1>2, RemovalFailsEffect DEF Becomes
  <2>2. \A i \in Item : Settled(w, i)'
    BY <1>1, <2>1, GoneInHand, SettledAnyhow
  <2> QED BY <1>1, <2>1, <2>2, GoneInHand DEF Retired
<1>3. ASSUME NEW k \in work[w].old, DeleteVersion(w, k) PROVE Retired(w)' /\ work'[w].at = "deleting"
  <2>1. /\ work'[w].at = "deleting" /\ work'[w].seen = work[w].seen /\ work'[w].failed = work[w].failed
        /\ work'[w].todo = work[w].todo /\ work'[w].cur = work[w].cur
    BY <1>1, <1>3, DeleteVersionEffect DEF Becomes
  <2>2. \A i \in Item \ {work[w].cur} : document'[i] = document[i]
    BY <1>3 DEF DeleteVersion, SyncTypeOK, Documents
  <2>3. \A i \in Item \ {work[w].cur} : (i \in work[w].todo /\ remote[i] = Absent) \/ Settled(w, i)'
    BY <1>1, <2>1, <2>2, GoneInHand, SettledStays
  <2> QED BY <1>1, <2>1, <2>3, GoneInHand DEF Retired
<1>4. LiveKnown(w)' /\ Listed(w)' /\ NewestLive(w)' /\ Told(w)'
  BY <1>2, <1>3 DEF LiveKnown, Listed, NewestLive, Told, Listing
<1> QED BY <1>2, <1>3, <1>4 DEF Calm

(* A worker is done with an item, as one of the following shows. *)
LEMMA DoneMemory ==
    ASSUME SyncTypeOK, NEW w \in Worker, work[w] # Idle, Abreast(w), work[w].at \in Listing \cup Removing,
           NEW place \in {"listing", "removing"}, NEW i \in Item, NEW new \in ItemRow,
           NEW extra \in SUBSET Item, Done(w, place, i, new, extra)
    PROVE  /\ document' = document /\ remote' = remote
           /\ item'[i] = new /\ new # NoRow /\ \A j \in Item \ {i} : item'[j] = item[j]
           /\ work'[w].at = place /\ work'[w].live = work[w].live \cup extra
           /\ work'[w].left = work[w].left /\ work'[w].seen = work[w].seen /\ work'[w].todo = work[w].todo
           /\ work'[w].failed = (work[w].failed \/ new.status = "failed")
<1>1. place \in Place
  BY DEF Place, Listing, Removing
<1>2. CopiesCurrent(w)
  BY DEF Abreast
<1>3. new # NoRow
  BY SyncAssumption
<1>4. /\ document' = document /\ item'[i] = new /\ \A j \in Item \ {i} : item'[j] = item[j]
  BY <1>2, Written
<1>5. Becomes(w, place, [work[w].items EXCEPT ![i] = new], work[w].live \cup extra,
              work[w].left, work[w].seen, work[w].todo, Anything, Absent, {},
              (work[w].failed \/ new.status = "failed"))
  BY <1>1, KeepsEffect DEF Done
<1>6. remote' = remote
  BY DEF Done
<1> QED BY <1>3, <1>4, <1>5, <1>6 DEF Becomes

(* The worker goes back to its list. *)
LEMMA BackCalm ==
    ASSUME SyncTypeOK, NEW w \in Worker, work[w] # Idle, Abreast(w), Calm(w),
           work[w].at \in {"item", "versioned", "tasked"}, NEW new \in ItemRow, NEW extra \in SUBSET Item,
           NEW i \in Item, i = work[w].cur, Done(w, "listing", i, new, extra), extra \subseteq {i},
           i \in work[w].live \cup extra => new.document \in LiveDocuments(i),
           new.status = "failed" \/ Mirrors(i)'
    PROVE  Calm(w)'
<1>1. i = work[w].cur
  OBVIOUS
<1>2. /\ document' = document /\ remote' = remote
      /\ item'[i] = new /\ new # NoRow /\ \A j \in Item \ {i} : item'[j] = item[j]
      /\ work'[w].at = "listing" /\ work'[w].live = work[w].live \cup extra
      /\ work'[w].left = work[w].left /\ work'[w].seen = work[w].seen
      /\ work'[w].failed = (work[w].failed \/ new.status = "failed")
  BY <1>1, DoneMemory DEF Listing
<1>3. work[w].at \in Listing /\ work[w].at # "listing"
  BY DEF Listing
<1>4. \A j : LiveDocuments(j)' = LiveDocuments(j)
  BY <1>2 DEF LiveDocuments
<1>5. LiveKnown(w)'
  <2>1. ASSUME NEW j \in work'[w].live PROVE item'[j] # NoRow /\ item'[j].document \in LiveDocuments(j)
    <3>1. CASE j = i
      BY <1>1, <1>2, <2>1, <3>1
    <3>2. CASE j # i
      <4>1. j \in work[w].live /\ j \in Item
        BY <1>1, <1>2, <2>1, <3>2, Awake
      <4> QED BY <1>2, <1>3, <3>2, <4>1 DEF Calm, LiveKnown
    <3> QED BY <3>1, <3>2
  <2> QED BY <1>4, <2>1 DEF LiveKnown
<1>6. /\ work[w].left \cap work[w].seen = {} /\ i \in work[w].seen
      /\ \A j \in Item \ {i} : j \in work[w].left \/ Settled(w, j)
  BY <1>1, <1>3 DEF Calm, Listed
<1>7. \A j \in Item \ {i} : j \in work[w].left \/ Settled(w, j)'
  <2>1. work'[w].at \in Listing
    BY <1>2 DEF Listing
  <2> QED BY <1>2, <1>3, <1>6, <2>1, SettledStays
<1>8. Settled(w, i)'
  <2>1. i \in work'[w].seen
    BY <1>2, <1>6
  <2>2. CASE new.status = "failed"
    <3>1. work'[w].failed = TRUE
      BY <1>2, <2>2
    <3> QED BY <2>1, <3>1 DEF Settled
  <2>3. CASE Mirrors(i)'
    BY <2>1, <2>3 DEF Settled
  <2> QED BY <2>2, <2>3
<1>9. Listed(w)'
  BY <1>2, <1>6, <1>7, <1>8 DEF Listed
<1>10. NewestLive(w)' /\ Retired(w)' /\ Told(w)'
  BY <1>2 DEF NewestLive, Retired, Told, Removing
<1> QED BY <1>5, <1>9, <1>10 DEF Calm

LEMMA LeaveCalm ==
    ASSUME SyncTypeOK, Ingested, NEW w \in Worker, Abreast(w), Calm(w), LeaveByMetadata(w) \/ LeaveByHash(w)
    PROVE  Calm(w)'
<1>1. work[w].at = "item" /\ work[w] # Idle /\ work[w].cur \in Item
  <2>1. work[w].at = "item"
    BY DEF LeaveByMetadata, LeaveByHash, Fetchable, At
  <2>2. work[w] # Idle
    BY <2>1 DEF Idle
  <2> QED BY <2>1, <2>2 DEF SyncTypeOK, MemoryFits, InHand
<1>2. PICK i \in Item : i = work[w].cur
  BY <1>1
<1>3. Copy(w, i) = item[i] /\ work[w].got = remote[i] /\ remote[i] # Absent
  BY <1>1, <1>2 DEF Abreast, CopiesCurrent, Copy, Calm, Listed, Listing
<1>4. HasLive(w, i) /\ item[i].content = remote[i]
  BY <1>2, <1>3 DEF LeaveByMetadata, LeaveByHash, UnchangedByMetadata, SameBytes
<1>5. item[i] # NoRow /\ item[i].document \in LiveDocuments(i)
  BY <1>1, <1>3, <1>4 DEF HasLive, Calm, LiveKnown, Listing
<1> DEFINE new == [Base(w, i) EXCEPT !.status = "present"]
<1>6. /\ new \in ItemRow /\ new.status = "present" /\ new.content = item[i].content
      /\ new.document = item[i].document /\ Done(w, "listing", i, new, {})
  BY <1>2, <1>3, LeaveEffect
<1> HIDE DEF new
<1>7. item'[i] = new /\ new # NoRow /\ document' = document /\ remote' = remote
  BY <1>1, <1>6, DoneMemory DEF Listing
<1>8. document[i][item[i].document].content = remote[i] /\ document[i][item[i].document].tasked
  <2>1. item[i].document # 0
    BY <1>5 DEF LiveDocuments, SyncTypeOK, Documents
  <2> QED BY <1>4, <1>5, <2>1 DEF Ingested
<1>9. Mirrors(i)'
  BY <1>3, <1>4, <1>5, <1>6, <1>7, <1>8 DEF Mirrors, LiveDocuments
<1>10. {} \in SUBSET Item /\ {} \subseteq {i}
  OBVIOUS
<1> QED BY <1>1, <1>2, <1>5, <1>6, <1>9, <1>10, BackCalm

LEMMA FailCalm ==
    ASSUME SyncTypeOK, NEW w \in Worker, Abreast(w), Calm(w), ItemFails(w)
    PROVE  Calm(w)'
<1> DEFINE new == [Base(w, work[w].cur) EXCEPT !.status = "failed"]
<1>1. /\ work[w].at \in {"item", "versioned"} /\ work[w].cur \in Item
      /\ new \in ItemRow /\ new.status = "failed"
      /\ Copy(w, work[w].cur) # NoRow => new.document = Copy(w, work[w].cur).document
      /\ Done(w, "listing", work[w].cur, new, {})
  BY FailEffect
<1> HIDE DEF new
<1>2. work[w] # Idle
  BY <1>1 DEF Idle
<1>3. Copy(w, work[w].cur) = item[work[w].cur]
  BY <1>1 DEF Abreast, CopiesCurrent, Copy, Listing
<1>4. work[w].cur \in work[w].live => new.document \in LiveDocuments(work[w].cur)
  BY <1>1, <1>3 DEF Calm, LiveKnown, Listing
<1> QED BY <1>1, <1>2, <1>4, BackCalm

LEMMA RecordCalm ==
    ASSUME SyncTypeOK, NEW w \in Worker, Abreast(w), Calm(w), RecordItem(w)
    PROVE  Calm(w)'
<1>1. work[w].at = "tasked" /\ work[w] # Idle /\ work[w].cur \in Item
  <2>1. work[w].at = "tasked" /\ work[w].cur \in Item
    BY RecordEffect
  <2> QED BY <2>1 DEF Idle
<1>2. PICK i \in Item : i = work[w].cur
  BY <1>1
<1>3. PICK k \in work[w].old :
        LET new == [status |-> "present", content |-> work[w].got, document |-> k] IN
        new \in ItemRow /\ Done(w, "listing", i, new, {i})
  BY <1>2, RecordEffect
<1> DEFINE new == [status |-> "present", content |-> work[w].got, document |-> k]
<1>4. /\ new \in ItemRow /\ new.status = "present" /\ new.content = work[w].got
      /\ new.document = k /\ Done(w, "listing", i, new, {i})
  BY <1>3
<1> HIDE DEF new
<1>5. k = Len(document[i]) /\ k > 0 /\ document[i][k].content = work[w].got /\ document[i][k].tasked
  BY <1>1, <1>2 DEF Abreast, NewestInHand
<1>6. document[i][k].live /\ work[w].got = remote[i] /\ remote[i] # Absent
  BY <1>1, <1>2 DEF Calm, NewestLive, Listed, Listing
<1>7. k \in LiveDocuments(i)
  <2>1. k \in DOMAIN document[i]
    BY <1>5 DEF SyncTypeOK, Documents
  <2> QED BY <1>6, <2>1 DEF LiveDocuments
<1>8. item'[i] = new /\ new # NoRow /\ document' = document /\ remote' = remote
  BY <1>1, <1>4, DoneMemory DEF Listing
<1>9. Mirrors(i)'
  BY <1>4, <1>5, <1>6, <1>7, <1>8 DEF Mirrors, LiveDocuments
<1>10. {i} \in SUBSET Item /\ {i} \subseteq {i}
  OBVIOUS
<1> QED BY <1>1, <1>2, <1>4, <1>7, <1>9, <1>10, BackCalm

LEMMA MarkCalm ==
    ASSUME SyncTypeOK, NEW w \in Worker, Abreast(w), Calm(w), MarkRemoved(w)
    PROVE  Calm(w)'
<1> DEFINE new == [Copy(w, work[w].cur) EXCEPT !.status = "removed",
                       !.document = IF deleteRemoved /\ Copy(w, work[w].cur).content # Absent THEN 0 ELSE @]
<1>1. /\ work[w].at = "deleting" /\ work[w].cur \in Item
      /\ new \in ItemRow /\ new.status = "removed"
      /\ Done(w, "removing", work[w].cur, new, {})
  BY MarkEffect
<1> HIDE DEF new
<1>2. work[w] # Idle
  BY <1>1 DEF Idle
<1>3. PICK i \in Item : i = work[w].cur
  BY <1>1
<1>4. /\ document' = document /\ remote' = remote
      /\ item'[i] = new /\ new # NoRow /\ \A j \in Item \ {i} : item'[j] = item[j]
      /\ work'[w].at = "removing" /\ work'[w].seen = work[w].seen /\ work'[w].todo = work[w].todo
      /\ work'[w].failed = (work[w].failed \/ new.status = "failed")
  BY <1>1, <1>2, <1>3, DoneMemory DEF Removing
<1>5. /\ remote[i] = Absent /\ i \notin work[w].seen /\ work[w].todo \cap work[w].seen = {}
      /\ \A j \in Item \ {i} : (j \in work[w].todo /\ remote[j] = Absent) \/ Settled(w, j)
  BY <1>1, <1>3, GoneInHand
<1>6. \A j \in Item \ {i} : (j \in work[w].todo /\ remote[j] = Absent) \/ Settled(w, j)'
  <2>1. work[w].at \notin Listing /\ work'[w].at \notin Listing
    BY <1>1, <1>4 DEF Listing
  <2> QED BY <1>4, <1>5, <2>1, SettledStays
<1>7. Settled(w, i)'
  BY <1>1, <1>4, <1>5 DEF Settled, Mirrors
<1>8. Retired(w)'
  BY <1>4, <1>5, <1>6, <1>7 DEF Retired
<1>9. LiveKnown(w)' /\ Listed(w)' /\ NewestLive(w)' /\ Told(w)'
  BY <1>4 DEF LiveKnown, Listed, NewestLive, Told, Listing
<1> QED BY <1>8, <1>9 DEF Calm

LEMMA VersionCalm ==
    ASSUME SyncTypeOK, NEW w \in Worker, Calm(w), CreateVersion(w)
    PROVE  Calm(w)'
<1>0. work[w].at = "item" /\ work[w] # Idle /\ work[w].cur \in Item
  BY DEF CreateVersion, Fetchable, At, Idle, SyncTypeOK, MemoryFits, InHand
<1>1. PICK i \in Item : i = work[w].cur
  BY <1>0
<1>1a. PICK n \in Nat : n = Len(document[i])
  BY <1>1 DEF SyncTypeOK, Documents
<1> DEFINE v == [content |-> remote[i], live |-> TRUE, tasked |-> FALSE]
<1>2. v \in Version /\ document \in Documents
  BY <1>1 DEF SyncTypeOK, Version
<1>3. AddsVersion(i, v) /\ item' = item /\ remote' = remote
  BY <1>1 DEF CreateVersion, AddsVersion
<1>4. v.live = TRUE
  OBVIOUS
<1> HIDE DEF v
<1>5. /\ \A j \in Item \ {i} : document'[j] = document[j]
      /\ DOMAIN document[i] = 1..n /\ DOMAIN document'[i] = 1..(n + 1)
      /\ document'[i][n + 1] = v
      /\ \A m \in DOMAIN document[i] : document'[i][m] = document[i][m]
  BY <1>1a, <1>2, <1>3, VersionAdded
<1>6. /\ work'[w].at = "versioned" /\ work'[w].live = work[w].live /\ work'[w].left = work[w].left
      /\ work'[w].seen = work[w].seen /\ work'[w].failed = work[w].failed
      /\ work'[w].cur = i /\ work'[w].got = remote[i] /\ work'[w].old = {n + 1}
  BY <1>1, <1>1a, CreateVersionEffect DEF Becomes
<1>7. remote[i] # Absent
  BY <1>1 DEF CreateVersion, Fetchable
<1>8. \A j \in Item : LiveDocuments(j) \subseteq LiveDocuments(j)'
  BY <1>5 DEF LiveDocuments
<1>9. LiveKnown(w)'
  <2>1. work[w].live \subseteq Item
    BY <1>0, Awake
  <2> QED BY <1>0, <1>3, <1>6, <1>8, <2>1 DEF Calm, LiveKnown, Listing
<1>10. Listed(w)'
  <2>1. /\ work[w].left \cap work[w].seen = {} /\ i \in work[w].seen
        /\ \A j \in Item \ {i} : j \in work[w].left \/ Settled(w, j)
    BY <1>0, <1>1 DEF Calm, Listed, Listing
  <2>2. \A j \in Item \ {i} : j \in work[w].left \/ Settled(w, j)'
    <3>1. work[w].at \in Listing /\ work'[w].at \in Listing
      BY <1>0, <1>6 DEF Listing
    <3> QED BY <1>3, <1>5, <1>6, <2>1, <3>1, SettledStays
  <2> QED BY <1>3, <1>6, <1>7, <2>1, <2>2 DEF Listed
<1>11. NewestLive(w)'
  BY <1>4, <1>5, <1>6 DEF NewestLive
<1>12. Retired(w)' /\ Told(w)'
  BY <1>6 DEF Retired, Told, Removing
<1> QED BY <1>9, <1>10, <1>11, <1>12 DEF Calm

LEMMA TaskCalm ==
    ASSUME SyncTypeOK, NEW w \in Worker, Abreast(w), Calm(w), CreateTask(w)
    PROVE  Calm(w)'
<1>0. work[w].at = "versioned" /\ work[w] # Idle /\ work[w].cur \in Item
  BY DEF CreateTask, At, Idle, SyncTypeOK, MemoryFits, InHand
<1>1. PICK i \in Item : i = work[w].cur
  BY <1>0
<1>2. document \in Documents /\ item' = item /\ remote' = remote
  BY DEF SyncTypeOK, CreateTask
<1>3. /\ \A j \in Item : DOMAIN document'[j] = DOMAIN document[j]
      /\ \A j \in Item \ {i} : document'[j] = document[j]
      /\ \A m \in DOMAIN document[i] : document'[i][m] =
                IF m \in work[w].old THEN [content |-> document[i][m].content, live |-> document[i][m].live,
                                  tasked |-> TRUE]
                ELSE document[i][m]
  <2>1. GetTask(i, work[w].old)
    BY <1>1 DEF CreateTask, GetTask
  <2> QED BY <1>2, <2>1, VersionTasked
<1>4. \A m \in DOMAIN document[i] : document'[i][m].live = document[i][m].live
  <2>1. ASSUME NEW m \in DOMAIN document[i] PROVE document'[i][m].live = document[i][m].live
    <3>1. CASE m \in work[w].old
      <4>1. document'[i][m] = [content |-> document[i][m].content, live |-> document[i][m].live, tasked |-> TRUE]
        BY <1>3, <3>1
      <4> QED BY <4>1
    <3>2. CASE m \notin work[w].old
      BY <1>3, <3>2
    <3> QED BY <3>1, <3>2
  <2> QED BY <2>1
<1>5. \A j \in Item : LiveDocuments(j)' = LiveDocuments(j)
  BY <1>3, <1>4 DEF LiveDocuments
<1>6. /\ work'[w].at = "tasked" /\ work'[w].live = work[w].live /\ work'[w].left = work[w].left
      /\ work'[w].seen = work[w].seen /\ work'[w].failed = work[w].failed
      /\ work'[w].cur = i /\ work'[w].got = work[w].got /\ work'[w].old = work[w].old
  BY <1>0, <1>1, GoesEffect DEF CreateTask, Becomes, Place, Listing
<1>7. LiveKnown(w)'
  <2>1. work[w].live \subseteq Item
    BY <1>0, Awake
  <2> QED BY <1>0, <1>2, <1>5, <1>6, <2>1 DEF Calm, LiveKnown, Listing
<1>8. Listed(w)'
  <2>1. /\ work[w].left \cap work[w].seen = {} /\ i \in work[w].seen
        /\ work[w].got = remote[i] /\ work[w].got # Absent
        /\ \A j \in Item \ {i} : j \in work[w].left \/ Settled(w, j)
    BY <1>0, <1>1 DEF Calm, Listed, Listing
  <2>2. \A j \in Item \ {i} : j \in work[w].left \/ Settled(w, j)'
    <3>1. work[w].at \in Listing /\ work'[w].at \in Listing
      BY <1>0, <1>6 DEF Listing
    <3> QED BY <1>2, <1>3, <1>6, <2>1, <3>1, SettledStays
  <2> QED BY <1>2, <1>6, <2>1, <2>2 DEF Listed
<1>9. NewestLive(w)'
  <2>1. work[w].old \subseteq DOMAIN document[i] /\ \A k \in work[w].old : document[i][k].live
    <3>1. PICK n \in Nat : n = Len(document[i])
      BY <1>1 DEF SyncTypeOK, Documents
    <3>2. work[w].old = {n} /\ n > 0
      BY <1>0, <1>1, <3>1 DEF Abreast, NewestInHand
    <3>3. n \in DOMAIN document[i]
      BY <1>2, <3>1, <3>2 DEF Documents
    <3>4. \A k \in work[w].old : document[i][k].live
      BY <1>0, <1>1 DEF Calm, NewestLive
    <3> QED BY <3>2, <3>3, <3>4
  <2> QED BY <1>4, <1>6, <2>1 DEF NewestLive
<1>10. Retired(w)' /\ Told(w)'
  BY <1>6 DEF Retired, Told, Removing
<1> QED BY <1>7, <1>8, <1>9, <1>10 DEF Calm

LEMMA BeginCalm ==
    ASSUME SyncTypeOK, NEW w \in Worker, Begin(w), source.alive, work[w].seen = {}
    PROVE  Calm(w)'
<1>1. UNCHANGED <<remote, item, document>>
  BY DEF Begin, store
<1>2. /\ work'[w].at = "listing" /\ work'[w].left = Item /\ work'[w].seen = {}
      /\ work'[w].live = {i \in Item : item[i] # NoRow /\ item[i].document \in LiveDocuments(i)}
  BY BeginEffect
<1>3. \A j : LiveDocuments(j)' = LiveDocuments(j)
  BY <1>1 DEF LiveDocuments
<1>4. LiveKnown(w)'
  BY <1>1, <1>2, <1>3 DEF LiveKnown
<1>5. Listed(w)'
  BY <1>2 DEF Listed
<1> QED BY <1>2, <1>4, <1>5 DEF Calm, NewestLive, Retired, Told, Removing

(* The run ends as a success only if every item was dealt with. *)
LEMMA EndRemovalCalm ==
    ASSUME SyncTypeOK, NEW w \in Worker, Calm(w), EndRemoval(w)
    PROVE  Calm(w)'
<1>1. work[w].at = "removing" /\ work[w].todo = {} /\ work[w] # Idle
  BY DEF EndRemoval, At, Idle
<1>2. UNCHANGED <<remote, item, document>>
  BY DEF EndRemoval, store
<1>3. Result(w) \in Ended /\ FALSE \in BOOLEAN
  BY DEF Result, Ended
<1>4. work'[w].at = "finishing" /\ work'[w].result = Result(w)
  BY <1>1, <1>3, ConcludesEffect DEF EndRemoval
<1>5. ASSUME ~work[w].failed, NEW i \in Item PROVE Mirrors(i)'
  <2>1. Mirrors(i)
    BY <1>1, <1>5 DEF Calm, Retired, Settled, Removing, Listing
  <2> QED BY <1>2, <2>1, MirrorsStays
<1>6. Told(w)'
  BY <1>4, <1>5 DEF Told, Result
<1> QED BY <1>4, <1>6 DEF Calm, LiveKnown, Listed, NewestLive, Retired, Listing, Removing

LEMMA WorkerCalm ==
    ASSUME SyncTypeOK, Ingested, NEW w \in Worker, Abreast(w), work[w].at = "claimed" => work[w].seen = {},
           work[w].calm => Calm(w), Execute(w)
    PROVE  work'[w] # Idle => /\ work'[w].at = "claimed" => work'[w].seen = {}
                              /\ work'[w].calm => Calm(w)'
<1> DEFINE Goal == work'[w] # Idle => /\ work'[w].at = "claimed" => work'[w].seen = {}
                                      /\ work'[w].calm => Calm(w)'
<1>0. remote' = remote
  BY Inside
<1>1. ASSUME GiveUp(w) \/ FailCrashed(w) \/ FinishWrites(w) \/ Superseded(w) PROVE Goal
  BY <1>1, DropsEffect DEF Drops
<1>2. ASSUME NEW result \in Ended, NEW t \in BOOLEAN, work[w] # Idle, Concludes(w, result, t),
             result # "succeeded" \/ t
      PROVE  Goal
  <2>1. work'[w].at = "finishing" /\ work'[w].result = result /\ work'[w].truncated = t
    BY <1>2, ConcludesEffect
  <2> QED BY <1>2, <2>1, CalmElsewhere DEF Listing, Removing
<1>3. ASSUME ListingFails(w) \/ Stopped(w) \/ Truncate(w) PROVE Goal
  <2>1. work[w] # Idle
    <3>1. work[w].at # "idle"
      BY <1>3 DEF ListingFails, Stopped, AtCheckpoint, Truncate, At
    <3> QED BY <3>1 DEF Idle
  <2>2. \E result \in Ended, t \in BOOLEAN : Concludes(w, result, t) /\ (result # "succeeded" \/ t)
    <3>1. Result(w) \in Ended /\ "failed" \in Ended /\ "canceled" \in Ended
      BY DEF Result, Ended
    <3> QED BY <1>3, <3>1 DEF ListingFails, Stopped, Truncate
  <2> QED BY <1>2, <2>1, <2>2
<1>4. ASSUME Begin(w) PROVE Goal
  <2>1. work[w] # Idle /\ work[w].seen = {}
    BY <1>4 DEF Begin, At, Idle
  <2>2. CASE source.alive
    <3>1. work'[w].at = "listing"
      BY <1>4, <2>2, BeginEffect
    <3> QED BY <1>4, <2>1, <2>2, <3>1, BeginCalm
  <2>3. CASE ~source.alive
    BY <1>2, <1>4, <2>1, <2>3 DEF Begin, Ended
  <2> QED BY <2>2, <2>3
<1>5. ASSUME LeaveByMetadata(w) \/ LeaveByHash(w) \/ ItemFails(w) \/ RecordItem(w) \/ MarkRemoved(w) PROVE Goal
  <2>1. work'[w].calm = work[w].calm /\ work'[w].at # "claimed"
    BY <1>5, DoneEffect DEF Becomes
  <2>2. CASE work[w].calm
    <3>1. Calm(w)'
      BY <1>5, <2>2, LeaveCalm, FailCalm, RecordCalm, MarkCalm
    <3> QED BY <2>1, <3>1
  <2>3. CASE ~work[w].calm
    BY <2>1, <2>3
  <2> QED BY <2>2, <2>3
<1>6. ASSUME CreateVersion(w) \/ CreateTask(w) PROVE Goal
  <2>1. work'[w].calm = work[w].calm /\ work'[w].at # "claimed"
    <3>1. CASE CreateVersion(w)
      BY <3>1, CreateVersionEffect DEF Becomes
    <3>2. CASE CreateTask(w)
      BY <3>2, GoesEffect DEF CreateTask, At, Idle, Becomes, Place, Listing
    <3> QED BY <1>6, <3>1, <3>2
  <2>2. work[w].calm => Calm(w)'
    BY <1>6, VersionCalm, TaskCalm
  <2> QED BY <2>1, <2>2
<1>7. ASSUME RemovalFails(w) \/ \E k \in work[w].old : DeleteVersion(w, k) PROVE Goal
  <2>1. work'[w].calm = work[w].calm /\ work'[w].at # "claimed"
    <3>1. CASE RemovalFails(w)
      BY <3>1, RemovalFailsEffect DEF Becomes
    <3>2. ASSUME NEW k \in work[w].old, DeleteVersion(w, k)
          PROVE  work'[w].calm = work[w].calm /\ work'[w].at # "claimed"
      BY <3>2, DeleteVersionEffect DEF DeleteVersion, At, Becomes
    <3> QED BY <1>7, <3>1, <3>2
  <2>2. item' = item /\ (RemovalFails(w) => document' = document)
    BY <1>7 DEF RemovalFails, DeleteVersion, store
  <2>3. work[w].calm => Calm(w)'
    BY <1>0, <1>7, <2>2, RemovalCalm
  <2> QED BY <2>1, <2>3
<1>8. ASSUME \/ EndListing(w)
             \/ \E i \in Item : PassAbsent(w, i) \/ Enter(w, i) \/ Retire(w, i)
      PROVE  Goal
  <2>1. UNCHANGED <<item, document>>
    BY <1>8 DEF EndListing, PassAbsent, Enter, Retire, store
  <2>2. work'[w].calm = work[w].calm /\ work'[w].at # "claimed"
    <3>1. CASE EndListing(w)
      BY <3>1, EndListingEffect DEF Becomes
    <3>2. ASSUME NEW i \in Item, PassAbsent(w, i) PROVE work'[w].calm = work[w].calm /\ work'[w].at # "claimed"
      BY <3>2, PassAbsentEffect DEF PassAbsent, At, Becomes
    <3>3. ASSUME NEW i \in Item, Enter(w, i) \/ Retire(w, i) PROVE work'[w].calm = work[w].calm /\ work'[w].at # "claimed"
      BY <3>3, EnterEffect, RetireEffect DEF Becomes
    <3> QED BY <1>8, <3>1, <3>2, <3>3
  <2>3. work[w].calm => Calm(w)'
    BY <1>0, <1>8, <2>1, EndListingCalm, ListingCalm, RetireCalm
  <2> QED BY <2>2, <2>3
<1>9. ASSUME EndRemoval(w) PROVE Goal
  <2>1. work[w] # Idle /\ Result(w) \in Ended /\ FALSE \in BOOLEAN
    BY <1>9 DEF EndRemoval, At, Idle, Result, Ended
  <2>2. work'[w].calm = work[w].calm /\ work'[w].at = "finishing"
    BY <1>9, <2>1, ConcludesEffect DEF EndRemoval
  <2> QED BY <1>9, <2>2, EndRemovalCalm
<1>10. ASSUME FinishReads(w) PROVE Goal
  <2>1. work[w].at = "finishing" /\ work[w] # Idle /\ "ending" \in Place
    BY <1>10 DEF FinishReads, At, Idle, Place
  <2>2. /\ work'[w].at = "ending" /\ work'[w].result = work[w].result
        /\ work'[w].truncated = work[w].truncated /\ work'[w].calm = work[w].calm
    BY <1>10, <2>1, GoesEffect DEF FinishReads, Becomes
  <2>3. UNCHANGED <<item, document>>
    BY <1>10 DEF FinishReads, store
  <2>4. ASSUME Calm(w) PROVE Calm(w)'
    <3>1. \A i \in Item : Mirrors(i) => Mirrors(i)'
      BY <1>0, <2>3, MirrorsStays
    <3>2. Told(w)'
      BY <2>1, <2>2, <2>4, <3>1 DEF Calm, Told
    <3> QED BY <2>2, <3>2 DEF Calm, LiveKnown, Listed, NewestLive, Retired, Listing, Removing
  <2> QED BY <2>2, <2>4
<1>11. ASSUME InsertConflicts(w) PROVE Goal
  BY <1>11, AfreshEffect DEF Afresh
<1>12. Goal
  BY <1>1, <1>3, <1>4, <1>5, <1>6, <1>7, <1>8, <1>9, <1>10, <1>11 DEF Execute, ItemStep
<1> QED BY <1>12

LEMMA StepInvStep ==
    ASSUME SyncTypeOK, SoleInv, StepInv, [Next]_vars
    PROVE  StepInv'
<1> DEFINE Fit(w) == work'[w] # Idle => /\ work'[w].at = "claimed" => work'[w].seen = {}
                                        /\ work'[w].calm => Calm(w)'
           Goal == \A w \in Worker : Fit(w)
<1> SUFFICES ASSUME overlaps' = 0
             PROVE  Goal
  BY DEF StepInv
<1>1. overlaps = 0 /\ Sole /\ Ingested /\ \A w \in Worker : work[w] # Idle => Abreast(w)
  BY OverlapsGrow DEF SoleInv
<1>2. \A w \in Worker : work[w] # Idle => /\ work[w].at = "claimed" => work[w].seen = {}
                                          /\ work[w].calm => Calm(w)
  BY <1>1 DEF StepInv
<1>3. ASSUME UNCHANGED <<remote, item, document>>, NEW v \in Worker, work'[v] = work[v] PROVE Fit(v)
  BY <1>2, <1>3, CalmStays
<1>4. CASE UNCHANGED vars \/ FallsDue \/ TriggerSync \/ EnqueueDueRun \/ MemberWrites
  <2>1. UNCHANGED <<remote, item, document, work>>
    BY <1>4 DEF vars, store, FallsDue, TriggerSync, EnqueueDueRun, MemberWrites
  <2> QED BY <1>3, <2>1
<1>5. ASSUME NEW r \in Run, Lapse(r) \/ \E act \in {"cancel", "delete"} : MemberReads(act, r) PROVE Goal
  <2>1. UNCHANGED <<remote, item, document, work>>
    BY <1>5 DEF store, Lapse, MemberReads
  <2> QED BY <1>3, <2>1
<1>6. ASSUME \/ \E i \in Item, c \in {Absent} \cup Content : RemoteChanges(i, c)
             \/ \E i \in Item : \E k \in LiveDocuments(i) : DocumentDeleted(i, k)
      PROVE  Goal
  <2>1. ASSUME NEW w \in Worker, work'[w] # Idle PROVE Fit(w)
    <3>1. work[w] # Idle /\ Alike(work[w], work'[w])
      BY <1>6, <2>1, OutsideEffect
    <3> QED BY <1>2, <3>1 DEF Alike
  <2> QED BY <2>1
<1>7. ASSUME NEW w \in Worker, Dies(w) PROVE Goal
  <2>1. UNCHANGED <<remote, item, document>> /\ Others(w) /\ work'[w] = Idle
    BY <1>7, DropsEffect DEF Dies, store, Drops
  <2>2. ASSUME NEW v \in Worker \ {w} PROVE Fit(v)
    BY <1>3, <2>1 DEF Others
  <2> QED BY <2>1, <2>2
<1>8. ASSUME NEW w \in Worker, NEW r \in Run, ClaimNextRun(w, r) PROVE Goal
  <2>1. UNCHANGED <<remote, item, document>> /\ Others(w) /\ work'[w].seen = {} /\ work'[w].calm = FALSE
    BY <1>8, AfreshEffect DEF ClaimNextRun, Afresh
  <2>2. ASSUME NEW v \in Worker \ {w} PROVE Fit(v)
    BY <1>3, <2>1 DEF Others
  <2> QED BY <2>1, <2>2
<1>9. ASSUME NEW w \in Worker, Execute(w) PROVE Goal
  <2>1. work[w] # Idle /\ \A v \in Worker \ {w} : work'[v] = Idle
    BY <1>1, <1>9, Bearing DEF Others, Sole
  <2>2. Fit(w)
    BY <1>1, <1>2, <1>9, <2>1, WorkerCalm
  <2> QED BY <2>1, <2>2
<1> QED BY <1>4, <1>5, <1>6, <1>7, <1>8, <1>9 DEF Next

(* A run that succeeds has brought the knowledge base in step              *)
(* (connector_sync.py, execute_run and _finish): if nothing changed        *)
(* outside while it ran and its lease was kept, every item is as the       *)
(* remote has it.                                                          *)
THEOREM InStepHolds == Spec => []InStep
<1>1. Init => StepInv
  BY DEF Init, StepInv
<1>2. SyncTypeOK /\ SoleInv /\ StepInv /\ [Next]_vars => StepInv'
  BY StepInvStep
<1>3. StepInv => InStep
  <2> SUFFICES ASSUME StepInv, overlaps = 0, NEW w \in Worker, work[w].at = "ending",
                      work[w].result = "succeeded", ~work[w].truncated, work[w].calm, NEW i \in Item
               PROVE  Mirrors(i)
    BY DEF InStep, At
  <2>1. work[w] # Idle
    BY DEF Idle
  <2> QED BY <2>1 DEF StepInv, Calm, Told
<1> QED BY <1>1, <1>2, <1>3, SyncTypeCorrect, SoleInvHolds, PTL DEF Spec

=============================================================================
