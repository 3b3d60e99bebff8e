------------------------------ MODULE KeyStore ------------------------------
(***************************************************************************)
(* The open-addressing table with Robin Hood probing of key_store.rs.  An  *)
(* entry sits psl buckets behind the one its hash names; an insertion that *)
(* meets an entry closer to home takes its bucket and carries that entry   *)
(* on; a lookup gives up where it meets one; a deletion shifts the rest of *)
(* the cluster back.                                                       *)
(*                                                                         *)
(* Every action is one round of one of the loops, so that what holds       *)
(* between rounds can be stated; a method is a run of actions from "idle"  *)
(* back to "idle".  An entry's hash field is always the hash of its key    *)
(* and is not stored.  All arithmetic on indices is modulo the capacity, a *)
(* power of two, so hashes matter only up to the largest capacity reached. *)
(***************************************************************************)
EXTENDS Naturals, FiniteSets

CONSTANTS
    Keys,
    Values,
    None,            \* no entry, no value, no operation
    Hashes,          \* the values hash_one can give
    StartCapacity    \* START_CAPACITY (16)

ASSUME HashAssumption == Hashes \subseteq Nat

Entries == [key : Keys, value : Values, psl : Nat]

ASSUME NoneAssumption == None \notin Entries /\ None \notin Values

ASSUME CapacityAssumption == StartCapacity \in Nat /\ StartCapacity >= 2

VARIABLES
    hasher,      \* the hash of every key, drawn when the table is made
    cap,         \* buckets.len()
    buckets,     \* the table
    len,         \* how many entries it counts
    pc,          \* the loop that is running
    op,          \* the method call in progress
    entry,       \* insert: the entry in hand; del: the entry taken out
    psl,         \* lookups: how far from home the probe is
    hole,        \* del: the bucket to fill
    old,         \* resize: the table being emptied
    cursor,      \* resize: the next bucket of it
    result       \* what the last call returned

table == <<cap, buckets, len>>
frame == <<entry, psl, hole, old, cursor>>
vars == <<hasher, table, pc, op, frame, result>>

\* get_bucket_index, in a table of n buckets
Slot(n, hash, distance) == (hash + distance) % n

NewTable(capacity) == [i \in 0 .. capacity - 1 |-> None]

\* Mutant: the table grows only past the load limit.
ShouldResizeLate(count) == count * 4 > cap * 3

ShouldResize(count) == count * 4 >= cap * 3

Init ==
    /\ hasher \in [Keys -> Hashes]
    /\ cap = StartCapacity
    /\ buckets = NewTable(StartCapacity)
    /\ len = 0
    /\ pc = "idle"
    /\ op = None
    /\ entry = None
    /\ psl = 0
    /\ hole = 0
    /\ old = NewTable(0)
    /\ cursor = 0
    /\ result = None

\* The method returns; its locals are gone.
Return(answer) ==
    /\ pc' = "idle"
    /\ op' = None
    /\ result' = answer
    /\ entry' = None
    /\ psl' = 0
    /\ hole' = 0
    /\ old' = NewTable(0)
    /\ cursor' = 0

-----------------------------------------------------------------------------
(* insert                                                                  *)

Insert(key, value) ==
    /\ pc = "idle"
    /\ op' = [kind |-> "insert", key |-> key, value |-> value]
    /\ entry' = [key |-> key, value |-> value, psl |-> 0]
    /\ pc' = "insert"
    /\ UNCHANGED <<hasher, table, psl, hole, old, cursor, result>>

\* The bucket the entry in hand is at.
Target == Slot(cap, hasher[entry.key], entry.psl)

\* The new table takes over; resize will move the entries of the old one.
Resize(full) ==
    /\ old' = full
    /\ cursor' = 0
    /\ cap' = 2 * cap
    /\ buckets' = NewTable(2 * cap)
    /\ entry' = None
    /\ pc' = "resize"
    /\ UNCHANGED <<op, psl, hole, result>>

InsertPlace ==
    /\ pc = "insert"
    /\ buckets[Target] = None
    /\ len' = len + 1
    /\ LET full == [buckets EXCEPT ![Target] = entry]
       IN  IF ShouldResize(len + 1)
           THEN Resize(full)
           ELSE buckets' = full /\ Return(None) /\ UNCHANGED cap
    /\ UNCHANGED hasher

InsertReplace ==
    /\ pc = "insert"
    /\ buckets[Target] # None
    /\ buckets[Target].key = entry.key
    /\ buckets' = [buckets EXCEPT ![Target].value = entry.value]
    /\ Return(buckets[Target].value)
    /\ UNCHANGED <<hasher, cap, len>>

\* Mutant: plain linear probing, nobody gives way.
DisplaceNobody ==
    /\ entry' = [entry EXCEPT !.psl = @ + 1]
    /\ UNCHANGED buckets

\* The richer of the two entries, the one closer to home, is carried on.
Displace ==
    IF buckets[Target].psl < entry.psl
    THEN /\ buckets' = [buckets EXCEPT ![Target] = entry]
         /\ entry' = [buckets[Target] EXCEPT !.psl = @ + 1]
    ELSE /\ entry' = [entry EXCEPT !.psl = @ + 1]
         /\ UNCHANGED buckets

InsertProbe ==
    /\ pc = "insert"
    /\ buckets[Target] # None
    /\ buckets[Target].key # entry.key
    /\ Displace
    /\ UNCHANGED <<hasher, cap, len, pc, op, psl, hole, old, cursor, result>>

-----------------------------------------------------------------------------
(* resize and insert_entry                                                 *)

ResizeSkip ==
    /\ pc = "resize"
    /\ cursor \in DOMAIN old
    /\ old[cursor] = None
    /\ cursor' = cursor + 1
    /\ UNCHANGED <<hasher, table, pc, op, entry, psl, hole, old, result>>

\* Mutant: insert_entry does not reset the psl.
ResizeTakeKeepingPsl ==
    /\ pc = "resize"
    /\ cursor \in DOMAIN old
    /\ old[cursor] # None
    /\ entry' = old[cursor]
    /\ cursor' = cursor + 1
    /\ pc' = "insert_entry"
    /\ UNCHANGED <<hasher, table, op, psl, hole, old, result>>

ResizeTake ==
    /\ pc = "resize"
    /\ cursor \in DOMAIN old
    /\ old[cursor] # None
    /\ entry' = [old[cursor] EXCEPT !.psl = 0]
    /\ cursor' = cursor + 1
    /\ pc' = "insert_entry"
    /\ UNCHANGED <<hasher, table, op, psl, hole, old, result>>

ResizeDone ==
    /\ pc = "resize"
    /\ cursor \notin DOMAIN old
    /\ Return(None)
    /\ UNCHANGED <<hasher, table>>

InsertEntryPlace ==
    /\ pc = "insert_entry"
    /\ buckets[Target] = None
    /\ buckets' = [buckets EXCEPT ![Target] = entry]
    /\ entry' = None
    /\ pc' = "resize"
    /\ UNCHANGED <<hasher, cap, len, op, psl, hole, old, cursor, result>>

InsertEntryProbe ==
    /\ pc = "insert_entry"
    /\ buckets[Target] # None
    /\ Displace
    /\ UNCHANGED <<hasher, cap, len, pc, op, psl, hole, old, cursor, result>>

-----------------------------------------------------------------------------
(* get, get_mut and del: index_of, and the same loop inside del            *)

Lookup(o) ==
    /\ pc = "idle"
    /\ op' = o
    /\ psl' = 0
    /\ pc' = "probe"
    /\ UNCHANGED <<hasher, table, entry, hole, old, cursor, result>>

Get(key) == Lookup([kind |-> "get", key |-> key])

GetMut(key, value) == Lookup([kind |-> "get_mut", key |-> key, value |-> value])

Del(key) == Lookup([kind |-> "del", key |-> key])

\* The bucket the lookup is at.
Probed == Slot(cap, hasher[op.key], psl)

\* An entry closer to its home than the lookup is to its own: had the key been
\* in the table, its insertion would have taken this bucket.
GivesUp == buckets[Probed] # None => buckets[Probed].psl < psl

ProbeMiss ==
    /\ pc = "probe"
    /\ GivesUp
    /\ Return(None)
    /\ UNCHANGED <<hasher, table>>

\* Mutant: the same bucket is looked at again.
ProbeOnStaying ==
    /\ pc = "probe"
    /\ ~GivesUp
    /\ buckets[Probed].key # op.key
    /\ UNCHANGED vars

ProbeOn ==
    /\ pc = "probe"
    /\ ~GivesUp
    /\ buckets[Probed].key # op.key
    /\ psl' = psl + 1
    /\ UNCHANGED <<hasher, table, pc, op, entry, hole, old, cursor, result>>

Found == pc = "probe" /\ ~GivesUp /\ buckets[Probed].key = op.key

FoundGet ==
    /\ Found
    /\ op.kind = "get"
    /\ Return(buckets[Probed].value)
    /\ UNCHANGED <<hasher, table>>

FoundGetMut ==
    /\ Found
    /\ op.kind = "get_mut"
    /\ buckets' = [buckets EXCEPT ![Probed].value = op.value]
    /\ Return(buckets[Probed].value)
    /\ UNCHANGED <<hasher, cap, len>>

\* Mutant: the bucket is cleared and nothing shifts back.
FoundDelUnshifted ==
    /\ Found
    /\ op.kind = "del"
    /\ buckets' = [buckets EXCEPT ![Probed] = None]
    /\ len' = len - 1
    /\ Return(buckets[Probed].value)
    /\ UNCHANGED <<hasher, cap>>

FoundDel ==
    /\ Found
    /\ op.kind = "del"
    /\ entry' = buckets[Probed]
    /\ buckets' = [buckets EXCEPT ![Probed] = None]
    /\ len' = len - 1
    /\ hole' = Probed
    /\ psl' = 0
    /\ pc' = "shift"
    /\ UNCHANGED <<hasher, cap, op, old, cursor, result>>

NextBucket == (hole + 1) % cap

\* Mutant: entries that are at home are shifted back too.
AnyBehind == buckets[NextBucket] # None

\* Whether the entry behind the hole is away from home.
Displaced == buckets[NextBucket] # None /\ buckets[NextBucket].psl > 0

ShiftBack ==
    /\ pc = "shift"
    /\ Displaced
    /\ buckets' = [buckets EXCEPT
                       ![hole] = [buckets[NextBucket] EXCEPT !.psl = @ - 1],
                       ![NextBucket] = None]
    /\ hole' = NextBucket
    /\ UNCHANGED <<hasher, cap, len, pc, op, entry, psl, old, cursor, result>>

ShiftDone ==
    /\ pc = "shift"
    /\ ~Displaced
    /\ Return(entry.value)
    /\ UNCHANGED <<hasher, table>>

-----------------------------------------------------------------------------
Step ==
    \/ InsertPlace \/ InsertReplace \/ InsertProbe
    \/ ResizeSkip \/ ResizeTake \/ ResizeDone
    \/ InsertEntryPlace \/ InsertEntryProbe
    \/ ProbeMiss \/ ProbeOn \/ FoundGet \/ FoundGetMut \/ FoundDel
    \/ ShiftBack \/ ShiftDone

Next ==
    \/ \E key \in Keys, value \in Values : Insert(key, value) \/ GetMut(key, value)
    \/ \E key \in Keys : Get(key) \/ Del(key)
    \/ Step

\* The loops run on until they return.
Spec == Init /\ [][Next]_vars /\ WF_vars(Step)

-----------------------------------------------------------------------------
(* Properties.                                                             *)

Methods == {"insert", "get_mut", "get", "del"}

TypeOK ==
    /\ hasher \in [Keys -> Hashes]
    /\ cap \in Nat \ {0, 1}
    /\ buckets \in [0 .. cap - 1 -> Entries \cup {None}]
    /\ len \in Nat
    /\ pc \in {"idle", "insert", "resize", "insert_entry", "probe", "shift"}
    /\ IF pc = "idle"
       THEN op = None
       ELSE op.kind \in Methods /\ op.key \in Keys
    /\ pc \in {"insert", "resize", "insert_entry"} => op.kind = "insert"
    /\ pc = "probe" => op.kind \in {"get_mut", "get", "del"}
    /\ pc = "probe" /\ op.kind = "get_mut" => op.value \in Values
    /\ pc = "shift" => op.kind = "del"
    /\ entry \in Entries \cup {None}
    /\ (entry # None) = (pc \in {"insert", "insert_entry", "shift"})
    /\ psl \in Nat
    /\ hole \in 0 .. cap - 1
    /\ old \in [0 .. (IF pc \in {"resize", "insert_entry"}
                     THEN cap \div 2 ELSE 0) - 1 -> Entries \cup {None}]
    /\ cursor \in Nat
    /\ result \in Values \cup {None}

\* The buckets of a part of a table that hold an entry, and their keys.
Full(tbl, part) == {i \in part : tbl[i] # None}

KeysIn(tbl, part) == {tbl[i].key : i \in Full(tbl, part)}

Occupied == Full(buckets, DOMAIN buckets)

\* The part of the old table that resize has not reached.
Remaining == DOMAIN old \ (0 .. cursor - 1)

\* The bucket does not hold the key.
Lacks(tbl, i, key) == tbl[i] # None => tbl[i].key # key

\* Every bucket that a probe for hash passes before it is p buckets from home
\* holds an entry at least as far from its own home, so no lookup gives up
\* there.  A hole that a deletion has not filled yet is the exception.
Covered(tbl, n, holes, hash, p) ==
    \A r \in 0 .. p - 1 :
        LET i == Slot(n, hash, r)
        IN  i \in holes \/ (tbl[i] # None /\ tbl[i].psl >= r)

\* Every entry is where its hash and psl say, on a covered path, and no key is
\* there twice.
WellPlaced(hash, tbl, n, holes) ==
    /\ \A i \in 0 .. n - 1 : tbl[i] # None =>
           /\ i = Slot(n, hash[tbl[i].key], tbl[i].psl)
           /\ Covered(tbl, n, holes, hash[tbl[i].key], tbl[i].psl)
    /\ \A i, j \in 0 .. n - 1 :
           tbl[i] # None /\ tbl[j] # None /\ tbl[i].key = tbl[j].key => i = j

Holes == IF pc = "shift" THEN {hole} ELSE {}

\* The entry in hand is on a covered path; insert has not met its key.
HandOnPath ==
    /\ pc \in {"insert", "insert_entry"} =>
           Covered(buckets, cap, {}, hasher[entry.key], entry.psl)
    /\ pc = "insert" => \A r \in 0 .. entry.psl - 1 :
           Lacks(buckets, Slot(cap, hasher[entry.key], r), entry.key)

\* A lookup has not passed its key.
KeyNotPassed ==
    pc = "probe" => \A r \in 0 .. psl - 1 :
        Lacks(buckets, Slot(cap, hasher[op.key], r), op.key)

\* What resize has still to move is nowhere else.
OldApart ==
    /\ pc = "insert_entry" => entry.key \notin
           KeysIn(buckets, DOMAIN buckets) \cup KeysIn(old, Remaining)
    /\ KeysIn(old, Remaining) \cap KeysIn(buckets, DOMAIN buckets) = {}
    /\ \A i, j \in Remaining :
           old[i] # None /\ old[j] # None /\ old[i].key = old[j].key => i = j

(* The Robin Hood invariant, between any two rounds of any loop.  It is what
   the early return of index_of and del relies on ("this invariant is
   maintained by insertion"). *)
RobinHood ==
    /\ WellPlaced(hasher, buckets, cap, Holes)
    /\ pc = "shift" => buckets[hole] = None
    /\ HandOnPath
    /\ KeyNotPassed
    /\ OldApart

(* A lookup that gives up is right: the key is nowhere in the table. *)
MissMeansAbsent ==
    [][ProbeMiss => op.key \notin KeysIn(buckets, DOMAIN buckets)]_vars

(* len counts the entries, in the middle of a resize too, and the table stays
   under its load limit; this keeps a bucket free for every probe to end at. *)
LoadBounded ==
    /\ len = Cardinality(Occupied) + Cardinality(Full(old, Remaining))
             + (IF pc = "insert_entry" THEN 1 ELSE 0)
    /\ 4 * len < 3 * cap

\* An insertion under way has put its new entry down, in a free bucket or in
\* that of an entry it now carries on.
Inserted ==
    \/ pc = "insert" /\ entry.key # op.key
    \/ pc \in {"resize", "insert_entry"}

\* Every entry the store holds: in the table, carried on, or in the part of
\* the old table that resize has not reached.
Held ==
         {buckets[i] : i \in Occupied}
    \cup (IF Inserted THEN {entry} ELSE {})
    \cup {old[i] : i \in Full(old, Remaining)}

\* The map as it was when the call in progress began.
MapBefore ==
    [key \in Keys |->
        IF Inserted /\ key = op.key THEN None
        ELSE IF pc = "shift" /\ key = op.key THEN entry.value
        ELSE IF \E e \in Held \ {None} : e.key = key
        THEN (CHOOSE e \in Held \ {None} : e.key = key).value
        ELSE None]

Abstract == INSTANCE KeyMap WITH map <- MapBefore

ASSUME OperationAssumption == None \notin Abstract!Operations

(* The table is a map: every insert, get, get_mut and del answers and leaves
   what KeyMap says, across collisions, wrap-around, displaced entries,
   resizes and shifts. *)
ImplementsKeyMap == Abstract!Spec

(* Every call returns: each probe meets a free bucket or an entry closer to
   its home, each insertion carries one entry after another until one fits,
   and a resize comes to the end of the old table. *)
EveryCallReturns == op # None ~> op = None
=============================================================================
