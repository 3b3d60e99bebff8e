------------------------------ MODULE Commands ------------------------------
(***************************************************************************)
(* The commands that change the key store and what each of them does to    *)
(* it, seen through the key store's map interface (command.rs over         *)
(* key_store.rs).  A store maps every key to a stored value, or to None    *)
(* where the table holds no entry.  A stored value keeps its bytes and the *)
(* deadline after which it counts as expired; an expired value stays in    *)
(* the table until some operation or the cleanup task takes it out.        *)
(*                                                                         *)
(* A relative EXPIRE is turned into an absolute EXPIREAT while the request *)
(* is parsed, so the store and the log only ever see EXPIREAT.             *)
(***************************************************************************)
EXTENDS Naturals, Sequences, Option

CONSTANTS
    Keys,            \* the keys clients use
    Values,          \* the values clients store
    MaxTimestamp,    \* the largest deadline (u64::MAX in the program)
    EntryLists,      \* the argument lists of MSET
    KeyLists         \* the argument lists of DEL

Timestamps == 0 .. MaxTimestamp

ASSUME TimestampAssumption ==
    /\ MaxTimestamp \in Nat
    /\ None \notin Timestamps

ASSUME ArgumentAssumption ==
    /\ EntryLists \subseteq Seq(Keys \X Values)
    /\ KeyLists \subseteq Seq(Keys)

-----------------------------------------------------------------------------
(* Stored values and stores.                                               *)

StoredValues == [bytes : Values, expires_at : Timestamps \cup {None}]

NewValue(bytes) == [bytes |-> bytes, expires_at |-> None]

ASSUME NoneAssumption == None \notin StoredValues

Stores == [Keys -> StoredValues \cup {None}]

EmptyStore == [key \in Keys |-> None]

IsExpired(value, now) == value.expires_at # None /\ value.expires_at <= now

\* What apply_get, apply_mget, apply_getall and apply_ttl all take as
\* "the key exists".
Visible(store, key, now) == store[key] # None /\ ~IsExpired(store[key], now)

\* A value with no deadline.
Persistent(store, key) == store[key] # None /\ store[key].expires_at = None

-----------------------------------------------------------------------------
(* The write commands, as they are logged.                                 *)

WriteCommands ==
         [op : {"SET"}, key : Keys, value : Values]
    \cup [op : {"MSET"}, entries : EntryLists]
    \cup [op : {"DEL"}, keys : KeyLists]
    \cup [op : {"EXPIREAT"}, key : Keys, at : Timestamps]

\* Mutant: EXPIREAT and DEL find expired entries as they find live ones.
EjectNothing(store, key, now) == store

EjectIfExpired(store, key, now) ==
    IF store[key] # None /\ IsExpired(store[key], now)
    THEN [store EXCEPT ![key] = None]
    ELSE store

ApplySet(key, value, store) == [store EXCEPT ![key] = NewValue(value)]

\* MSET inserts its pairs from left to right: the last pair of a key stays.
IsLastEntry(entries, i, key) ==
    /\ entries[i][1] = key
    /\ \A j \in DOMAIN entries : j > i => entries[j][1] # key

ApplyMSet(entries, store) ==
    [key \in Keys |->
        IF \E i \in DOMAIN entries : entries[i][1] = key
        THEN NewValue(entries[CHOOSE i \in DOMAIN entries :
                                  IsLastEntry(entries, i, key)][2])
        ELSE store[key]]

RemoveKeys(gone, store) ==
    [key \in Keys |-> IF key \in gone THEN None ELSE store[key]]

\* Every named key leaves the table, expired or not; the clock only decides
\* whether DEL counts it in its answer.
ApplyDel(keys, store) == RemoveKeys({keys[i] : i \in DOMAIN keys}, store)

\* The deadline is only moved on a key that is still live when the command
\* runs, by the clock of that moment.
ApplyExpireAt(key, at, store, now) ==
    LET swept == EjectIfExpired(store, key, now)
    IN  IF swept[key] = None
        THEN swept
        ELSE [swept EXCEPT ![key].expires_at = at]

ApplyWrite(cmd, store, now) ==
    CASE cmd.op = "SET"      -> ApplySet(cmd.key, cmd.value, store)
      [] cmd.op = "MSET"     -> ApplyMSet(cmd.entries, store)
      [] cmd.op = "DEL"      -> ApplyDel(cmd.keys, store)
      [] cmd.op = "EXPIREAT" -> ApplyExpireAt(cmd.key, cmd.at, store, now)

ExpiredKeys(store, now) ==
    {key \in Keys : store[key] # None /\ IsExpired(store[key], now)}
=============================================================================
