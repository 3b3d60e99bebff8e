--------------------------- MODULE CommandAnswers ---------------------------
(***************************************************************************)
(* What the commands answer (command.rs).  Reads leave expired entries in  *)
(* the table and pass over them.  MGET, GETALL and DEL look at one key     *)
(* after the other, each by the clock of its own moment.                   *)
(***************************************************************************)
EXTENDS Commands, Responses, Integers, SequencesExt

TtlKeyMissing == -2
TtlKeyNoExpire == -1

\* A u64 as an i64.
AsI64(n) == IF n > MaxTimestamp \div 2 THEN n - (MaxTimestamp + 1) ELSE n

ApplyGet(key, store, now) ==
    IF Visible(store, key, now) THEN Cstr(store[key].bytes) ELSE Null

\* Mutant: the filter on expired entries is left out.
ApplyTtlStale(key, store, now) ==
    IF store[key] = None THEN Integer(TtlKeyMissing)
    ELSE IF store[key].expires_at = None THEN Integer(TtlKeyNoExpire)
    ELSE Integer(AsI64(store[key].expires_at))

ApplyTtl(key, store, now) ==
    IF ~Visible(store, key, now) THEN Integer(TtlKeyMissing)
    ELSE IF store[key].expires_at = None THEN Integer(TtlKeyNoExpire)
    ELSE Integer(AsI64(store[key].expires_at))

\* What GETALL adds for one entry of the table.
ApplyGetAll(key, store, now) ==
    IF Visible(store, key, now)
    THEN <<Array(<<Cstr(key), Cstr(store[key].bytes)>>)>>
    ELSE <<>>

\* EXPIREAT tells whether it found the key.
ExpireAtAnswer(key, store, now) ==
    Integer(IF EjectIfExpired(store, key, now)[key] = None THEN 0 ELSE 1)

\* What DEL adds to its count for one of its keys.
DelCount(key, store, now) ==
    IF EjectIfExpired(store, key, now)[key] = None THEN 0 ELSE 1

\* The store without the keys whose deadline has come.
Live(store, now) == [key \in Keys |-> IF Visible(store, key, now) THEN store[key] ELSE None]

-----------------------------------------------------------------------------
(* A command as the sequence of looks it takes: todo, the keys one after   *)
(* the other, then the rest of it at once.                                 *)

\* iter passes over the buckets in an order of their own.
TodoLists(cmd) ==
    CASE cmd.op \in {"MGET", "DEL"} -> {cmd.keys}
      [] cmd.op = "GETALL"          -> SetToSeqs(Keys)
      [] OTHER                      -> {<<>>}

\* What the look at one key adds to the answer, and does to the store.
Gathered(cmd, key, store, now) ==
    CASE cmd.op = "MGET"   -> <<ApplyGet(key, store, now)>>
      [] cmd.op = "GETALL" -> ApplyGetAll(key, store, now)
      [] cmd.op = "DEL"    -> IF DelCount(key, store, now) = 1 THEN <<key>> ELSE <<>>

StoreAfterLook(cmd, key, store) ==
    IF cmd.op = "DEL" THEN RemoveKeys({key}, store) ELSE store

\* What follows the last look.
StoreAtEnd(cmd, store, now) ==
    IF cmd.op \in {"SET", "MSET", "EXPIREAT"} THEN ApplyWrite(cmd, store, now) ELSE store

Answer(cmd, gathered, store, now) ==
    CASE cmd.op \in {"SET", "MSET"}    -> Ok
      [] cmd.op = "EXPIREAT"           -> ExpireAtAnswer(cmd.key, store, now)
      [] cmd.op = "DEL"                -> Integer(Len(gathered))
      [] cmd.op = "GET"                -> ApplyGet(cmd.key, store, now)
      [] cmd.op = "TTL"                -> ApplyTtl(cmd.key, store, now)
      [] cmd.op \in {"MGET", "GETALL"} -> Array(gathered)

-----------------------------------------------------------------------------
(* A client's call, as it goes on.                                         *)

Idle == [phase |-> "idle"]

Running(cmd, todo, gathered) ==
    [phase |-> "running", cmd |-> cmd, todo |-> todo, gathered |-> gathered]

Answered(answer) == [phase |-> "answered", answer |-> answer]
=============================================================================
