# A TLA+ model of simple-kv

simple-kv is an in-memory key-value server over TCP. It speaks a subset of
RESP (GET, SET, MGET, MSET, DEL, GETALL, EXPIRE, EXPIREAT, TTL), keeps its data
in a hash table of its own, logs every write to an append-only file, and
rebuilds the table from that file when it starts. This directory holds its
formal model: TLA+ modules, TLC runs over small instances, and TLAPS proofs for
all instances.

## The system

| part (source) | state | operations | talks to |
|---|---|---|---|
| commands (`command.rs`) | none; a stored value is bytes and an optional deadline | parse a request; `apply_read`, `apply_write`; `to_bytes` for the log | key store; the clock (every expiry test reads it anew) |
| key store (`key_store.rs`) | buckets, count, hash seed | `insert`, `get`, `get_mut`, `del`, `iter`, internal `resize` | nobody |
| server state (`server.rs`) | key store and log behind one RwLock | `write` (append, then apply), `read`, `remove_expired`, `from_wal` | all of the above |
| append-only file (`append_only_file.rs`) | the file, its unsynced tail | `open`, `append`, `get_file_content_from_start`, `sync` | the operating system |
| sync thread (`server.rs`) | its own file handle | sleep, `sync`, forever; dies of a failed sync | the file |
| cleanup task (`server.rs`) | none | sleep, write lock, `remove_expired`, forever | server state |
| connections (`server.rs`) | one request reader each | read a request, parse, lock, run, answer, in a loop | server state, client |
| request decoder (`request.rs`, `util.rs`) | buffer, cursor, arguments so far, poisoned flag | feed, `decode_next`, `validate_eof` | connections; replay |
| response decoder (`response.rs`) | the same for answers, with nested arrays | the same | clients |
| configuration, entry point (`config.rs`, `main.rs`, `lib.rs`) | none | read the environment, start | |

What is hard here:

* **Time and the log.** Deadlines are absolute, but whether a key *is* expired
  is decided whenever somebody looks. EXPIREAT on an expired key removes it.
  The replay runs the same EXPIREAT again, at another time.
* **Deletions nobody logs.** The cleanup task removes expired keys from the
  table only. The log still holds them.
* **Crashes between and inside appends**, appends that fail half way, and
  records that were acknowledged but not yet synced.
* **A dead sync thread** that nobody notices.
* **Robin Hood probing.** Lookups give up early because of an invariant that
  insertion, backward-shift deletion and resize all have to maintain, over the
  end of the table as well.
* **Chunked input** to a decoder that keeps its place between reads.
* **One lock, many tasks**: EXPIRE's deadline is fixed before the lock is
  taken, MGET and GETALL read the clock once per key.

What makes each part correct:

* commands and server state: the log explains the store at every moment; a
  restart brings nothing back, loses nothing that has no deadline, and loses
  other live keys only in one known way; every record gets synced; every
  restart ends.
* key store: it is a map; every call returns; the Robin Hood invariant holds
  between any two rounds of its loops, so that no lookup misses a key that is
  there; a bucket stays free.
* connections: behind the lock and the table with its expired entries, clients
  meet a map in which a key is gone at its deadline; EXPIRE counts its seconds
  from a moment of the call; nobody waits for the lock forever, and every
  request of a client that takes its answers is answered.
* decoders: what comes out depends on the bytes alone and not on how reads cut
  them; nothing that is whole is waited for; nothing comes out after an error.
* the log as bytes: every logged command comes back as itself, a torn record
  ends the replay with an error, and nothing else that the server wrote does.

## Modules

| module | models | is checked by | proofs |
|---|---|---|---|
| `Commands` | `command.rs`: stored values, expiry, SET, MSET, DEL, EXPIREAT on a store; one round of the cleanup | through `ServerState`, `Connections` | `CommandsProofs` |
| `CommandParsing` | `command.rs`: requests to commands (`try_from`) and back (`to_bytes`) | through `Connections`, `ReplayLog` | in `ReplayLogProofs` |
| `CommandAnswers` | `command.rs`: the reads, and the answer of every command | through `Connections` | in `ConnectionsProofs` |
| `ServerState` | `server.rs` and `append_only_file.rs`: log, store, sync thread, cleanup, crashes, restart | `MCServerState` | `ServerStateProofs` |
| `ReplayLog` | the log byte by byte, torn anywhere, and the reader that replays it | `MCReplayLog` | `ReplayLogProofs` |
| `Connections` | `server.rs`: accept loop, one task per connection, the lock and its queue, the cleanup task | `MCConnections` | `ConnectionsProofs` |
| `ExpiringMap` | what the running server promises its clients | through `Connections` | `ConnectionsProofs` |
| `KeyStore` | `key_store.rs`, one action per round of a loop | `MCKeyStore` | `KeyStoreProofs` |
| `KeyMap` | what the key store promises: a map with one call at a time | through `KeyStore` | in `KeyStoreProofs` |
| `Resp`, `Responses` | bytes, lines, numbers and the answers as both decoders see them (`util.rs`, `response.rs`) | through the decoders | `RespProofs` |
| `RequestDecoder` | `request.rs`: the reader and its decoder, on bytes | `MCRequestDecoder`; through `ReplayLog` | `RequestDecoderProofs` |
| `ResponseDecoder` | `response.rs`: encoding, and the client's reader and decoder, on bytes | `MCResponseDecoder` | `ResponseDecoderProofs` |

`Option` holds the one constant `None`, which commands and decoders share.

How they fit. `ServerState` and `Connections` both EXTEND `Commands`: a store is
a function from keys to stored values or `None`. That the table of `KeyStore`
behaves as such a function is what its refinement of `KeyMap` shows.
`ServerState` takes a write as one step and looks at what crashes do to it;
`Connections` takes the log as an append that works or fails and looks at what
tasks do to one another: the write lock that `ServerState` takes for granted is
what `Connections!TypeOK` checks. `ServerState` takes a log as a list of
commands and torn records; `ReplayLog` composes `CommandParsing` with
`RequestDecoder` (it EXTENDS both) on the bytes of such a log and checks that
reading.
`Connections` takes a request as a whole; that the bytes of a socket give the
requests that were sent, however they are cut, is `RequestDecoder`'s.

### Commands and ServerState

A record of the log is the command it encodes (`to_bytes` and `try_from` are
inverse on commands, so no conversion is modelled), or `Torn`: what an append
that did not finish left. `Write(cmd)` is `ServerState::write` with a
successful append; it is one step because the write lock hides the state
between append and apply, and a kill between them leaves what a kill just after
leaves. `WriteFails` is the early return on a failed append that has written
something. `RemoveExpired` is a round of the cleanup task,
which reads the clock for each key and so may see a tick half way; `Sync` and
`SyncFails` a round of the sync thread. `Kill`, `KillInAppend` and
`PowerLoss(n, torn)` are the environment: a kill leaves the whole file, a power
loss any prefix that contains what was synced, perhaps with a torn record
behind it. `Start`, `ReplayStep`, `ReplayFails` and `ReplayDone` are `open`,
the loop of `restore_keystore`, its error return (which ends the process in
`from_wal`), and the rest of `serve`. `Tick` advances the clock between any two
other steps, so also between two steps of a replay.

Two variables are ghosts that no action of the program reads: `history[i]` is
the store right after record *i* was last applied, live or in a replay, and
`preCrash` the store clients last saw before the process died (after a power
loss: the store at the record boundary the disk kept).

Assumptions: the clock never goes back; the file system keeps a prefix of the
bytes nobody synced and does not reorder them; a torn record is always refused by
the decoder or the parser, whatever follows it. Of a torn record at the end of
the file that is proved in `ReplayLogProofs`, for arguments of any length. Of
one with more records behind it the run `short_log` checks it for arguments of
one byte, and `swallowed` shows that longer values make it false: with two torn
records in the file two bytes are enough, since a SET torn before its value takes
the first bytes of the next torn record for it. What `ServerState` shows is about
logs for which the assumption holds.

### CommandParsing, CommandAnswers, Connections and ExpiringMap

An argument is opaque but for two things: whether it is utf-8 and what number it
spells. `TryFrom` is `Command::try_from` with each parser's checks in their
order; `ToRequest` is `to_bytes` up to the framing. EXPIRE becomes an EXPIREAT
while it is parsed, by a sum that saturates.

A task of `handle_client_connection` goes through `ReadCommand` (a request is
taken and parsed by the clock of that moment; a refused one is answered at
once), `AskForLock`, `Grant`, `Log` or `LogFails`, one `Look` for each key of
MGET, GETALL or DEL, each with the clock of its own moment, `End`, and `Send`.
`ReadError` and `ReadEnd` are the two ends of a connection; a read may fail at any
time, whatever has arrived. After either nobody is left who reads, and what the
client does then is not modelled any more (`Listening`). The guard of the
lock is dropped in `End`, before the answer goes out. tokio's RwLock is modelled
as its documentation has it: one queue, first come, first served; readers
share, a writer is alone. `CleanerWakes`, `GrantCleaner` and `RemoveExpired` are
the cleanup; the scan may see a tick half way. `AcceptFails` ends `serve`, and
with it the runtime and all tasks.

`ExpiringMap` has no lock, no queue, no cleanup and no expired entries. The
refinement maps the table to `Live(store, clock)`, what shows of it now, and a
task to the call it is in; reading, parsing, waiting and the cleanup are
stutters. A call that reads several keys sees one map throughout, from which
keys may vanish with time between two looks and in no other way.

### Resp, RequestDecoder and ResponseDecoder

Both are on bytes, with the real ones for the framing. A behaviour draws a
*script*: requests (or responses) that were sent, then a tail that is empty, a
proper beginning of another one, or malformed, and the verdict expected for the
tail. The tail of a `RequestDecoder` script is the opening of one more request
(its count and some of its arguments, perhaps none of this) and then `rest`,
bytes that are neither a whole header nor a whole argument, and what these are
decides the verdict (`ScriptAssumption`). A header that is no utf-8 is given the
error of one that is no number, and a number too wide for a usize that of one which
is too long: the code has names of their own for them, and all of them poison the
decoder. `Read(n)` takes any number of the bytes that are there, so a stream is cut
at every place; `ReadFails` is a failed read between two others; `Call` is
the caller coming back for the next one, after an error too. The actions between are the
rounds of `decode_next`: header, one argument, take the request; the response
decoder parses a whole response anew, as the code does. The limits on array and
string length are constants, and so is the largest i64, `MaxI64`: a number that
is no i64 is an error of the response decoder wherever it stands.

`parse_response` calls itself, through `parse_array`, once for each array within
an array, and the stack ends that: `ParseUpTo[depth]` is the function that
`parse_response` computes with the stack for `depth` nested calls of it, written
with `ParseUpTo[depth - 1]` for the calls inside. A call that does not fit is
`Overflowed`, and the process is gone (`Panic`). `BytesUpTo[depth]` is
`to_bytes` in the same way, on `ResponsesUpTo[depth]`, the responses of that
depth at most. `MaxDepth` is the depth that the client's stack has room for;
`Utf8` is what `str::from_utf8` takes, and `Messages` what the server's errors
say, in that set because a `String` holds nothing else.

### ReplayLog

The file is `RequestDecoder`'s `stream`, here the bytes of the log instead of
those of a socket. `LogCommand` appends a whole record, `AppendFails` and
`KillInAppend` any proper part of one; `Start` makes a new reader, `ReadNext` is a
step of `RequestDecoder` on the file, a failed read among them, and
`ReplayRequest`, `ReplayFails` and `ReplayDone` are the loop of
`restore_keystore`. A kill may come in the middle of a replay, and a start that
failed may be tried again. Clock, syncs and power losses are left to `ServerState`.

`acknowledged`, `tears` and `behind` are ghosts: the commands whose append
succeeded, how many appends were torn, and whether anything was appended behind a
torn one. `script` is another: what lies in the file in `RequestDecoder`'s words,
the records and perhaps the opening of one more, for as long as nothing is behind
a torn record. No guard looks at it, and the proofs use it to say what the reader
has still to come. `RequestDecoder`'s own `Init` and `Call` are not used, so
`Scripts` is empty and `MaxCalls` zero in the runs.

### KeyStore

Each round of each loop is an action, so the invariant can be stated between
rounds. `hasher` is drawn once: any function from keys to `Hashes`. An entry's
stored hash is left out, being always the hash of its key. `Displace` is the
swap shared by `insert` and `insert_entry`; `index_of` and the identical loop
in `del` are `ProbeMiss`, `ProbeOn` and `Found`. `get_mut` includes the
assignment its caller makes through the reference. `KeyMap` keeps its map
unchanged until a call returns; `MapBefore` computes that map from the table
in the middle of a call: the new entry is left out, the entry carried on, the
entry taken out and the rest of the old table during a resize are put back.

## Runs

| run | instance | shows |
|---|---|---|
| `restart` | one key, two values, SET, DEL, MSET (same key twice), EXPIREAT 0..3, clock 0..2, 4 records | `TypeOK`, `Recoverable`, `NoResurrection`, `PersistentKeysSurvive`, `LossNeedsPassedDeadline` |
| `keys` | two keys, one value, DEL and MSET over both, EXPIREAT 0..2, clock 0..1, 3 records | the restart properties when commands touch several keys; `EventuallyDurable`, `RestoreTerminates` |
| `map` | three keys, two values, hashes 2, 3, 7, start capacity 2 (resizes to 4 and 8) | `KeyStore` implements `KeyMap`; `TypeOK`, `RobinHood`, `LoadBounded`, `MissMeansAbsent`; `EveryCallReturns` |
| `service` | two clients with a request each out of eight or malformed (EXPIRE with a near deadline, a saturated one and none), two keys, one with a deadline, clock 0..1; any read may fail | `Connections` implements `ExpiringMap`; `TypeOK` (the lock's discipline), `ExpireWindow`, `TtlAgreesWithGet`; `NobodyStarves`, `EveryRequestAnswered` |
| `requests` | up to two requests, then any of the tails; every cut, failed reads, calls after an error | `TypeOK`, `PlaceKept`, `DecodesWhatWasSent`, `NoWaitOnWholeRequest`, `PoisonLasts` |
| `responses` | the same for ten responses of every kind, arrays in arrays, the least and the largest i64 among them, and tails with numbers beyond | `BytesKept`, `DecodesWhatWasSent`, `NoWaitOnWholeResponse`, `PoisonLasts` |
| `short_log` | SET, MSET, DEL, EXPIREAT with one-byte keys (one is a line feed) and values, three appends, two of them torn anywhere; failed reads, kills during a replay, starts tried again | `AppliedIsAcknowledged`, `RefusedForAReason`, `TornLogRefused` (the case of it where the torn record is the last one is `TornTailRefused`, which holds of longer arguments too and is proved) |
| `restart_loss`, `torn_log`, `sync_failure` | as `restart` | violated: see Findings |
| `quoting` | an error whose message holds a CRLF, then an OK | violated: see Findings |
| `swallowed` | SET with a value of 18 bytes and DEL, three appends, one of them torn | violated: see Findings |

Why the bounds are enough. The shortest way to lose a key takes SET, EXPIREAT,
EXPIREAT and one tick; to resurrect one (with the ejection removed) SET,
EXPIREAT, a tick, EXPIREAT; four records leave room for one more command
before or behind. Keys do not influence one another except in MSET and DEL,
which the two-key run covers. A record count of 3 allows a torn record between
two good ones. In the table, 3 and 7 are the last bucket at capacity 4 and part
at 8, so clusters run over the end; the START_CAPACITY of 16 is scaled down, the
load limit of 3/4 is kept; larger tables are the matter of the proofs. In
`service` one request per client, two in all, is what a race takes (a reader and
a writer, two writers, a reader among the cleanup's rounds); after its answer a
task is back where it was before, with nothing of the call left (`NewTask`), so a
second request of one client meets what a request of the other one meets. One
tick puts the deadline of the second key before, between and behind any two
steps, and the arrival of an `EXPIRE j 1`, its parsing and its end on either side of
it, so that a deadline fixed before the wait for the lock differs from one fixed
behind it; `EXPIRE j 9` asks for a sum that saturates. Three requests in a stream
would add nothing to two, since after taking one the decoder is in the state of a
new one but for the bytes it has left. In
`short_log`, two torn records and a good one come in every order.

Bounds: `MaxClock` stops the clock, `MaxWal` and `MaxAppends` the appends,
`MaxTears` those that tear, `MaxRequests` the requests of each client,
`MaxCalls` the calls of a reader; `MaxTimestamp` stands for `u64::MAX`. They
appear in guards of `Tick`, `Write`, `WriteFails`, `KillInAppend`, `LogCommand`,
`Tear`, `ClientSends` and `Call`. `ReadChunkSize` is larger than the streams of
the decoders' runs, so a read may take all of them, and smaller than the logs of
`short_log`. `MaxCapacity` is the length at which `Vec::with_capacity` panics.
`MaxDepth` is 3: `GETALL` answers with pairs in an array, and a tail with one array
more than that overflows the stack.

Fairness. `ServerState!LiveSpec` assumes weak fairness of `Sync` (a thread of
its own, looping with a sleep and taking no lock) and of the replay (a loop
without waits). Nothing is assumed of clients, the clock, the cleanup task or
crashes; a crash or a dead sync thread is an accepted outcome of
`EventuallyDurable`. `KeyStore!Spec` assumes weak fairness of the running loop.
`Connections!LiveSpec` assumes weak fairness of what a task does by itself (the
runtime polls tasks that can run), of its read where something or the end of the
input has arrived (that it fails is never relied on), of the lock's hand-over to the head of its
queue, and of `Send` for the clients in `Attentive` only: a client that never
takes its answer may keep its own task in `send_response` for ever, and shall
keep nobody else. No client owes anybody a request, the cleanup need not wake and
accept may fail.

Every property has a mutant in PROJECT.json: a definition changed as a
plausible bug would change it (an unlogged DEL, a truncated file, a replay one
record short, an ejection left out, a sync thread without its loop, no swap, no
backward shift, a late resize, a lock given up between two keys or kept over the
answer, a number of seconds taken for a deadline, a logged deadline refused
because it has passed, a command applied whose append failed, a decoder that
starts an argument over or recovers from poison), under which the property fails.

## Findings

* `restart_loss`: a live key can be lost by a restart. SET k, EXPIREAT k 1,
  EXPIREAT k 3 at time 0; at time 1 the key is live with deadline 3; replayed at
  time 1, the second EXPIREAT finds deadline 1 passed and ejects the key.
* `torn_log`: a record that a crash or a failed append left incomplete makes
  every later start panic. That `restore_keystore` refuses such a log is what its
  test asks for (`server.rs:394`); that nothing ever repairs the file is not.
* `sync_failure`: a failed sync ends only the sync thread; the server goes on
  acknowledging writes.
* `quoting`: an error message that quotes a CRLF ends early on the wire; the
  rest of it is read as further responses.
* `swallowed`: an append that failed after its header is not taken back; if
  it announced a long value, the next record becomes that value, the replay ends
  well, and the store is not that of the acknowledged commands.

A known limit that no run states: TTL answers a deadline `as i64`. Beyond the
largest i64, which EXPIRE's saturated sum reaches, the answer runs into the
markers -1 and -2. `AsI64` models it and `TtlAgreesWithGet` excludes such
deadlines. Another: one failed accept ends the server. `AcceptFails` models it, and
every property takes a stopped server as an outcome.

## Proofs

`CommandsProofs` proves what the operators of `Commands` return, for every
choice of keys, values and argument lists. `ServerStateProofs` proves

* `TypeCorrect`: `Spec => []TypeOK`;
* `LogExplainsStore`: `Spec => []Recoverable`;
* `RestartsResurrectNothing`: `Spec => NoResurrection`;
* `RestartsKeepPersistentKeys`: `Spec => PersistentKeysSurvive`;
* `LogIsTimely`: `Spec => []Timely`, an invariant over the deadlines in the log;
* `RestartsLoseOnlyPassed`: `Spec => LossNeedsPassedDeadline`.

They hold of the model for any sets of keys and values, any argument lists and any
bounds, under the named assumptions of the two modules (`None` is neither a deadline
nor a stored value; the lists are sequences over keys and values; the bounds
are natural numbers). What they say of the program they say of logs in which every
torn record is refused, whatever follows it, since that is how the model reads a log:
of logs with no torn record or with one at the end, and of others as long as no
torn record announces a value long enough to take up what lies behind it.

The argument. `NoResurrection` speaks of one step, the end of a restart, and is
not inductive. What carries it is a relation between stores, `Agrees(restored,
original, now)`: whatever shows in `restored` was in `original`, and whatever
has no deadline in `original` is in `restored`. `Recoverable` says that every
record, replayed now on the store its predecessors left, agrees with the store
it left when it was last applied, and that the last of these agrees with the
store clients see. It needs three facts about commands. Agreement is transitive
(`AgreesTransitive`), so restarts may be repeated. It survives the passing of
time (`AgreesLater`, `EffectLater`): a replay at a later moment can only eject
more. And commands are monotone in it (`EffectMonotone`): a replay step
that left less than before leaves the later records explained. Ejecting
expired keys in EXPIREAT is exactly what makes `EffectMonotone` true of an
expired entry that the cleanup task had removed.

`LossNeedsPassedDeadline` is about what a replay *keeps*, and agreement says
nothing of live keys with a deadline. `Timely` does, key by key and record by
record. `Deadlines(key)` are the deadlines that the log has asked for since the
last record that sets the key anew or deletes it; `Fits(value, expected, log,
i, key, now)` says that a value's deadline is one of those in the first `i`
records, and that the value is the expected one as long as all of them lie
ahead. `Timely` says that what each record left fits its `Outcome`, which looks
at no clock, and that the clients' store fits what the last record left. Time
can only make the condition fail (`FitsLater`), a record fits whenever it is
applied, live or in a replay (`RecordFits`), and the cleanup removes a key only
when a deadline of its own has passed (`TimelyRemoved`). At the end of a restart
both the store before the crash and the restored one fit the same outcome.

`KeyStoreProofs` proves, for every set of keys and values, every function from
keys to natural numbers as the hash, every start capacity of at least two and
any number of resizes,

* `OrderKept`: `Spec => []RobinHood`;
* `MissesAreRight`: `Spec => MissMeansAbsent`;
* `LoadKept`: `Spec => []LoadBounded`;
* `TableTypeCorrect`: `Spec => []TypeOK`.

The capacity need not be a power of two for any of this: the mask of
`get_bucket_index` is the remainder only because it is one, and that is the one
thing the model takes for granted about it.

The argument. `RobinHood` is stated strongly enough to be inductive: beside the
order of the table (`WellPlaced`: every entry sits where its hash and psl say,
and every bucket its probe passes holds an entry at least as far from home) it
says what the loops know of the entry in hand, of the probe and of the old
table. `LookupSound` draws from it that a probe that gives up has seen enough;
insertion needs that as much as lookups do, since it decides there that its key
is new. A bucket changes in five ways, each with its lemma: an entry is put
down (`PutKeepsOrder`) and the one it displaces carried on (`PutCarriesOn`), a
value is replaced, a hole is opened (`TakeKeepsOrder`), moved
(`ShiftKeepsOrder`) and closed (`ShiftClosesHole`). The last two rest on the
arithmetic of neighbouring slots over the end of the table (`SlotNext`,
`SlotPrevious`). The count needs the order (a shift must move its entry into an
empty bucket), and the types need the count (`len - 1` must not run below zero),
so the three are proved together (`InductiveInvariant`).

On top of that it proves

* `TableIsMap`: `Spec => ImplementsKeyMap`: the table is a map, step by step.

Assumed, beside what the invariants need, is that `None` is neither a value nor
an operation (the program has an `Option` for the one and a call stack for the
other). The argument. `MapBefore`, the map in the middle of a call, reads each
key's value off the buckets, the rest of the old table and the entry in hand
with a CHOOSE; it is only a function of the state's contents if each key is
stored once, and that is part of `RobinHood`. The lemmas first say what each way
of changing a bucket does to what is stored (`PlaceStores`, `DisplaceStores`,
`TakeStores`, `ShiftBackStores` and so on), then that a round which returns
nothing leaves `MapBefore` alone (`RoundKeeps`, `MovingKeeps`, `ProbeKeeps`,
`DelKeeps`) and that one which returns makes the step of `KeyMap` and answers
with what the key had (`ReturnAnswers` and one lemma for each kind of return).
A return without a hit is where `MissMeansAbsent` comes in. `CallKept` is the
part of the invariant that the order does not give: until an insertion returns
its new entry is in hand or stored, the entry it carries on is stored nowhere
else, and what `del` took out was its own key.

`ConnectionsProofs` proves, for any clients, any finite set of keys, any values,
requests and initial stores and any bounds,

* `LockKeepsDiscipline`: `Spec => []TypeOK`: who holds the lock is in a phase
  that needs it, a writer holds it alone, nobody is in the queue twice or in the
  queue and the lock at once;
* `ServerIsExpiringMap`: `Spec => ImplementsExpiringMap`, the refinement;
* `TtlTellsWhatGetFinds`: `Spec => TtlAgreesWithGet`: -2 exactly where GET finds
  nothing, -1 exactly where the key has no deadline, and else the deadline itself
  (a moment, not the seconds left): until then GET finds the key, and no longer. Of
  deadlines that are an i64;
* `ExpireCountsFromTheRequest`: `Spec => ExpireWindow`.

It assumes `ConnectionAssumption` and `RequestAssumption` (the requests are
lists of arguments, made of the instance's own keys, values and argument lists;
TLC evaluates both on every run of `MCConnections`), beside the assumptions of
`Commands`.

The argument. The refinement needs to know that a task's phase, its command, the
looks it still has to take and its place at the lock fit together, and that
nobody writes while somebody reads. Neither follows from the other, so `IInv`
is `DataOK` (types of clock, store, and input), `TasksOK` (what a task holds in
each phase: a running one a command, the keys it still has to look at and what
the others gave), `LockOK` (the lock against the phases of all tasks) and
`QueueOK`. Each action changes one task, one place in the queue and one in the
lock; the lemmas `TaskUpdate`, `LockTaken`, `LockDropped`, `LockKept`,
`QueueJoined`, `QueueLeft` take one of these each, and one lemma per action
says what its task is afterwards. The simulation then goes action by action
(`GrantSeen` to `SendSeen`, `StepSeen`): a reader that gets the lock, or a
writer that has logged its command, begins its call; nobody writes at that
moment, because `LockOK` puts every running task in the lock (`AloneToWrite`);
`Look`, `End` and the answer are those of the map; everything else changes
neither `Live(store, clock)` nor a call. That the same answers come from the
table and from the map is a matter of the commands alone and proved in
the first part of the module: what a look gathers (`LiveGathered`), what it removes
(`LiveAfterLook`), what a command leaves (`LiveAtEnd`) and answers
(`LiveAnswer`) are the same on a store and on what shows of it; the cleanup
removes what does not show (`LiveCleaned`), and a tick takes from the map what
it takes from the table (`LiveLater`).

`TtlAgreesWithGet` follows from `IInv`, which has the types of the store and of the
clock: a TTL reads both at its end, and what its answer says of every later moment
follows from the deadline alone (`TtlTells`). `ExpireWindow` relates the end of a
call to its arrival, so its invariant `TimedOK` carries the time of arrival along: a task's command is what
its request parsed to at a moment between the arrival and now (`Parsed`), from
`ReadCommand`, which parses by the clock of that moment, over the wait for the
lock to the end. Saturation keeps the sum monotone.

`RequestDecoderProofs` proves, for any limits, any size of the reads, any number
of requests and calls, and any bytes in the arguments,

* `TypeCorrect`: `Spec => []TypeOK`;
* `KeepsItsPlace`: `Spec => []PlaceKept`;
* `RoundTrip`: `Spec => []DecodesWhatWasSent`: `to_bytes` and the decoder are
  inverse to each other, however the bytes are cut;
* `NeverWaitsInVain`: `Spec => []NoWaitOnWholeRequest`;
* `PoisonIsForGood`: `Spec => PoisonLasts`.

It assumes `SizeAssumption` and `ScriptAssumption`. The latter says what a stream
is: requests within the limits as `to_bytes` writes them, perhaps the opening of
one more, then bytes that do not parse at the place where they stand. Nearly every
stream of bytes is of that form. The exceptions are headers whose number
`to_bytes` would have spelled otherwise and the decoder takes all the same, `*05`
or `$+2`; where these come first the theorems say nothing.

The argument. None of the properties is inductive, because none says what is
still to come. `IInv` does: with `s` the script and `taken` the requests that
have come out, `BytesAfter(s, taken)` are all the bytes behind them,
`CountAfter` and `ArgumentsAfter` the header and the arguments that these open
with. The buffer is a beginning of `BytesAfter`; `Place` says that the arguments
taken are the first of `ArgumentsAfter` and that the cursor stands where their
bytes end; `Waits` that a reader reads only when a parsing step had too few bytes;
`Ends` is the second half of `DecodesWhatWasSent`. What a parsing step makes of a
*beginning* of the bytes to come is then all there is to know. Where a header is to
come, it is read as that header or waited for (`HeaderOfNext`), where an argument
is to come, the same (`ArgumentOfNext`); where neither is, what is there is waited
for or refused as the whole rest would be (`HeaderStays`, `CStrStays`). These rest
on facts about the bytes: a number's digits contain no CR and read as that number,
so a line ends where it was ended; the length of an argument, not its bytes, says
where it ends, so a CRLF in it does no harm; and the bytes of more arguments, or
more requests, begin with those of fewer (`OpeningGrows`, `StreamGrows`).

`ResponseDecoderProofs` proves, for any limits, any depth of the stack, any size of
the reads and any script,

* `KeepsTheBytes`: `MessagesAreLines => (Spec => []BytesKept)`;
* `RoundTrip`: `MessagesAreLines => (Spec => []DecodesWhatWasSent)`: `to_bytes` and
  `parse_response` are inverse to each other, arrays in arrays included, however
  the bytes are cut;
* `NeverWaitsInVain`: `MessagesAreLines => (Spec => []NoWaitOnWholeResponse)`;
* `PoisonIsForGood`: `Spec => PoisonLasts`.

`MessagesAreLines` says that no error message the server sends holds a CRLF. The
code does not see to that, and without it the first three are false: that is the
run `quoting`. It is a hypothesis of the theorems and no assumption of the module, so
the run and the theorems are about one model. The last theorem does without it: it
has an invariant of its own (`PInv`), that an error in the bytes, once it was
returned, has poisoned the decoder. Beside that they assume `SizeAssumption`,
`MessageAssumption` and `ScriptAssumption`, which TLC evaluates in both runs.

The argument. What holds of `parse_response` at each depth is said of a function
`parse`, and carried from one depth to the next (`ParserAnswers`, `BytesType`,
`ParserReads`). `Answers(parse)`: what it returns, and that what it takes is at
least a byte and at most what is there. `Steady(parse)`: once it does not wait any
more, more bytes behind do not change what it says; this is why it does no harm
that the decoder parses from the start of the buffer again and again. `Reads(parse,
encoding, R)`: on the bytes that `encoding` gives a response of `R` it returns that
response and takes those bytes. For arrays (`ArrayReads`, `ElementsRead`) the
elements are read one after the other from what the ones before have left, and
`Steady` makes up for the bytes of the others behind each. The invariant `IInv`
is that of `RequestDecoder` with less to say, since this decoder keeps no place: the
buffer is a beginning of `BytesAfter`, the bytes behind the responses that have come
out; a wait is a wait on a buffer that cannot be parsed; and what ended the
stream is the script's verdict. By `Steady`, a beginning of `BytesAfter` that can be
parsed at all gives what the whole would, which is the next response (`AfterSome`) or
the verdict on the tail (`AfterAll`).

`ReplayLogProofs` proves, for any set of logged commands, arguments of any bytes and
any length within the limits, any size of the reads and any number of appends,
tears, kills and restarts,

* `CommandComesBack`: `try_from` takes back what `to_request` made of a command,
  for every command and whenever it is parsed;
* `WholeLogReplayed`: `LogSpec => [](~behind => AppliedIsAcknowledged)`;
* `WholeLogAccepted`: `LogSpec => []RefusedForAReason`: no start is refused but for
  a torn record or a failed read of the file;
* `TornTailIsRefused`: `LogSpec => TornTailRefused`: a log that ends in a torn
  record never comes to a good end, wherever it was torn.

It assumes `LogAssumption` (arguments that differ have bytes that differ; what is
logged is a write, came in as a request and is within the decoder's limits), the
assumptions of `CommandParsing` and of `Commands`, and `SizeAssumption`. `~behind`
is needed: in the run `swallowed` a record behind a torn one completes it, and the
store is not that of the acknowledged commands.

The argument. The replay runs the actions of `RequestDecoder`, so its invariant
`IInv` holds there too, provided that the file is a script. A log of whole records
is one (`LogIsScript`). So is one with a part of a record at its end: the cut is in
the header of the request or in one of its arguments (`CutIsInArgument`), and what
is there of that one is waited for, so that the verdict at the end of the file is
`UnexpectedEof` (`TornIsScript`). `LInv` says that the file is such a script as
long as nothing is behind a torn record, that its requests are those of the
acknowledged commands, and of a replay (`Replaying`) that `IInv` holds and what the
reader has delivered is what was applied, and at most one request more. A request
that comes out is then the next acknowledged command's (`NextOfLog`) and parses to
that command; the end of the file comes out only when all have (`LastOfLog`) and
only if the verdict says so, which it does when no record is torn. A read that fails
is the third thing the reader may come back with, and the only one that refuses a
whole log.

`RespProofs` proves what `Resp` computes, for all inputs: what `ParseLine` finds,
that `UsizeValue` reads what `Decimal` writes, and what FlattenSeq makes of
sequences of bytes. `Decimal`, `DecimalValue` and the `taken` of `RequestsIn` are
recursive functions, and FlattenSeq is a fold; each is first shown to exist
(`SpellsExists`, `UnrollsExists`, `FlattenJoins`) and then unfolded. The
induction this takes goes over sets of natural numbers (`Counting`, from the
least element of a set, `Least`), since the library's induction theorems take
an operator, which the provers cannot instantiate.

### What is only model-checked

* What a replay makes of records behind a torn one: `TornLogRefused`, and
  `AppliedIsAcknowledged` from there on. `short_log` checks both for arguments of
  one byte; `swallowed` shows that they do not hold of longer ones, so a theorem
  would be about a class of logs.
* Liveness under fairness (`EventuallyDurable`, `RestoreTerminates`,
  `EveryCallReturns`, `NobodyStarves`, `EveryRequestAnswered`), and with it
  everything that needs ENABLED.

## Not modelled

* Configuration, entry point, logging, the wording of errors, `Display`: no
  state or no logic.
* A wall clock that is set back: an expired key that is still in the table would
  show again. Every property here assumes a clock that never goes back.
* `hash + psl` in usize: a hash close to `usize::MAX` overflows, which panics in
  a debug build. The models' hashes are natural numbers.
* How much stack one call of `parse_response` takes: a property of the build;
  the model has the number of calls that fit (`MaxDepth`).
* What leads to a failed accept: it is outside the program. That one failed
  accept ends the server is in `AcceptFails`.

## Plan

Done: all components that hold state, with their runs; the proofs of every safety
property that the runs check of `ServerState`, `KeyStore` (with `KeyMap`),
`Connections` (with `ExpiringMap`), `RequestDecoder` and `ResponseDecoder`, and of
`ReplayLog` up to what is behind a torn record. What is left: `ServerState`
implements `ExpiringMap` between restarts.
