----------------------------- MODULE ServerState -----------------------------
(***************************************************************************)
(* The store, its append-only file and what crashes do to them (server.rs, *)
(* append_only_file.rs).                                                   *)
(*                                                                         *)
(* A write appends its command to the file and only then applies it, both  *)
(* under the write lock, so the order of the file is the order of the      *)
(* applications.  A thread of its own syncs the file now and then.  The    *)
(* cleanup task takes expired keys out of the table and logs nothing.  A   *)
(* restarted process replays the file from its start: it applies the same  *)
(* commands again, but under the clock of the replay.                      *)
(*                                                                         *)
(* Write is one step: the lock hides the state between append and apply,   *)
(* and a kill in between leaves the same file, and the same lost memory,   *)
(* as a kill just after.                                                   *)
(*                                                                         *)
(* A torn record is what an append that did not finish leaves in the file. *)
(* Modelled keys and values are a single byte long, which makes the        *)
(* request decoder or the command parser refuse every torn record whatever *)
(* follows it (a longer payload can swallow the record behind it).  The    *)
(* clock never goes back.                                                  *)
(***************************************************************************)
EXTENDS Commands

CONSTANTS
    MaxClock,    \* bound: the clock stops here
    MaxWal       \* bound: no append beyond this many records

ASSUME BoundAssumption == MaxClock \in Timestamps /\ MaxWal \in Nat

VARIABLES
    clock,       \* get_unix_timestamp()
    wal,         \* the records of the append-only file, in order
    synced,      \* how many of them sync_all has put on the disk
    store,       \* the key store of the running or restoring process
    phase,       \* what the process is doing
    pos,         \* while restoring: how many records have been replayed
    syncer,      \* whether the sync thread is still there
    history,     \* ghost: the store right after record i was last applied
    preCrash     \* ghost: the store clients last had before the process died

vars == <<clock, wal, synced, store, phase, pos, syncer, history, preCrash>>

Torn == [op |-> "TORN"]

Records == WriteCommands \cup {Torn}

TypeOK ==
    /\ clock \in 0 .. MaxClock
    /\ wal \in Seq(Records)
    /\ synced \in 0 .. Len(wal)
    /\ store \in Stores
    /\ phase \in {"running", "restoring", "down", "failed"}
    /\ pos \in 0 .. Len(wal)
    /\ syncer \in {"alive", "dead"}
    /\ history \in Seq(Stores)
    /\ Len(history) = Len(wal)
    /\ preCrash \in Stores

\* The store that records 1 .. i left behind, by the given stores.
After(stores, i) == IF i = 0 THEN EmptyStore ELSE stores[i]

\* An empty file, a server about to open it.
Init ==
    /\ clock = 0
    /\ wal = <<>>
    /\ synced = 0
    /\ store = EmptyStore
    /\ phase = "restoring"
    /\ pos = 0
    /\ syncer = "dead"
    /\ history = <<>>
    /\ preCrash = EmptyStore

-----------------------------------------------------------------------------
(* The running server.                                                     *)

Tick ==
    /\ clock < MaxClock
    /\ clock' = clock + 1
    /\ UNCHANGED <<wal, synced, store, phase, pos, syncer, history, preCrash>>

\* Mutant: DEL is not logged.
WriteDelUnlogged(cmd) ==
    /\ phase = "running"
    /\ Len(wal) < MaxWal
    /\ store' = ApplyWrite(cmd, store, clock)
    /\ IF cmd.op = "DEL"
       THEN UNCHANGED <<wal, history>>
       ELSE /\ wal' = Append(wal, cmd)
            /\ history' = Append(history, store')
    /\ UNCHANGED <<clock, synced, phase, pos, syncer, preCrash>>

\* Mutant: only the first argument of DEL or pair of MSET gets logged.
WriteFirstArgument(cmd) ==
    /\ phase = "running"
    /\ Len(wal) < MaxWal
    /\ wal' = Append(wal, CASE cmd.op = "DEL"  -> [cmd EXCEPT !.keys = <<@[1]>>]
                            [] cmd.op = "MSET" -> [cmd EXCEPT !.entries = <<@[1]>>]
                            [] OTHER           -> cmd)
    /\ store' = ApplyWrite(cmd, store, clock)
    /\ history' = Append(history, store')
    /\ UNCHANGED <<clock, synced, phase, pos, syncer, preCrash>>

\* ServerState::write when the append succeeds: log, then apply.
Write(cmd) ==
    /\ phase = "running"
    /\ Len(wal) < MaxWal
    /\ wal' = Append(wal, cmd)
    /\ store' = ApplyWrite(cmd, store, clock)
    /\ history' = Append(history, store')
    /\ UNCHANGED <<clock, synced, phase, pos, syncer, preCrash>>

\* ServerState::write when the append fails: the client gets an error and the
\* store stays as it was.  write_all may have put part of the record in the
\* file before it failed, and nothing takes that part out again.  (A failure
\* that left the file alone changes nothing.)
WriteFails ==
    /\ phase = "running"
    /\ Len(wal) < MaxWal
    /\ wal' = Append(wal, Torn)
    /\ history' = Append(history, store)
    /\ UNCHANGED <<clock, synced, store, phase, pos, syncer, preCrash>>

\* One round of the cleanup task.  It reads the clock for each key: a tick
\* during the scan may still catch a key or come too late for it.  Nothing is
\* logged.
RemoveExpired(later, gone) ==
    /\ phase = "running"
    /\ later \in clock .. MaxClock
    /\ ExpiredKeys(store, clock) \subseteq gone
    /\ gone \subseteq ExpiredKeys(store, later)
    /\ clock' = later
    /\ store' = RemoveKeys(gone, store)
    /\ UNCHANGED <<wal, synced, phase, pos, syncer, history, preCrash>>

\* Mutant: the sync thread has no loop.
SyncOnce ==
    /\ phase = "running"
    /\ syncer = "alive"
    /\ synced = 0
    /\ synced' = Len(wal)
    /\ UNCHANGED <<clock, wal, store, phase, pos, syncer, history, preCrash>>

\* One round of the sync thread.
Sync ==
    /\ phase = "running"
    /\ syncer = "alive"
    /\ synced' = Len(wal)
    /\ UNCHANGED <<clock, wal, store, phase, pos, syncer, history, preCrash>>

\* sync_all fails: the expect panics, which ends this thread and no other.
SyncFails ==
    /\ phase = "running"
    /\ syncer = "alive"
    /\ syncer' = "dead"
    /\ UNCHANGED <<clock, wal, synced, store, phase, pos, history, preCrash>>

-----------------------------------------------------------------------------
(* Crashes.                                                                *)

\* What the process held in memory is gone.
LoseMemory ==
    /\ phase' = "down"
    /\ store' = EmptyStore
    /\ pos' = 0
    /\ syncer' = "dead"

\* The store a client could last see, or will see once the replay is over.
ClientStore == IF phase = "running" THEN store ELSE preCrash

\* The process dies; the file stays as the operating system has it.
Kill ==
    /\ phase \in {"running", "restoring"}
    /\ LoseMemory
    /\ preCrash' = ClientStore
    /\ UNCHANGED <<clock, wal, synced, history>>

\* The process dies inside an append.
KillInAppend ==
    /\ phase = "running"
    /\ Len(wal) < MaxWal
    /\ LoseMemory
    /\ preCrash' = store
    /\ wal' = Append(wal, Torn)
    /\ history' = Append(history, store)
    /\ UNCHANGED <<clock, synced>>

\* The machine loses power: some records nobody synced yet are gone, and the
\* first of the lost ones may be there in part.
PowerLoss(n, torn) ==
    /\ n \in synced .. Len(wal)
    /\ torn => n < Len(wal)
    /\ LoseMemory
    /\ preCrash' = IF n = Len(wal) THEN ClientStore ELSE After(history, n)
    /\ wal' = SubSeq(wal, 1, n) \o (IF torn THEN <<Torn>> ELSE <<>>)
    /\ history' = SubSeq(history, 1, n) \o (IF torn THEN <<After(history, n)>> ELSE <<>>)
    /\ synced' = Len(wal')
    /\ UNCHANGED clock

-----------------------------------------------------------------------------
(* Restart: from_wal and restore_keystore.                                 *)

\* Mutant: the file is opened with truncate(true).
StartTruncating ==
    /\ phase \in {"down", "failed"}
    /\ phase' = "restoring"
    /\ wal' = <<>>
    /\ history' = <<>>
    /\ synced' = 0
    /\ pos' = 0
    /\ store' = EmptyStore
    /\ UNCHANGED <<clock, syncer, preCrash>>

\* open keeps what the file holds; the replay starts from an empty table.
Start ==
    /\ phase \in {"down", "failed"}
    /\ phase' = "restoring"
    /\ pos' = 0
    /\ store' = EmptyStore
    /\ UNCHANGED <<clock, wal, synced, syncer, history, preCrash>>

\* Mutant: the reader drops the request behind the one it returns.
ReplayStepSkipping ==
    /\ phase = "restoring"
    /\ pos < Len(wal)
    /\ wal[pos + 1] # Torn
    /\ pos' = pos + 2
    /\ store' = ApplyWrite(wal[pos + 1], store, clock)
    /\ history' = [history EXCEPT ![pos + 1] = store']
    /\ UNCHANGED <<clock, wal, synced, phase, syncer, preCrash>>

\* One round of restore_keystore's loop: the command runs as it did when a
\* client sent it, under today's clock.
ReplayStep ==
    /\ phase = "restoring"
    /\ pos < Len(wal)
    /\ wal[pos + 1] # Torn
    /\ pos' = pos + 1
    /\ store' = ApplyWrite(wal[pos + 1], store, clock)
    /\ history' = [history EXCEPT ![pos + 1] = store']
    /\ UNCHANGED <<clock, wal, synced, phase, syncer, preCrash>>

\* Mutant: a request that does not parse counts as the end of the file.
ReplayFailsAsEnd ==
    /\ phase = "restoring"
    /\ pos < Len(wal)
    /\ wal[pos + 1] = Torn
    /\ phase' = "running"
    /\ syncer' = "alive"
    /\ UNCHANGED <<clock, wal, synced, store, pos, history, preCrash>>

\* Mutant: a request that does not parse is read again.
ReplayFailsRetrying ==
    /\ phase = "restoring"
    /\ pos < Len(wal)
    /\ wal[pos + 1] = Torn
    /\ UNCHANGED vars

\* read_next or try_from fails: restore_keystore returns the error and the
\* expect in from_wal ends the process.
ReplayFails ==
    /\ phase = "restoring"
    /\ pos < Len(wal)
    /\ wal[pos + 1] = Torn
    /\ phase' = "failed"
    /\ store' = EmptyStore
    /\ pos' = 0
    /\ UNCHANGED <<clock, wal, synced, syncer, history, preCrash>>

\* Mutant: the loop ends with the last request unapplied.
ReplayDoneEarly ==
    /\ phase = "restoring"
    /\ pos + 1 >= Len(wal)
    /\ phase' = "running"
    /\ syncer' = "alive"
    /\ UNCHANGED <<clock, wal, synced, store, pos, history, preCrash>>

\* The end of the file: the server takes connections and the sync thread runs.
ReplayDone ==
    /\ phase = "restoring"
    /\ pos = Len(wal)
    /\ phase' = "running"
    /\ syncer' = "alive"
    /\ UNCHANGED <<clock, wal, synced, store, pos, history, preCrash>>

-----------------------------------------------------------------------------
Next ==
    \/ Tick
    \/ \E cmd \in WriteCommands : Write(cmd)
    \/ WriteFails
    \/ \E later \in 0 .. MaxClock, gone \in SUBSET Keys : RemoveExpired(later, gone)
    \/ Sync
    \/ SyncFails
    \/ Kill
    \/ KillInAppend
    \/ \E n \in 0 .. MaxWal, torn \in BOOLEAN : PowerLoss(n, torn)
    \/ Start
    \/ ReplayStep
    \/ ReplayFails
    \/ ReplayDone

Spec == Init /\ [][Next]_vars

\* The sync thread loops for as long as it lives, and nothing blocks the
\* replay.  Clients, the clock and crashes owe nobody a step.
Fairness == WF_vars(Sync) /\ WF_vars(ReplayStep \/ ReplayFails \/ ReplayDone)

LiveSpec == Spec /\ Fairness

-----------------------------------------------------------------------------
(* Properties.                                                             *)

Completed == phase = "restoring" /\ phase' = "running"

(* Replaying the log brings no key back: a key a client finds right after a
   restart held the same value under the same deadline when the old process
   died, although the cleanup task logs none of its deletions and the replay
   judges every EXPIREAT by a later clock (restore_keystore,
   eject_if_expired). *)
NoResurrection ==
    [][Completed => \A key \in Keys :
           Visible(store', key, clock) => store'[key] = preCrash[key]]_vars

(* A key without a deadline comes through every crash and restart with its
   value, whatever deadlines it had in earlier lives (write logs before it
   applies; open keeps the file; the replay reads it to its end). *)
PersistentKeysSurvive ==
    [][Completed => \A key \in Keys :
           Persistent(preCrash, key) => store'[key] = preCrash[key]]_vars

\* Whether a record gives key a new life or ends the one it has.
Resets(record, key) ==
    CASE record.op = "SET"  -> record.key = key
      [] record.op = "MSET" -> \E i \in DOMAIN record.entries :
                                   record.entries[i][1] = key
      [] record.op = "DEL"  -> \E i \in DOMAIN record.keys :
                                   record.keys[i] = key
      [] OTHER              -> FALSE

\* The deadlines the log asks for in the present life of key.
Deadlines(key) ==
    {wal[i].at : i \in {j \in DOMAIN wal :
        /\ wal[j].op = "EXPIREAT"
        /\ wal[j].key = key
        /\ \A l \in j + 1 .. Len(wal) : ~Resets(wal[l], key)}}

(* The only live keys a restart may lose are those for which the log holds a
   deadline that has passed by now and that a later EXPIREAT had replaced in
   time: apply_expire_at compares with the clock of the replay. *)
LossNeedsPassedDeadline ==
    [][Completed => \A key \in Keys :
           /\ Visible(preCrash, key, clock)
           /\ \A deadline \in Deadlines(key) : deadline > clock
           => store'[key] = preCrash[key]]_vars

(* While the process and its sync thread live, every record gets synced in
   the end (spawn_sync_thread). *)
EventuallyDurable ==
    \A n \in 1 .. MaxWal :
        phase = "running" /\ Len(wal) >= n
            ~> synced >= n \/ phase # "running" \/ syncer = "dead"

(* Every restart comes to an end, serving or refusing (restore_keystore). *)
RestoreTerminates == phase = "restoring" ~> phase # "restoring"

(* What the restart tests say of the program
   (key_store_state_survives_server_restart,
   expire_deadline_survives_server_restart): a key that is live now and was
   there when the process died is there again after the restart. *)
StateSurvivesRestart ==
    [][Completed => \A key \in Keys :
           Visible(preCrash, key, clock) => store'[key] = preCrash[key]]_vars

(* What the expect in from_wal says: the file can always be replayed. *)
RestoreSucceeds == phase # "failed"

(* What the comment on AppendOnlyFile::sync says: a failing sync is a panic
   of the program. *)
SyncFailureStopsServer == phase = "running" => syncer = "alive"

-----------------------------------------------------------------------------
(* The inductive invariant behind NoResurrection and PersistentKeysSurvive. *)

\* restored is an acceptable reconstruction of original: it shows nothing
\* that was not there, and it has every value without a deadline.
Agrees(restored, original, now) ==
    \A key \in Keys :
        /\ Visible(restored, key, now) => restored[key] = original[key]
        /\ Persistent(original, key) => restored[key] = original[key]

\* What a record does to a store; a torn one was never applied.
Effect(record, before, now) ==
    IF record = Torn THEN before ELSE ApplyWrite(record, before, now)

\* The record, replayed now on the store before it, reconstructs the one after.
Explained(record, before, after, now) ==
    Agrees(Effect(record, before, now), after, now)

(* Every record, replayed now on the store its predecessors left, gives an
   acceptable reconstruction of the store it left when it was last applied;
   the clients' store is reached from the last of them by expiry alone. *)
Recoverable ==
    /\ \A i \in DOMAIN wal :
           Explained(wal[i], After(history, i - 1), After(history, i), clock)
    /\ Agrees(After(history, Len(wal)), ClientStore, clock)
    /\ phase = "restoring" => store = After(history, pos)
=============================================================================
