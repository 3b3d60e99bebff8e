-------------------------- MODULE ServerStateProofs --------------------------
(***************************************************************************)
(* What holds of ServerState for every choice of keys, values, argument    *)
(* lists and bounds: its types, that its log always explains its store     *)
(* (Recoverable), that it loses nothing but what a passed deadline takes   *)
(* (Timely), and what both say of a restart.                               *)
(***************************************************************************)
EXTENDS ServerState, CommandsProofs

-----------------------------------------------------------------------------
(* Type correctness.                                                       *)

(* The clock counts in natural numbers. *)
LEMMA MaxClockType == MaxClock \in Nat
BY TimestampAssumption, BoundAssumption DEF Timestamps

(* The empty table is a store. *)
LEMMA EmptyStoreType == EmptyStore \in Stores
BY DEF EmptyStore, Stores

(* Removing keys leaves a well-formed store. *)
LEMMA RemoveKeysType ==
    ASSUME NEW st \in Stores, NEW gone
    PROVE  RemoveKeys(gone, st) \in Stores
BY DEF RemoveKeys, Stores

(* A torn record is not a command. *)
LEMMA TornIsNoCommand == Torn \notin WriteCommands
BY DEF Torn, WriteCommands

(* The first n entries of a sequence, and one more behind them. *)
LEMMA PrefixType ==
    ASSUME NEW S, NEW seq \in Seq(S), NEW n \in 0 .. Len(seq), NEW e \in S
    PROVE  /\ SubSeq(seq, 1, n) \o <<>> \in Seq(S)
           /\ Len(SubSeq(seq, 1, n) \o <<>>) = n
           /\ \A i \in 1 .. n : (SubSeq(seq, 1, n) \o <<>>)[i] = seq[i]
           /\ SubSeq(seq, 1, n) \o <<e>> \in Seq(S)
           /\ Len(SubSeq(seq, 1, n) \o <<e>>) = n + 1
           /\ \A i \in 1 .. n : (SubSeq(seq, 1, n) \o <<e>>)[i] = seq[i]
           /\ (SubSeq(seq, 1, n) \o <<e>>)[n + 1] = e
<1> DEFINE pre == SubSeq(seq, 1, n)
<1>1. \A i \in 1 .. n : seq[i] \in S
  BY ElementOfSeq
<1>2. pre \in Seq(S) /\ Len(pre) = n /\ \A i \in 1 .. n : pre[i] = seq[i]
  BY <1>1, SubSeqProperties
<1> HIDE DEF pre
<1>3. <<>> \in Seq(S) /\ Len(<<>>) = 0
  OBVIOUS
<1>4. <<e>> \in Seq(S) /\ Len(<<e>>) = 1 /\ <<e>>[1] = e
  OBVIOUS
<1>5. pre \o <<>> = pre
  BY <1>2, ConcatEmptySeq
<1>6. pre \o <<e>> \in Seq(S) /\ Len(pre \o <<e>>) = n + 1
  BY <1>2, <1>4, ConcatProperties
<1>7. \A i \in 1 .. n + 1 :
         (pre \o <<e>>)[i] = IF i <= n THEN pre[i] ELSE <<e>>[i - n]
  BY <1>2, <1>4, ConcatProperties
<1> QED BY <1>2, <1>4, <1>5, <1>6, <1>7 DEF pre

(* After names a well-formed store for every prefix of the log. *)
LEMMA AfterType ==
    ASSUME TypeOK, NEW i \in 0 .. Len(wal)
    PROVE  After(history, i) \in Stores
BY EmptyStoreType, ElementOfSeq DEF TypeOK, After

(* What the log, the store, the replay cursor and the ghosts range over is
   kept by every operation, crash and replay step of the server. *)
THEOREM TypeCorrect == Spec => []TypeOK
<1>1. Init => TypeOK
  BY EmptyStoreType, MaxClockType DEF Init, TypeOK
<1>2. TypeOK /\ [Next]_vars => TypeOK'
  <2> SUFFICES ASSUME TypeOK, [Next]_vars PROVE TypeOK'
    OBVIOUS
  <2>1. CASE Tick
    BY <2>1, MaxClockType DEF TypeOK, Tick
  <2>2. ASSUME NEW cmd \in WriteCommands, Write(cmd) PROVE TypeOK'
    <3>1. store' \in Stores
      BY <2>2, ApplyWriteType DEF TypeOK, Write
    <3>2. wal' \in Seq(Records) /\ Len(wal') = Len(wal) + 1
      BY <2>2 DEF TypeOK, Write, Records
    <3>3. history' \in Seq(Stores) /\ Len(history') = Len(history) + 1
      BY <2>2, <3>1 DEF TypeOK, Write
    <3> QED BY <2>2, <3>1, <3>2, <3>3 DEF TypeOK, Write
  <2>3. CASE WriteFails
    BY <2>3 DEF TypeOK, WriteFails, Records
  <2>4. ASSUME NEW later \in 0 .. MaxClock, NEW gone \in SUBSET Keys,
               RemoveExpired(later, gone)
        PROVE  TypeOK'
    BY <2>4, RemoveKeysType DEF TypeOK, RemoveExpired
  <2>5. CASE Sync
    BY <2>5 DEF TypeOK, Sync
  <2>6. CASE SyncFails
    BY <2>6 DEF TypeOK, SyncFails
  <2>7. CASE Kill
    BY <2>7, EmptyStoreType DEF TypeOK, Kill, LoseMemory, ClientStore
  <2>8. CASE KillInAppend
    BY <2>8, EmptyStoreType DEF TypeOK, KillInAppend, LoseMemory, Records
  <2>9. ASSUME NEW n \in 0 .. MaxWal, NEW torn \in BOOLEAN, PowerLoss(n, torn)
        PROVE  TypeOK'
    <3>1. n \in 0 .. Len(wal) /\ n \in 0 .. Len(history)
      BY <2>9 DEF TypeOK, PowerLoss
    <3>2. After(history, n) \in Stores
      BY <3>1, AfterType
    <3>3. wal' \in Seq(Records)
      BY <2>9, <3>1, PrefixType DEF TypeOK, PowerLoss, Records
    <3>4. history' \in Seq(Stores)
      BY <2>9, <3>1, <3>2, PrefixType DEF TypeOK, PowerLoss
    <3>5. Len(wal') = n + (IF torn THEN 1 ELSE 0)
      BY <2>9, <3>1, PrefixType DEF TypeOK, PowerLoss, Records
    <3>6. Len(history') = n + (IF torn THEN 1 ELSE 0)
      BY <2>9, <3>1, <3>2, PrefixType DEF TypeOK, PowerLoss
    <3>7. preCrash' \in Stores
      BY <2>9, <3>2 DEF TypeOK, PowerLoss, ClientStore
    <3>8. synced' \in 0 .. Len(wal') /\ pos' \in 0 .. Len(wal')
      BY <2>9, <3>1, <3>5 DEF TypeOK, PowerLoss, LoseMemory
    <3>9. /\ clock' \in 0 .. MaxClock
          /\ store' \in Stores
          /\ phase' \in {"running", "restoring", "down", "failed"}
          /\ syncer' \in {"alive", "dead"}
      BY <2>9, EmptyStoreType DEF TypeOK, PowerLoss, LoseMemory
    <3> QED BY <3>3, <3>4, <3>5, <3>6, <3>7, <3>8, <3>9 DEF TypeOK
  <2>10. CASE Start
    BY <2>10, EmptyStoreType DEF TypeOK, Start
  <2>11. CASE ReplayStep
    <3>1. wal[pos + 1] \in WriteCommands
      BY <2>11, ElementOfSeq DEF TypeOK, ReplayStep, Records
    <3>2. store' \in Stores
      BY <2>11, <3>1, ApplyWriteType DEF TypeOK, ReplayStep
    <3>3. pos + 1 \in 1 .. Len(history)
      BY <2>11 DEF TypeOK, ReplayStep
    <3>4. history' \in Seq(Stores) /\ Len(history') = Len(history)
      BY <2>11, <3>2, <3>3, ExceptSeq DEF TypeOK, ReplayStep
    <3> QED BY <2>11, <3>2, <3>3, <3>4 DEF TypeOK, ReplayStep
  <2>12. CASE ReplayFails
    BY <2>12, EmptyStoreType DEF TypeOK, ReplayFails
  <2>13. CASE ReplayDone
    BY <2>13 DEF TypeOK, ReplayDone
  <2>14. CASE UNCHANGED vars
    BY <2>14 DEF TypeOK, vars
  <2> QED BY <2>1, <2>2, <2>3, <2>4, <2>5, <2>6, <2>7, <2>8, <2>9, <2>10,
             <2>11, <2>12, <2>13, <2>14 DEF Next
<1> QED BY <1>1, <1>2, PTL DEF Spec

-----------------------------------------------------------------------------
(* Agreement of stores.                                                    *)

(* A store is an acceptable reconstruction of itself. *)
LEMMA AgreesReflexive ==
    ASSUME NEW st, NEW now
    PROVE  Agrees(st, st, now)
BY DEF Agrees

(* Reconstructing a reconstruction is acceptable: what repeated restarts
   lean on. *)
LEMMA AgreesTransitive ==
    ASSUME NEW st \in Stores, NEW mid \in Stores, NEW orig \in Stores, NEW now,
           Agrees(st, mid, now), Agrees(mid, orig, now)
    PROVE  Agrees(st, orig, now)
<1> SUFFICES ASSUME NEW key \in Keys
             PROVE  /\ Visible(st, key, now) => st[key] = orig[key]
                    /\ Persistent(orig, key) => st[key] = orig[key]
  BY DEF Agrees
<1>1. Visible(st, key, now) => st[key] = orig[key]
  <2> SUFFICES ASSUME Visible(st, key, now) PROVE st[key] = orig[key]
    OBVIOUS
  <2>1. st[key] = mid[key]
    BY DEF Agrees
  <2>2. Visible(mid, key, now)
    BY <2>1 DEF Visible
  <2> QED BY <2>1, <2>2 DEF Agrees
<1>2. Persistent(orig, key) => st[key] = orig[key]
  <2> SUFFICES ASSUME Persistent(orig, key) PROVE st[key] = orig[key]
    OBVIOUS
  <2>1. mid[key] = orig[key]
    BY DEF Agrees
  <2>2. Persistent(mid, key)
    BY <2>1 DEF Persistent
  <2> QED BY <2>1, <2>2 DEF Agrees
<1> QED BY <1>1, <1>2

(* A key that shows later shows now: deadlines only pass. *)
LEMMA VisibleBefore ==
    ASSUME NEW st \in Stores, NEW key \in Keys,
           NEW now \in Nat, NEW later \in Nat, now <= later,
           Visible(st, key, later)
    PROVE  Visible(st, key, now)
<1>1. st[key] \in StoredValues
  BY DEF Visible, Stores
<1>2. st[key].expires_at = None \/ st[key].expires_at \in Nat
  BY <1>1, TimestampAssumption DEF StoredValues, Timestamps
<1> QED BY <1>2 DEF Visible, IsExpired

(* Time alone spoils no reconstruction. *)
LEMMA AgreesLater ==
    ASSUME NEW st \in Stores, NEW orig \in Stores,
           NEW now \in Nat, NEW later \in Nat, now <= later,
           Agrees(st, orig, now)
    PROVE  Agrees(st, orig, later)
BY VisibleBefore DEF Agrees

(* The cleanup task takes nothing that a reconstruction shows. *)
LEMMA AgreesRemoved ==
    ASSUME NEW st \in Stores, NEW orig \in Stores, NEW now, Agrees(st, orig, now),
           NEW gone \in SUBSET ExpiredKeys(orig, now)
    PROVE  Agrees(st, RemoveKeys(gone, orig), now)
<1> SUFFICES ASSUME NEW key \in Keys
             PROVE  /\ Visible(st, key, now) =>
                           st[key] = RemoveKeys(gone, orig)[key]
                    /\ Persistent(RemoveKeys(gone, orig), key) =>
                           st[key] = RemoveKeys(gone, orig)[key]
  BY DEF Agrees
<1>1. RemoveKeys(gone, orig)[key] = IF key \in gone THEN None ELSE orig[key]
  BY DEF RemoveKeys
<1>2. Visible(st, key, now) => st[key] = orig[key]
  BY DEF Agrees
<1>3. Persistent(orig, key) => st[key] = orig[key]
  BY DEF Agrees
<1>4. Visible(st, key, now) => key \notin gone
  BY <1>2 DEF Visible, ExpiredKeys
<1>5. CASE key \in gone
  BY <1>1, <1>4, <1>5 DEF Persistent
<1>6. CASE key \notin gone
  BY <1>1, <1>2, <1>3, <1>6 DEF Persistent
<1> QED BY <1>5, <1>6

-----------------------------------------------------------------------------
(* What a command does to two stores that agree, and at two times.         *)

(* EXPIREAT, key by key: a live key gets the deadline, an expired or missing
   one is gone, every other key keeps what it has. *)
LEMMA ExpireAtByKey ==
    ASSUME NEW st \in Stores, NEW target \in Keys, NEW at \in Timestamps,
           NEW now, NEW key \in Keys
    PROVE  ApplyExpireAt(target, at, st, now)[key] =
               IF key # target THEN st[key]
               ELSE IF Visible(st, target, now)
                    THEN [bytes |-> st[target].bytes, expires_at |-> at]
                    ELSE None
<1> DEFINE swept == EjectIfExpired(st, target, now)
<1>1. CASE ~Visible(st, target, now)
  <2>1. swept = [st EXCEPT ![target] = None]
    <3>1. CASE st[target] = None
      <4>1. swept = st
        BY <3>1 DEF EjectIfExpired
      <4>2. st = [st EXCEPT ![target] = None]
        BY <3>1 DEF Stores
      <4> QED BY <4>1, <4>2
    <3>2. CASE st[target] # None
      BY <1>1, <3>2 DEF EjectIfExpired, Visible
    <3> QED BY <3>1, <3>2
  <2>2. swept[target] = None
    BY <2>1 DEF Stores
  <2>3. ApplyExpireAt(target, at, st, now) = swept
    BY <2>2 DEF ApplyExpireAt
  <2> QED BY <1>1, <2>1, <2>3 DEF Stores
<1>2. CASE Visible(st, target, now)
  <2>1. swept = st /\ swept[target] # None
    BY <1>2 DEF EjectIfExpired, Visible
  <2>2. ApplyExpireAt(target, at, st, now) =
            [st EXCEPT ![target].expires_at = at]
    BY <2>1 DEF ApplyExpireAt
  <2>3. st[target] \in StoredValues
    BY <1>2 DEF Visible, Stores
  <2>4. [st[target] EXCEPT !.expires_at = at] =
            [bytes |-> st[target].bytes, expires_at |-> at]
    BY <2>3 DEF StoredValues
  <2> QED BY <1>2, <2>2, <2>4 DEF Stores
<1> QED BY <1>1, <1>2

(* Every record leaves a well-formed store, the torn ones included. *)
LEMMA EffectType ==
    ASSUME NEW record \in Records, NEW st \in Stores, NEW now
    PROVE  Effect(record, st, now) \in Stores
BY ApplyWriteType DEF Effect, Records

(* The commands other than EXPIREAT treat a key of any two stores alike:
   both get the same new value, both lose it, or both keep what they had. *)
LEMMA UnconditionalCommand ==
    ASSUME NEW cmd \in WriteCommands, cmd.op # "EXPIREAT",
           NEW st \in Stores, NEW other \in Stores, NEW now, NEW then,
           NEW key \in Keys
    PROVE  \/ ApplyWrite(cmd, st, now)[key] = ApplyWrite(cmd, other, then)[key]
           \/ /\ ApplyWrite(cmd, st, now)[key] = st[key]
              /\ ApplyWrite(cmd, other, then)[key] = other[key]
<1>1. CASE cmd.op = "SET"
  BY <1>1 DEF ApplyWrite, ApplySet, Stores
<1>2. CASE cmd.op = "MSET"
  <2>1. ApplyWrite(cmd, st, now) = ApplyMSet(cmd.entries, st)
    BY <1>2 DEF ApplyWrite
  <2>2. ApplyWrite(cmd, other, then) = ApplyMSet(cmd.entries, other)
    BY <1>2 DEF ApplyWrite
  <2> QED BY <2>1, <2>2 DEF ApplyMSet
<1>3. CASE cmd.op = "DEL"
  BY <1>3 DEF ApplyWrite, ApplyDel, RemoveKeys
<1> QED BY <1>1, <1>2, <1>3 DEF WriteCommands

(* Replaying a record on a reconstruction gives a reconstruction of what the
   record made of the original. *)
LEMMA EffectMonotone ==
    ASSUME NEW record \in Records,
           NEW st \in Stores, NEW orig \in Stores, NEW now,
           Agrees(st, orig, now)
    PROVE  Agrees(Effect(record, st, now), Effect(record, orig, now), now)
<1>1. CASE record = Torn
  BY <1>1 DEF Effect
<1>2. ASSUME record \in WriteCommands, record.op = "EXPIREAT"
      PROVE  Agrees(Effect(record, st, now), Effect(record, orig, now), now)
  <2>1. record.key \in Keys /\ record.at \in Timestamps
    BY <1>2 DEF WriteCommands
  <2> DEFINE a == ApplyExpireAt(record.key, record.at, st, now)
             b == ApplyExpireAt(record.key, record.at, orig, now)
  <2>2. Effect(record, st, now) = a /\ Effect(record, orig, now) = b
    BY <1>2, TornIsNoCommand DEF Effect, ApplyWrite
  <2>3. \A key \in Keys :
          /\ a[key] = IF key # record.key THEN st[key]
                      ELSE IF Visible(st, record.key, now)
                           THEN [bytes |-> st[record.key].bytes, expires_at |-> record.at]
                           ELSE None
          /\ b[key] = IF key # record.key THEN orig[key]
                      ELSE IF Visible(orig, record.key, now)
                           THEN [bytes |-> orig[record.key].bytes, expires_at |-> record.at]
                           ELSE None
    BY <2>1, ExpireAtByKey
  <2> HIDE DEF a, b
  <2>4. ASSUME NEW key \in Keys
        PROVE  /\ Visible(a, key, now) => a[key] = b[key]
               /\ Persistent(b, key) => a[key] = b[key]
    <3>1. CASE key # record.key
      <4>1. a[key] = st[key] /\ b[key] = orig[key]
        BY <2>1, <2>3, <3>1
      <4> QED BY <4>1 DEF Agrees, Visible, Persistent
    <3>2. CASE key = record.key /\ Visible(st, key, now)
      <4>1. st[key] = orig[key] /\ Visible(orig, key, now)
        BY <3>2 DEF Agrees, Visible
      <4>2. a[key] = b[key]
        BY <2>1, <2>3, <3>2, <4>1
      <4> QED BY <4>2
    <3>3. CASE key = record.key /\ ~Visible(st, key, now)
      <4>1. a[key] = None
        BY <2>1, <2>3, <3>3
      <4>2. \/ b[key] = None
            \/ b[key] = [bytes |-> orig[key].bytes, expires_at |-> record.at]
        BY <2>1, <2>3, <3>3
      <4>3. ~Persistent(b, key)
        BY <2>1, <4>2, TimestampAssumption DEF Persistent
      <4> QED BY <4>1, <4>3 DEF Visible
    <3> QED BY <3>1, <3>2, <3>3
  <2> QED BY <2>2, <2>4 DEF Agrees
<1>3. ASSUME record \in WriteCommands, record.op # "EXPIREAT"
      PROVE  Agrees(Effect(record, st, now), Effect(record, orig, now), now)
  <2> DEFINE a == ApplyWrite(record, st, now)
             b == ApplyWrite(record, orig, now)
  <2>1. Effect(record, st, now) = a /\ Effect(record, orig, now) = b
    BY <1>3, TornIsNoCommand DEF Effect
  <2>2. \A key \in Keys : a[key] = b[key] \/ (a[key] = st[key] /\ b[key] = orig[key])
    BY <1>3, UnconditionalCommand
  <2> HIDE DEF a, b
  <2> QED BY <2>1, <2>2 DEF Agrees, Visible, Persistent
<1> QED BY <1>1, <1>2, <1>3 DEF Records

(* Replaying a record later gives a reconstruction of what it did before: a
   live key may have expired in the meantime, which EXPIREAT then ejects. *)
LEMMA EffectLater ==
    ASSUME NEW record \in Records, NEW st \in Stores,
           NEW now \in Nat, NEW later \in Nat, now <= later
    PROVE  Agrees(Effect(record, st, later), Effect(record, st, now), later)
<1>1. CASE record = Torn
  BY <1>1 DEF Effect, Agrees
<1>2. ASSUME record \in WriteCommands, record.op = "EXPIREAT"
      PROVE  Agrees(Effect(record, st, later), Effect(record, st, now), later)
  <2>1. record.key \in Keys /\ record.at \in Timestamps
    BY <1>2 DEF WriteCommands
  <2> DEFINE a == ApplyExpireAt(record.key, record.at, st, later)
             b == ApplyExpireAt(record.key, record.at, st, now)
  <2>2. Effect(record, st, later) = a /\ Effect(record, st, now) = b
    BY <1>2, TornIsNoCommand DEF Effect, ApplyWrite
  <2>3. \A key \in Keys :
          /\ a[key] = IF key # record.key THEN st[key]
                      ELSE IF Visible(st, record.key, later)
                           THEN [bytes |-> st[record.key].bytes, expires_at |-> record.at]
                           ELSE None
          /\ b[key] = IF key # record.key THEN st[key]
                      ELSE IF Visible(st, record.key, now)
                           THEN [bytes |-> st[record.key].bytes, expires_at |-> record.at]
                           ELSE None
    BY <2>1, ExpireAtByKey
  <2> HIDE DEF a, b
  <2>4. ASSUME NEW key \in Keys
        PROVE  /\ Visible(a, key, later) => a[key] = b[key]
               /\ Persistent(b, key) => a[key] = b[key]
    <3>1. CASE key # record.key
      <4>1. a[key] = st[key] /\ b[key] = st[key]
        BY <2>1, <2>3, <3>1
      <4> QED BY <4>1
    <3>2. CASE key = record.key /\ Visible(st, key, later)
      <4>1. Visible(st, key, now)
        BY <3>2, VisibleBefore
      <4>2. a[key] = b[key]
        BY <2>1, <2>3, <3>2, <4>1
      <4> QED BY <4>2
    <3>3. CASE key = record.key /\ ~Visible(st, key, later)
      <4>1. a[key] = None
        BY <2>1, <2>3, <3>3
      <4>2. \/ b[key] = None
            \/ b[key] = [bytes |-> st[key].bytes, expires_at |-> record.at]
        BY <2>1, <2>3, <3>3
      <4>3. ~Persistent(b, key)
        BY <2>1, <4>2, TimestampAssumption DEF Persistent
      <4> QED BY <4>1, <4>3 DEF Visible
    <3> QED BY <3>1, <3>2, <3>3
  <2> QED BY <2>2, <2>4 DEF Agrees
<1>3. ASSUME record \in WriteCommands, record.op # "EXPIREAT"
      PROVE  Agrees(Effect(record, st, later), Effect(record, st, now), later)
  <2> DEFINE a == ApplyWrite(record, st, later)
             b == ApplyWrite(record, st, now)
  <2>1. Effect(record, st, later) = a /\ Effect(record, st, now) = b
    BY <1>3, TornIsNoCommand DEF Effect
  <2>2. \A key \in Keys : a[key] = b[key]
    BY <1>3, UnconditionalCommand
  <2> HIDE DEF a, b
  <2> QED BY <2>1, <2>2 DEF Agrees
<1> QED BY <1>1, <1>2, <1>3 DEF Records

-----------------------------------------------------------------------------
(* The log explains the store.                                             *)

(* Nothing in Recoverable changes while the clock, the log, the stores it
   left and the clients' store stay. *)
LEMMA RecoverableUnchanged ==
    ASSUME Recoverable,
           clock' = clock, wal' = wal, history' = history,
           ClientStore' = ClientStore,
           phase' = "restoring" => store' = After(history, pos')
    PROVE  Recoverable'
BY DEF Recoverable, After

(* Appending a record keeps the log explained when the record leads from the
   store its predecessors leave on replay to the clients' store. *)
LEMMA RecoverableAppend ==
    ASSUME TypeOK, Recoverable, NEW record \in Records, NEW st \in Stores,
           clock' = clock,
           wal' = Append(wal, record), history' = Append(history, st),
           Agrees(Effect(record, After(history, Len(wal)), clock), st, clock),
           ClientStore' = st, phase' # "restoring"
    PROVE  Recoverable'
<1>1. Len(wal') = Len(wal) + 1 /\ DOMAIN wal' = 1 .. Len(wal) + 1
  BY DEF TypeOK
<1>2. \A i \in 1 .. Len(wal) : wal'[i] = wal[i] /\ history'[i] = history[i]
  BY DEF TypeOK
<1>3. wal'[Len(wal) + 1] = record /\ history'[Len(wal) + 1] = st
  BY DEF TypeOK
<1>4. \A i \in 0 .. Len(wal) : After(history', i) = After(history, i)
  BY <1>2 DEF After, TypeOK
<1>5. After(history', Len(wal) + 1) = st
  BY <1>3 DEF After, TypeOK
<1>6. ASSUME NEW i \in DOMAIN wal'
      PROVE  Explained(wal'[i], After(history', i - 1), After(history', i), clock')
  <2>1. CASE i \in 1 .. Len(wal)
    <3>1. i - 1 \in 0 .. Len(wal) /\ i \in 0 .. Len(wal) /\ i \in DOMAIN wal
      BY <2>1 DEF TypeOK
    <3>2. wal'[i] = wal[i] /\ After(history', i - 1) = After(history, i - 1) /\ After(history', i) = After(history, i)
      BY <1>2, <1>4, <2>1, <3>1
    <3>3. Explained(wal[i], After(history, i - 1), After(history, i), clock)
      BY <3>1 DEF Recoverable
    <3> QED BY <3>2, <3>3
  <2>2. CASE i = Len(wal) + 1
    <3>1. After(history', i - 1) = After(history, Len(wal))
      BY <1>4, <2>2 DEF TypeOK
    <3> QED BY <1>3, <1>5, <2>2, <3>1 DEF Explained
  <2> QED BY <1>1, <2>1, <2>2 DEF TypeOK
<1>7. Agrees(After(history', Len(wal')), ClientStore', clock')
  BY <1>1, <1>5, AgreesReflexive
<1> QED BY <1>6, <1>7 DEF Recoverable

(* When time passes, records replay a little worse than before, acceptably. *)
LEMMA RecoverableLater ==
    ASSUME TypeOK, Recoverable, NEW later \in Nat, clock <= later
    PROVE  /\ \A i \in DOMAIN wal :
                  Explained(wal[i], After(history, i - 1), After(history, i), later)
           /\ Agrees(After(history, Len(wal)), ClientStore, later)
<1>1. clock \in Nat
  BY MaxClockType DEF TypeOK
<1>2. ASSUME NEW i \in DOMAIN wal
      PROVE  Explained(wal[i], After(history, i - 1), After(history, i), later)
  <2>1. i - 1 \in 0 .. Len(wal) /\ i \in 0 .. Len(wal) /\ wal[i] \in Records
    BY ElementOfSeq DEF TypeOK
  <2>2. After(history, i - 1) \in Stores /\ After(history, i) \in Stores
    BY <2>1, AfterType
  <2>3. Agrees(Effect(wal[i], After(history, i - 1), clock), After(history, i), clock)
    BY DEF Recoverable, Explained
  <2>4. /\ Effect(wal[i], After(history, i - 1), clock) \in Stores
        /\ Effect(wal[i], After(history, i - 1), later) \in Stores
    BY <2>1, <2>2, EffectType
  <2>5. Agrees(Effect(wal[i], After(history, i - 1), clock), After(history, i), later)
    BY <1>1, <2>2, <2>3, <2>4, AgreesLater
  <2>6. Agrees(Effect(wal[i], After(history, i - 1), later),
               Effect(wal[i], After(history, i - 1), clock), later)
    BY <1>1, <2>1, <2>2, EffectLater
  <2> QED BY <2>2, <2>4, <2>5, <2>6, AgreesTransitive DEF Explained
<1>3. Agrees(After(history, Len(wal)), ClientStore, later)
  <2>1. After(history, Len(wal)) \in Stores /\ ClientStore \in Stores
    BY AfterType DEF TypeOK, ClientStore
  <2>2. Agrees(After(history, Len(wal)), ClientStore, clock)
    BY DEF Recoverable
  <2> QED BY <1>1, <2>1, <2>2, AgreesLater
<1> QED BY <1>2, <1>3

(* A power loss cuts the log at a record boundary, give or take a torn
   record, and every prefix of an explained log is explained. *)
LEMMA RecoverablePowerLoss ==
    ASSUME TypeOK, Recoverable, NEW n, NEW torn \in BOOLEAN, PowerLoss(n, torn)
    PROVE  Recoverable'
<1>1. n \in 0 .. Len(wal) /\ n \in 0 .. Len(history)
  BY DEF TypeOK, PowerLoss
<1>2. After(history, n) \in Stores /\ Torn \in Records
  BY <1>1, AfterType DEF Records
<1>3. /\ Len(wal') = n + (IF torn THEN 1 ELSE 0)
      /\ wal' \in Seq(Records)
      /\ \A i \in 1 .. n : wal'[i] = wal[i]
      /\ torn => wal'[n + 1] = Torn
  BY <1>1, <1>2, PrefixType DEF TypeOK, PowerLoss
<1>4. /\ Len(history') = n + (IF torn THEN 1 ELSE 0)
      /\ \A i \in 1 .. n : history'[i] = history[i]
      /\ torn => history'[n + 1] = After(history, n)
  BY <1>1, <1>2, PrefixType DEF TypeOK, PowerLoss
<1>5. clock' = clock /\ phase' = "down"
  BY DEF PowerLoss, LoseMemory
<1>6. \A i \in 0 .. n : After(history', i) = After(history, i)
  BY <1>4 DEF After
<1>7. torn => After(history', n + 1) = After(history, n)
  BY <1>1, <1>4 DEF After
<1>8. ASSUME NEW i \in DOMAIN wal'
      PROVE  Explained(wal'[i], After(history', i - 1), After(history', i), clock')
  <2>1. i \in 1 .. Len(wal')
    BY <1>3
  <2>2. CASE i \in 1 .. n
    <3>1. i - 1 \in 0 .. n /\ i \in 0 .. n /\ i \in DOMAIN wal
      BY <1>1, <2>2 DEF TypeOK
    <3>2. wal'[i] = wal[i] /\ After(history', i - 1) = After(history, i - 1) /\ After(history', i) = After(history, i)
      BY <1>3, <1>6, <2>2, <3>1
    <3>3. Explained(wal[i], After(history, i - 1), After(history, i), clock)
      BY <3>1 DEF Recoverable
    <3> QED BY <1>5, <3>2, <3>3
  <2>3. CASE i = n + 1 /\ torn
    <3>1. After(history', i - 1) = After(history, n) /\ After(history', i) = After(history, n) /\ wal'[i] = Torn
      BY <1>1, <1>3, <1>6, <1>7, <2>3
    <3> QED BY <3>1, AgreesReflexive DEF Effect, Explained
  <2> QED BY <1>1, <1>3, <2>1, <2>2, <2>3
<1>9. Agrees(After(history', Len(wal')), ClientStore', clock')
  <2>1. After(history', Len(wal')) = After(history, n)
    BY <1>1, <1>3, <1>6, <1>7
  <2>2. ClientStore' = preCrash'
    BY <1>5 DEF ClientStore
  <2>3. CASE n = Len(wal)
    <3>1. preCrash' = ClientStore
      BY <2>3 DEF PowerLoss
    <3> QED BY <1>5, <2>1, <2>2, <2>3, <3>1 DEF Recoverable
  <2>4. CASE n # Len(wal)
    <3>1. preCrash' = After(history, n)
      BY <2>4 DEF PowerLoss
    <3> QED BY <2>1, <2>2, <3>1, AgreesReflexive
  <2> QED BY <2>3, <2>4
<1> QED BY <1>5, <1>8, <1>9 DEF Recoverable

(* A replay step overwrites what record pos + 1 left the last time with what
   it leaves now, which is no better; the record behind it is still
   explained, by monotonicity. *)
LEMMA RecoverableReplayStep ==
    ASSUME TypeOK, Recoverable, ReplayStep
    PROVE  Recoverable'
<1> DEFINE p == pos + 1
<1>1. p \in DOMAIN wal /\ p \in 1 .. Len(wal) /\ pos = p - 1 /\ pos \in 0 .. Len(wal)
  BY DEF TypeOK, ReplayStep
<1>2. wal[p] \in Records /\ wal[p] # Torn
  BY <1>1, ElementOfSeq DEF TypeOK, ReplayStep
<1>3. After(history, p - 1) \in Stores /\ After(history, p) \in Stores
  BY <1>1, AfterType
<1>4. store' = Effect(wal[p], After(history, p - 1), clock)
  BY <1>1, <1>2 DEF Recoverable, ReplayStep, Effect
<1>5. store' \in Stores
  BY <1>2, <1>3, <1>4, EffectType
<1>6. Agrees(store', After(history, p), clock)
  BY <1>1, <1>4 DEF Recoverable, Explained
<1>7. /\ history' = [history EXCEPT ![p] = store']
      /\ wal' = wal /\ clock' = clock /\ phase' = "restoring"
      /\ pos' = p /\ preCrash' = preCrash
  BY DEF ReplayStep
<1> HIDE DEF p
<1>8. \A i \in 0 .. Len(wal) :
         After(history', i) = IF i = p THEN store' ELSE After(history, i)
  BY <1>1, <1>7 DEF After, TypeOK
<1>9. ASSUME NEW i \in DOMAIN wal
      PROVE  Explained(wal[i], After(history', i - 1), After(history', i), clock)
  <2>1. /\ i - 1 \in 0 .. Len(wal) /\ i \in 0 .. Len(wal) /\ i - 1 # i
        /\ wal[i] \in Records
    BY ElementOfSeq DEF TypeOK
  <2>2. Explained(wal[i], After(history, i - 1), After(history, i), clock)
    BY DEF Recoverable
  <2>3. CASE i = p
    <3>1. After(history', i - 1) = After(history, p - 1) /\ After(history', i) = store'
      BY <1>8, <2>1, <2>3
    <3> QED BY <1>4, <2>3, <3>1, AgreesReflexive DEF Explained
  <2>4. CASE i - 1 = p
    <3>1. After(history', i - 1) = store' /\ After(history', i) = After(history, i)
      BY <1>8, <2>1, <2>4
    <3>2. /\ After(history, i) \in Stores
          /\ Effect(wal[i], store', clock) \in Stores
          /\ Effect(wal[i], After(history, p), clock) \in Stores
      BY <1>3, <1>5, <2>1, AfterType, EffectType
    <3>3. Agrees(Effect(wal[i], store', clock),
                 Effect(wal[i], After(history, p), clock), clock)
      BY <1>3, <1>5, <1>6, <2>1, EffectMonotone
    <3>4. Agrees(Effect(wal[i], After(history, p), clock), After(history, i), clock)
      BY <2>2, <2>4 DEF Explained
    <3> QED BY <3>1, <3>2, <3>3, <3>4, AgreesTransitive DEF Explained
  <2>5. CASE i # p /\ i - 1 # p
    BY <1>8, <2>1, <2>2, <2>5
  <2> QED BY <2>3, <2>4, <2>5
<1>10. Agrees(After(history', Len(wal)), preCrash, clock)
  <2>1. Len(wal) \in 0 .. Len(wal)
    BY DEF TypeOK
  <2>2. ClientStore = preCrash /\ preCrash \in Stores
    BY DEF ReplayStep, ClientStore, TypeOK
  <2>3. Agrees(After(history, Len(wal)), preCrash, clock)
    BY <2>2 DEF Recoverable
  <2>4. CASE Len(wal) = p
    <3>1. After(history', Len(wal)) = store'
      BY <1>8, <2>1, <2>4
    <3> QED BY <1>3, <1>5, <1>6, <2>2, <2>3, <2>4, <3>1, AgreesTransitive
  <2>5. CASE Len(wal) # p
    BY <1>8, <2>1, <2>3, <2>5
  <2> QED BY <2>4, <2>5
<1>11. ClientStore' = preCrash
  BY <1>7 DEF ClientStore
<1>12. store' = After(history', pos')
  <2>1. p \in 0 .. Len(wal)
    BY <1>1
  <2>2. After(history', p) = store'
    BY <1>8, <2>1
  <2> QED BY <1>7, <2>2
<1> QED BY <1>7, <1>9, <1>10, <1>11, <1>12 DEF Recoverable

-----------------------------------------------------------------------------
(* Theorems.                                                               *)

(* Initially nothing is logged and nothing was ever there. *)
LEMMA RecoverableInit == Init => Recoverable
<1> SUFFICES ASSUME Init PROVE Recoverable
  OBVIOUS
<1>1. wal = <<>> /\ DOMAIN wal = {} /\ Len(wal) = 0
  BY DEF Init
<1>2. After(history, 0) = EmptyStore /\ ClientStore = EmptyStore /\ store = EmptyStore
  BY DEF Init, After, ClientStore
<1>3. Agrees(EmptyStore, EmptyStore, clock)
  BY AgreesReflexive
<1> QED BY <1>1, <1>2, <1>3 DEF Recoverable, Init

(* Each step of the server, of its environment and of a restart keeps the
   log explained. *)
LEMMA RecoverableStep ==
    ASSUME TypeOK, Recoverable, [Next]_vars
    PROVE  Recoverable'
<1>1. CASE Tick
  <2>1. clock' \in Nat /\ clock <= clock'
    BY <1>1, MaxClockType DEF Tick, TypeOK
  <2>2. ClientStore' = ClientStore
    BY <1>1 DEF Tick, ClientStore
  <2> QED BY <1>1, <2>1, <2>2, RecoverableLater DEF Recoverable, Tick
<1>2. ASSUME NEW cmd \in WriteCommands, Write(cmd) PROVE Recoverable'
  <2>1. cmd \in Records /\ cmd # Torn
    BY TornIsNoCommand DEF Records
  <2>2. After(history, Len(wal)) \in Stores /\ store \in Stores
    BY AfterType DEF TypeOK
  <2>3. Agrees(After(history, Len(wal)), store, clock)
    BY <1>2 DEF Recoverable, Write, ClientStore
  <2>4. store' = Effect(cmd, store, clock)
    BY <1>2, <2>1 DEF Write, Effect
  <2>5. Agrees(Effect(cmd, After(history, Len(wal)), clock), store', clock)
    BY <2>1, <2>2, <2>3, <2>4, EffectMonotone
  <2>6. store' \in Stores
    BY <2>1, <2>2, <2>4, EffectType
  <2>7. ClientStore' = store' /\ phase' # "restoring"
    BY <1>2 DEF Write, ClientStore
  <2>8. clock' = clock /\ wal' = Append(wal, cmd) /\ history' = Append(history, store')
    BY <1>2 DEF Write
  <2> QED BY <2>1, <2>5, <2>6, <2>7, <2>8, RecoverableAppend
<1>3. CASE WriteFails \/ KillInAppend
  <2>1. store \in Stores /\ Torn \in Records
    BY DEF TypeOK, Records
  <2>2. Agrees(After(history, Len(wal)), store, clock)
    BY <1>3 DEF Recoverable, WriteFails, KillInAppend, ClientStore
  <2>3. Agrees(Effect(Torn, After(history, Len(wal)), clock), store, clock)
    BY <2>2 DEF Effect
  <2>4. ClientStore' = store /\ phase' # "restoring"
    BY <1>3 DEF WriteFails, KillInAppend, LoseMemory, ClientStore
  <2>5. clock' = clock /\ wal' = Append(wal, Torn) /\ history' = Append(history, store)
    BY <1>3 DEF WriteFails, KillInAppend
  <2> QED BY <2>1, <2>3, <2>4, <2>5, RecoverableAppend
<1>4. ASSUME NEW later \in 0 .. MaxClock, NEW gone \in SUBSET Keys,
             RemoveExpired(later, gone)
      PROVE  Recoverable'
  <2>1. later \in Nat /\ clock <= later
    BY <1>4, MaxClockType DEF RemoveExpired, TypeOK
  <2>2. ClientStore = store /\ gone \in SUBSET ExpiredKeys(store, later)
    BY <1>4 DEF RemoveExpired, ClientStore
  <2>3. After(history, Len(wal)) \in Stores /\ store \in Stores
    BY AfterType DEF TypeOK
  <2>4. Agrees(After(history, Len(wal)), RemoveKeys(gone, store), later)
    BY <2>1, <2>2, <2>3, RecoverableLater, AgreesRemoved
  <2>5. /\ ClientStore' = RemoveKeys(gone, store) /\ clock' = later
        /\ phase' # "restoring" /\ wal' = wal /\ history' = history
    BY <1>4 DEF RemoveExpired, ClientStore
  <2> QED BY <2>1, <2>4, <2>5, RecoverableLater DEF Recoverable
<1>5. CASE Sync \/ SyncFails
  <2>1. ClientStore' = ClientStore
    BY <1>5 DEF Sync, SyncFails, ClientStore
  <2> QED BY <1>5, <2>1, RecoverableUnchanged DEF Sync, SyncFails
<1>6. CASE Kill
  <2>1. ClientStore' = ClientStore
    BY <1>6 DEF Kill, LoseMemory, ClientStore
  <2> QED BY <1>6, <2>1, RecoverableUnchanged DEF Kill, LoseMemory
<1>7. ASSUME NEW n \in 0 .. MaxWal, NEW torn \in BOOLEAN, PowerLoss(n, torn)
      PROVE  Recoverable'
  BY <1>7, RecoverablePowerLoss
<1>8. CASE Start
  <2>1. ClientStore' = ClientStore
    BY <1>8 DEF Start, ClientStore
  <2>2. store' = After(history', pos')
    BY <1>8 DEF Start, After
  <2> QED BY <1>8, <2>1, <2>2, RecoverableUnchanged DEF Start
<1>9. CASE ReplayStep
  BY <1>9, RecoverableReplayStep
<1>10. CASE ReplayFails
  <2>1. ClientStore' = ClientStore
    BY <1>10 DEF ReplayFails, ClientStore
  <2> QED BY <1>10, <2>1, RecoverableUnchanged DEF ReplayFails
<1>11. CASE ReplayDone
  <2>1. store = After(history, Len(wal))
    BY <1>11 DEF ReplayDone, Recoverable
  <2>2. ClientStore' = After(history, Len(wal))
    BY <1>11, <2>1 DEF ReplayDone, ClientStore
  <2>3. Agrees(After(history, Len(wal)), ClientStore', clock)
    BY <2>2, AgreesReflexive
  <2> QED BY <1>11, <2>3 DEF Recoverable, ReplayDone
<1>12. CASE UNCHANGED vars
  <2>1. ClientStore' = ClientStore
    BY <1>12 DEF vars, ClientStore
  <2>2. phase' = "restoring" => store' = After(history', pos')
    BY <1>12 DEF vars, Recoverable
  <2> QED BY <1>12, <2>1, <2>2, RecoverableUnchanged DEF vars
<1> QED BY <1>1, <1>2, <1>3, <1>4, <1>5, <1>6, <1>7, <1>8, <1>9, <1>10,
           <1>11, <1>12 DEF Next

(* At every moment, whatever crashed before, a restart right now would
   rebuild an acceptable store from the log (restore_keystore). *)
THEOREM LogExplainsStore == Spec => []Recoverable
<1>1. TypeOK /\ Recoverable /\ [Next]_vars => Recoverable'
  BY RecoverableStep
<1> QED BY <1>1, RecoverableInit, TypeCorrect, PTL DEF Spec

(* The step that ends a restart shows the old clients' store again. *)
LEMMA CompletedAgrees ==
    ASSUME Recoverable, [Next]_vars, Completed
    PROVE  Agrees(store', preCrash, clock)
<1>1. CASE ReplayDone
  BY <1>1 DEF ReplayDone, Recoverable, ClientStore
<1>2. CASE ~ReplayDone
  BY <1>2 DEF Completed, Next, vars, Tick, Write, WriteFails, RemoveExpired,
              Sync, SyncFails, Kill, KillInAppend, PowerLoss, LoseMemory,
              Start, ReplayStep, ReplayFails
<1> QED BY <1>1, <1>2

(* No restart brings a key back, for any number of keys, of records and of
   restarts (eject_if_expired in apply_expire_at). *)
THEOREM RestartsResurrectNothing == Spec => NoResurrection
<1>1. Recoverable /\ [Next]_vars =>
        [Completed => \A key \in Keys :
            Visible(store', key, clock) => store'[key] = preCrash[key]]_vars
  BY CompletedAgrees DEF Agrees
<1> QED BY <1>1, LogExplainsStore, PTL DEF Spec, NoResurrection

(* No restart loses a key that has no deadline. *)
THEOREM RestartsKeepPersistentKeys == Spec => PersistentKeysSurvive
<1>1. Recoverable /\ [Next]_vars =>
        [Completed => \A key \in Keys :
            Persistent(preCrash, key) => store'[key] = preCrash[key]]_vars
  BY CompletedAgrees DEF Agrees
<1> QED BY <1>1, LogExplainsStore, PTL DEF Spec, PersistentKeysSurvive

-----------------------------------------------------------------------------
(* What a restart may lose.                                                *)

(* The deadlines that the first i records ask for in the life they leave key. *)
DeadlinesUpTo(log, i, key) ==
    {log[j].at : j \in {k \in 1 .. i :
        /\ log[k].op = "EXPIREAT"
        /\ log[k].key = key
        /\ \A l \in k + 1 .. i : ~Resets(log[l], key)}}

\* All of them are still to come.
Ahead(log, i, key, now) == \A deadline \in DeadlinesUpTo(log, i, key) : deadline > now

\* A value's deadline is one the log asks for.
Dated(value, deadlines) ==
    value # None /\ value.expires_at # None => value.expires_at \in deadlines

Dates(record, key) == record.op = "EXPIREAT" /\ record.key = key

(* What a record makes of a key's value as long as no deadline passes. *)
Outcome(record, key, value) ==
    IF Resets(record, key) THEN ApplyWrite(record, EmptyStore, 0)[key]
    ELSE IF Dates(record, key) /\ value # None
         THEN [bytes |-> value.bytes, expires_at |-> record.at]
         ELSE value

(* A key's value behind the first i records: its deadline is one they ask for,
   and as long as all the deadlines they ask for are ahead, it is the value
   expected. *)
Fits(value, expected, log, i, key, now) ==
    /\ Dated(value, DeadlinesUpTo(log, i, key))
    /\ Ahead(log, i, key, now) => value = expected

(* Each record left a key what it makes of the value before it, by no clock at
   all, as long as the deadlines of the key's life up to it are ahead. *)
LogTimely(log, stores, now) ==
    \A i \in 1 .. Len(log) : \A key \in Keys :
        Fits(After(stores, i)[key], Outcome(log[i], key, After(stores, i - 1)[key]),
             log, i, key, now)

(* The clients' store has what the last record left. *)
StoreTimely(log, stores, st, now) ==
    \A key \in Keys :
        Fits(st[key], After(stores, Len(log))[key], log, Len(log), key, now)

Timely == LogTimely(wal, history, clock) /\ StoreTimely(wal, history, ClientStore, clock)

\* Two sequences that begin with the same n entries.
SameStart(seq, other, n) == \A j \in 1 .. n : seq[j] = other[j]

\* One record more: it ends the life of the key, or asks for one deadline more,
\* or leaves the deadlines as they are.
LEMMA DeadlinesStep ==
    ASSUME NEW log, NEW i \in Nat \ {0}, NEW key
    PROVE  DeadlinesUpTo(log, i, key) =
               IF Resets(log[i], key) THEN {}
               ELSE DeadlinesUpTo(log, i - 1, key)
                        \cup (IF Dates(log[i], key) THEN {log[i].at} ELSE {})
<1> DEFINE Asks(k, n) == /\ log[k].op = "EXPIREAT"
                         /\ log[k].key = key
                         /\ \A l \in k + 1 .. n : ~Resets(log[l], key)
           Now == {k \in 1 .. i : Asks(k, i)}
           Before == {k \in 1 .. i - 1 : Asks(k, i - 1)}
<1>1. CASE Resets(log[i], key)
  <2>1. ~Dates(log[i], key)
    BY <1>1 DEF Resets, Dates
  <2>2. \A k \in 1 .. i : ~Asks(k, i)
    BY <1>1, <2>1 DEF Dates
  <2>3. Now = {}
    BY <2>2
  <2> QED BY <1>1, <2>3 DEF DeadlinesUpTo
<1>2. CASE ~Resets(log[i], key)
  <2>1. \A k \in 1 .. i - 1 : Asks(k, i) <=> Asks(k, i - 1)
    <3> SUFFICES ASSUME NEW k \in 1 .. i - 1
                 PROVE  (\A l \in k + 1 .. i : ~Resets(log[l], key))
                            <=> (\A l \in k + 1 .. i - 1 : ~Resets(log[l], key))
      OBVIOUS
    <3>1. \A l \in k + 1 .. i : l = i \/ l \in k + 1 .. i - 1
      OBVIOUS
    <3> QED BY <1>2, <3>1
  <2>2. Asks(i, i) <=> Dates(log[i], key)
    BY DEF Dates
  <2>3. 1 .. i = (1 .. i - 1) \cup {i} /\ i \notin 1 .. i - 1
    OBVIOUS
  <2> HIDE DEF Asks
  <2>4. Now = Before \cup (IF Dates(log[i], key) THEN {i} ELSE {})
    BY <2>1, <2>2, <2>3
  <2> HIDE DEF Now, Before
  <2>5. {log[j].at : j \in Now} =
            {log[j].at : j \in Before} \cup (IF Dates(log[i], key) THEN {log[i].at} ELSE {})
    BY <2>4
  <2> QED BY <1>2, <2>5 DEF DeadlinesUpTo, Now, Before, Asks
<1> QED BY <1>1, <1>2

\* Logs that agree so far ask for the same deadlines so far.
LEMMA DeadlinesSame ==
    ASSUME NEW log, NEW other, NEW n \in Nat, SameStart(log, other, n),
           NEW i \in 0 .. n, NEW key
    PROVE  DeadlinesUpTo(log, i, key) = DeadlinesUpTo(other, i, key)
<1> DEFINE Asks(lg, k) == /\ lg[k].op = "EXPIREAT"
                          /\ lg[k].key = key
                          /\ \A l \in k + 1 .. i : ~Resets(lg[l], key)
<1>1. \A k \in 1 .. i : log[k] = other[k] /\ (Asks(log, k) <=> Asks(other, k))
  BY DEF SameStart
<1> HIDE DEF Asks
<1>2. {k \in 1 .. i : Asks(log, k)} = {k \in 1 .. i : Asks(other, k)}
  BY <1>1
<1>3. {log[j].at : j \in {k \in 1 .. i : Asks(log, k)}}
          = {other[j].at : j \in {k \in 1 .. i : Asks(other, k)}}
  BY <1>1, <1>2
<1> QED BY <1>3 DEF DeadlinesUpTo, Asks

\* Before the first record there are none.
LEMMA DeadlinesNone ==
    ASSUME NEW log, NEW key
    PROVE  DeadlinesUpTo(log, 0, key) = {}
BY DEF DeadlinesUpTo

(* A record that resets a key gives every store the same value, without a
   deadline, at every time. *)
LEMMA ResetEffect ==
    ASSUME NEW record \in Records, NEW st \in Stores, NEW now, NEW key \in Keys,
           Resets(record, key)
    PROVE  /\ Effect(record, st, now)[key] = ApplyWrite(record, EmptyStore, 0)[key]
           /\ \/ Effect(record, st, now)[key] = None
              \/ Effect(record, st, now)[key].expires_at = None
<1>1. record \in WriteCommands /\ record # Torn
  BY TornIsNoCommand DEF Records, Resets, Torn
<1>2. EmptyStore \in Stores
  BY EmptyStoreType
<1>3. CASE record.op = "SET"
  <2>1. record.key = key
    BY <1>3 DEF Resets
  <2>2. /\ ApplyWrite(record, st, now)[key] = NewValue(record.value)
        /\ ApplyWrite(record, EmptyStore, 0)[key] = NewValue(record.value)
    BY <1>2, <1>3, <2>1 DEF ApplyWrite, ApplySet, Stores
  <2> QED BY <1>1, <2>2 DEF Effect, NewValue
<1>4. CASE record.op = "MSET"
  <2>1. \E i \in DOMAIN record.entries : record.entries[i][1] = key
    BY <1>4 DEF Resets
  <2> DEFINE value == NewValue(record.entries[CHOOSE i \in DOMAIN record.entries :
                                   IsLastEntry(record.entries, i, key)][2])
  <2>2. /\ ApplyWrite(record, st, now) = ApplyMSet(record.entries, st)
        /\ ApplyWrite(record, EmptyStore, 0) = ApplyMSet(record.entries, EmptyStore)
    BY <1>4 DEF ApplyWrite
  <2>3. /\ ApplyMSet(record.entries, st)[key] = value
        /\ ApplyMSet(record.entries, EmptyStore)[key] = value
    BY <2>1 DEF ApplyMSet
  <2>4. value.expires_at = None
    BY DEF NewValue
  <2> QED BY <1>1, <2>2, <2>3, <2>4 DEF Effect
<1>5. CASE record.op = "DEL"
  <2>1. \E i \in DOMAIN record.keys : record.keys[i] = key
    BY <1>5 DEF Resets
  <2>2. /\ ApplyWrite(record, st, now)[key] = None
        /\ ApplyWrite(record, EmptyStore, 0)[key] = None
    BY <1>5, <2>1 DEF ApplyWrite, ApplyDel, RemoveKeys
  <2> QED BY <1>1, <2>2 DEF Effect
<1>6. CASE record.op = "EXPIREAT"
  BY <1>6 DEF Resets
<1> QED BY <1>1, <1>3, <1>4, <1>5, <1>6 DEF WriteCommands

(* A record about other keys leaves the key alone. *)
LEMMA OtherEffect ==
    ASSUME NEW record \in Records, NEW st \in Stores, NEW now, NEW key \in Keys,
           ~Resets(record, key), ~Dates(record, key)
    PROVE  Effect(record, st, now)[key] = st[key]
<1>1. CASE record = Torn
  BY <1>1 DEF Effect
<1>2. ASSUME record # Torn, record \in WriteCommands
      PROVE  ApplyWrite(record, st, now)[key] = st[key]
  <2>1. CASE record.op = "SET"
    BY <2>1 DEF Resets, ApplyWrite, ApplySet, Stores
  <2>2. CASE record.op = "MSET"
    BY <2>2 DEF Resets, ApplyWrite, ApplyMSet
  <2>3. CASE record.op = "DEL"
    BY <2>3 DEF Resets, ApplyWrite, ApplyDel, RemoveKeys
  <2>4. CASE record.op = "EXPIREAT"
    <3>1. record.key \in Keys /\ record.at \in Timestamps /\ record.key # key
      BY <1>2, <2>4 DEF WriteCommands, Dates
    <3>2. ApplyWrite(record, st, now) = ApplyExpireAt(record.key, record.at, st, now)
      BY <2>4 DEF ApplyWrite
    <3>3. PICK target \in Keys, at \in Timestamps : target = record.key /\ at = record.at
      BY <3>1
    <3>4. key # target
      BY <3>1, <3>3
    <3>5. ApplyExpireAt(target, at, st, now)[key] =
              IF key # target THEN st[key]
              ELSE IF Visible(st, target, now)
                   THEN [bytes |-> st[target].bytes, expires_at |-> at]
                   ELSE None
      BY ExpireAtByKey
    <3>6. ApplyExpireAt(target, at, st, now)[key] = st[key]
      BY <3>4, <3>5
    <3> QED BY <3>2, <3>3, <3>6
  <2> QED BY <1>2, <2>1, <2>2, <2>3, <2>4 DEF WriteCommands
<1> QED BY <1>1, <1>2 DEF Records, Effect

(* EXPIREAT on the key. *)
LEMMA DatesEffect ==
    ASSUME NEW record \in Records, NEW st \in Stores, NEW now, NEW key \in Keys,
           Dates(record, key)
    PROVE  Effect(record, st, now)[key] =
               IF Visible(st, key, now)
               THEN [bytes |-> st[key].bytes, expires_at |-> record.at] ELSE None
<1>1. record \in WriteCommands /\ record # Torn
  BY DEF Dates, Records, Torn
<1>2. record.key = key /\ record.at \in Timestamps /\ record.op = "EXPIREAT"
  BY <1>1 DEF Dates, WriteCommands
<1> QED BY <1>1, <1>2, ExpireAtByKey DEF Effect, ApplyWrite

(* The value a record leaves has a deadline the log asks for. *)
LEMMA EffectDated ==
    ASSUME NEW record \in Records, NEW st \in Stores, NEW now, NEW key \in Keys,
           NEW before, Dated(st[key], before)
    PROVE  Dated(Effect(record, st, now)[key],
                 IF Resets(record, key) THEN {}
                 ELSE before \cup (IF Dates(record, key) THEN {record.at} ELSE {}))
<1>1. CASE Resets(record, key)
  BY <1>1, ResetEffect DEF Dated
<1>2. CASE ~Resets(record, key) /\ Dates(record, key)
  <2> DEFINE value == [bytes |-> st[key].bytes, expires_at |-> record.at]
  <2>1. Effect(record, st, now)[key] = IF Visible(st, key, now) THEN value ELSE None
    BY <1>2, DatesEffect
  <2>2. value.expires_at = record.at
    OBVIOUS
  <2> HIDE DEF value
  <2>3. \/ Effect(record, st, now)[key] = None
        \/ Effect(record, st, now)[key].expires_at = record.at
    BY <2>1, <2>2
  <2>4. record.at \in (IF Dates(record, key) THEN {record.at} ELSE {})
    BY <1>2
  <2> QED BY <1>2, <2>3, <2>4 DEF Dated
<1>3. CASE ~Resets(record, key) /\ ~Dates(record, key)
  BY <1>3, OtherEffect DEF Dated
<1> QED BY <1>1, <1>2, <1>3

(* While the deadlines are ahead, the clock does not matter. *)
LEMMA EffectOutcome ==
    ASSUME NEW record \in Records, NEW st \in Stores, NEW now \in Nat, NEW key \in Keys,
           NEW before, Dated(st[key], before),
           ~Resets(record, key) => \A deadline \in before : deadline > now
    PROVE  Effect(record, st, now)[key] = Outcome(record, key, st[key])
<1>1. CASE Resets(record, key)
  BY <1>1, ResetEffect DEF Outcome
<1>2. CASE ~Resets(record, key) /\ Dates(record, key)
  <2>1. CASE st[key] = None
    BY <1>2, <2>1, DatesEffect DEF Outcome, Visible
  <2>2. CASE st[key] # None
    <3>1. st[key] \in StoredValues
      BY <2>2 DEF Stores
    <3>2. ~IsExpired(st[key], now)
      <4>1. CASE st[key].expires_at = None
        BY <4>1 DEF IsExpired
      <4>2. CASE st[key].expires_at # None
        <5>1. st[key].expires_at \in Nat
          BY <3>1, <4>2, TimestampAssumption DEF StoredValues, Timestamps
        <5>2. st[key].expires_at > now
          BY <1>2, <2>2, <4>2 DEF Dated
        <5> QED BY <5>1, <5>2 DEF IsExpired
      <4> QED BY <4>1, <4>2
    <3>3. Visible(st, key, now)
      BY <2>2, <3>2 DEF Visible
    <3> QED BY <1>2, <2>2, <3>3, DatesEffect DEF Outcome
  <2> QED BY <2>1, <2>2
<1>3. CASE ~Resets(record, key) /\ ~Dates(record, key)
  BY <1>3, OtherEffect DEF Outcome
<1> QED BY <1>1, <1>2, <1>3

\* A reset does not look at the value; the others see the same in the same.
LEMMA OutcomeSame ==
    ASSUME NEW record, NEW key, NEW value, NEW other,
           ~Resets(record, key) => value = other
    PROVE  Outcome(record, key, value) = Outcome(record, key, other)
BY DEF Outcome

(* A record on a store that fits the log before it leaves a store that fits
   the log with it. *)
LEMMA RecordFits ==
    ASSUME NEW log, NEW n \in Nat, NEW i, i = n + 1,
           NEW record \in Records, log[i] = record,
           NEW st \in Stores, NEW now \in Nat, NEW key \in Keys, NEW base,
           Fits(st[key], base, log, n, key, now)
    PROVE  Fits(Effect(record, st, now)[key], Outcome(record, key, base), log, i, key, now)
<1> DEFINE before == DeadlinesUpTo(log, n, key)
<1>1. i \in Nat \ {0} /\ i - 1 = n
  OBVIOUS
<1>2. DeadlinesUpTo(log, i, key) =
          IF Resets(record, key) THEN {}
          ELSE before \cup (IF Dates(record, key) THEN {record.at} ELSE {})
  <2>1. DeadlinesUpTo(log, i, key) =
            IF Resets(log[i], key) THEN {}
            ELSE DeadlinesUpTo(log, i - 1, key)
                     \cup (IF Dates(log[i], key) THEN {log[i].at} ELSE {})
    BY <1>1, DeadlinesStep
  <2>2. DeadlinesUpTo(log, i - 1, key) = before
    BY <1>1
  <2> QED BY <2>1, <2>2
<1>3. Ahead(log, i, key, now) /\ ~Resets(record, key) =>
          Ahead(log, n, key, now) /\ \A deadline \in before : deadline > now
  BY <1>2 DEF Ahead
<1>4. Dated(st[key], before)
  BY DEF Fits
<1> HIDE DEF before
<1>5. Dated(Effect(record, st, now)[key], DeadlinesUpTo(log, i, key))
  BY <1>2, <1>4, EffectDated
<1>6. ASSUME Ahead(log, i, key, now)
      PROVE  Effect(record, st, now)[key] = Outcome(record, key, base)
  <2>1. ~Resets(record, key) => st[key] = base /\ \A deadline \in before : deadline > now
    BY <1>3, <1>6 DEF Fits
  <2>2. Effect(record, st, now)[key] = Outcome(record, key, st[key])
    BY <1>4, <2>1, EffectOutcome
  <2> QED BY <2>1, <2>2, OutcomeSame
<1> QED BY <1>5, <1>6 DEF Fits

(* Deadlines only pass. *)
LEMMA FitsLater ==
    ASSUME NEW log \in Seq(Records), NEW i \in 0 .. Len(log), NEW key,
           NEW now \in Nat, NEW later \in Nat, now <= later,
           NEW value, NEW expected, Fits(value, expected, log, i, key, now)
    PROVE  Fits(value, expected, log, i, key, later)
<1>1. DeadlinesUpTo(log, i, key) \subseteq Nat
  <2> SUFFICES ASSUME NEW j \in 1 .. i, log[j].op = "EXPIREAT"
               PROVE  log[j].at \in Nat
    BY DEF DeadlinesUpTo
  <2>1. log[j] \in Records
    BY ElementOfSeq
  <2>2. log[j] \in WriteCommands
    BY <2>1 DEF Records, Torn
  <2> QED BY <2>2, TimestampAssumption DEF WriteCommands, Timestamps
<1>2. Ahead(log, i, key, later) => Ahead(log, i, key, now)
  BY <1>1 DEF Ahead
<1> QED BY <1>2 DEF Fits

(* What was timely stays timely. *)
LEMMA TimelyLater ==
    ASSUME NEW log \in Seq(Records), NEW stores, NEW now \in Nat, NEW later \in Nat,
           now <= later, NEW st
    PROVE  /\ LogTimely(log, stores, now) => LogTimely(log, stores, later)
           /\ StoreTimely(log, stores, st, now) => StoreTimely(log, stores, st, later)
<1>1. Len(log) \in 0 .. Len(log) /\ 1 .. Len(log) \subseteq 0 .. Len(log)
  OBVIOUS
<1>2. LogTimely(log, stores, now) => LogTimely(log, stores, later)
  BY <1>1, FitsLater DEF LogTimely
<1>3. StoreTimely(log, stores, st, now) => StoreTimely(log, stores, st, later)
  BY <1>1, FitsLater DEF StoreTimely
<1> QED BY <1>2, <1>3

(* Every prefix of the log has a store that fits it. *)
LEMMA AfterFits ==
    ASSUME NEW log, NEW stores, NEW now, LogTimely(log, stores, now),
           NEW i \in 0 .. Len(log), NEW key \in Keys
    PROVE  Fits(After(stores, i)[key], After(stores, i)[key], log, i, key, now)
<1>1. CASE i = 0
  BY <1>1, i \in 0 .. 0 DEF Fits, Dated, After, EmptyStore
<1>2. CASE i # 0
  <2>1. i \in 1 .. Len(log)
    BY <1>2
  <2> QED BY <2>1 DEF LogTimely, Fits
<1> QED BY <1>1, <1>2

(* Logs and stores that begin the same way fit the same way. *)
LEMMA FitsSame ==
    ASSUME NEW log, NEW log2, NEW n \in Nat, SameStart(log, log2, n),
           NEW i \in 0 .. n, NEW key, NEW now, NEW value, NEW expected,
           Fits(value, expected, log, i, key, now)
    PROVE  Fits(value, expected, log2, i, key, now)
<1>1. DeadlinesUpTo(log, i, key) = DeadlinesUpTo(log2, i, key)
  BY DeadlinesSame
<1> QED BY <1>1 DEF Fits, Ahead

(* The first n records are timely if the log is. *)
LEMMA PrefixTimely ==
    ASSUME NEW log, NEW stores, NEW now, LogTimely(log, stores, now),
           Len(log) \in Nat, NEW n \in 0 .. Len(log), NEW log2, NEW stores2,
           SameStart(log, log2, n), SameStart(stores, stores2, n),
           NEW i \in 1 .. n, NEW key \in Keys
    PROVE  Fits(After(stores2, i)[key],
                Outcome(log2[i], key, After(stores2, i - 1)[key]), log2, i, key, now)
<1>1. i \in 1 .. Len(log) /\ i \in 0 .. n /\ n \in Nat
  OBVIOUS
<1>2. After(stores2, i) = After(stores, i) /\ After(stores2, i - 1) = After(stores, i - 1)
  BY DEF SameStart, After
<1>3. log2[i] = log[i]
  BY DEF SameStart
<1> DEFINE value == After(stores, i)[key]
           expected == Outcome(log[i], key, After(stores, i - 1)[key])
<1>4. Fits(value, expected, log, i, key, now)
  BY <1>1 DEF LogTimely
<1> HIDE DEF value, expected
<1>5. Fits(value, expected, log2, i, key, now)
  BY <1>1, <1>4, FitsSame
<1> QED BY <1>2, <1>3, <1>5 DEF value, expected

(* One record more behind the first n, and the store that it makes of one that
   fits them. *)
LEMMA ExtendedTimely ==
    ASSUME NEW log, NEW stores, NEW now \in Nat, LogTimely(log, stores, now),
           Len(log) \in Nat, NEW n \in 0 .. Len(log), NEW m, m = n + 1,
           NEW log2, NEW stores2, Len(log2) = m,
           SameStart(log, log2, n), SameStart(stores, stores2, n),
           NEW old \in Stores, NEW record \in Records, log2[m] = record,
           stores2[m] = Effect(record, old, now),
           \A key \in Keys : Fits(old[key], After(stores, n)[key], log, n, key, now)
    PROVE  /\ LogTimely(log2, stores2, now)
           /\ StoreTimely(log2, stores2, stores2[m], now)
<1>1. n \in Nat /\ n \in 0 .. n /\ m # 0 /\ m - 1 = n
  OBVIOUS
<1>2. ASSUME NEW key \in Keys
      PROVE  Fits(stores2[m][key], Outcome(record, key, After(stores, n)[key]),
                  log2, m, key, now)
  <2>1. PICK base : base = After(stores, n)[key]
    OBVIOUS
  <2>2. PICK value : value = old[key]
    OBVIOUS
  <2>3. Fits(value, base, log, n, key, now)
    BY <2>1, <2>2
  <2>4. Fits(value, base, log2, n, key, now)
    BY <1>1, <2>3, FitsSame
  <2>5. Fits(old[key], base, log2, n, key, now)
    BY <2>2, <2>4
  <2>6. Fits(Effect(record, old, now)[key], Outcome(record, key, base), log2, m, key, now)
    BY <1>1, <2>5, RecordFits
  <2> QED BY <2>1, <2>6
<1>3. After(stores2, m) = stores2[m]
  BY <1>1 DEF After
<1>4. After(stores2, m - 1) = After(stores, n)
  BY <1>1 DEF After, SameStart
<1>5. ASSUME NEW i \in 1 .. Len(log2), NEW key \in Keys
      PROVE  Fits(After(stores2, i)[key],
                  Outcome(log2[i], key, After(stores2, i - 1)[key]), log2, i, key, now)
  <2>1. CASE i = m
    BY <1>2, <1>3, <1>4, <2>1
  <2>2. CASE i # m
    <3>1. i \in 1 .. n
      BY <1>1, <2>2
    <3> QED BY <3>1, PrefixTimely
  <2> QED BY <2>1, <2>2
<1>6. LogTimely(log2, stores2, now)
  BY <1>5 DEF LogTimely
<1>7. ASSUME NEW key \in Keys
      PROVE  Fits(stores2[m][key], After(stores2, Len(log2))[key],
                  log2, Len(log2), key, now)
  <2>1. Len(log2) \in 0 .. Len(log2)
    BY <1>1
  <2>2. Fits(After(stores2, Len(log2))[key], After(stores2, Len(log2))[key],
             log2, Len(log2), key, now)
    BY <1>6, <2>1, AfterFits
  <2> QED BY <1>3, <2>2
<1> QED BY <1>6, <1>7 DEF StoreTimely

-----------------------------------------------------------------------------
(* The steps of the server keep the log timely.                            *)

\* What the lemmas above ask of the log and the stores.
LEMMA LogTypes ==
    ASSUME TypeOK
    PROVE  /\ wal \in Seq(Records) /\ Len(wal) \in Nat /\ Len(history) = Len(wal)
           /\ history \in Seq(Stores) /\ clock \in Nat /\ ClientStore \in Stores
           /\ Torn \in Records
BY MaxClockType DEF TypeOK, Records, ClientStore

(* Nothing in Timely changes while the clock, the log, the stores it left and
   the clients' store stay. *)
LEMMA TimelyUnchanged ==
    ASSUME Timely, clock' = clock, wal' = wal, history' = history,
           ClientStore' = ClientStore
    PROVE  Timely'
<1> DEFINE st == ClientStore
<1>1. LogTimely(wal, history, clock) /\ StoreTimely(wal, history, st, clock)
  BY DEF Timely
<1>2. LogTimely(wal', history', clock') /\ StoreTimely(wal', history', ClientStore', clock')
  BY <1>1
<1> QED BY <1>2 DEF Timely

(* A record that clients sent, or the torn rest of one, keeps the log timely
   together with the store that it makes of theirs. *)
LEMMA TimelyAppend ==
    ASSUME TypeOK, Timely, NEW record \in Records,
           NEW log2, log2 = Append(wal, record),
           NEW stores2, stores2 = Append(history, Effect(record, ClientStore, clock))
    PROVE  /\ LogTimely(log2, stores2, clock)
           /\ StoreTimely(log2, stores2, Effect(record, ClientStore, clock), clock)
<1>1. PICK log \in Seq(Records) : log = wal
  BY LogTypes
<1>2. PICK stores \in Seq(Stores) : stores = history
  BY LogTypes
<1>3. PICK now \in Nat : now = clock
  BY LogTypes
<1>4. PICK old \in Stores : old = ClientStore
  BY LogTypes
<1>5. PICK n \in 0 .. Len(log) : n = Len(log) /\ n = Len(stores)
  BY <1>1, <1>2, LogTypes
<1>6. PICK m : m = n + 1
  OBVIOUS
<1>7. PICK st \in Stores : st = Effect(record, old, now)
  BY EffectType
<1>8. log2 = Append(log, record) /\ stores2 = Append(stores, st)
  BY <1>1, <1>2, <1>3, <1>4, <1>7
<1>9. Len(log2) = m /\ log2[m] = record /\ SameStart(log, log2, n)
  <2>1. Len(log2) = Len(log) + 1 /\ log2[Len(log) + 1] = record
    BY <1>8, AppendProperties
  <2>2. \A j \in 1 .. Len(log) : log2[j] = log[j]
    BY <1>8, AppendProperties
  <2> QED BY <1>5, <1>6, <2>1, <2>2 DEF SameStart
<1>10. stores2[m] = Effect(record, old, now) /\ SameStart(stores, stores2, n)
  BY <1>5, <1>6, <1>7, <1>8, AppendProperties DEF SameStart
<1>11. LogTimely(log, stores, now) /\ StoreTimely(log, stores, old, now)
  BY <1>1, <1>2, <1>3, <1>4 DEF Timely
<1>12. \A key \in Keys : Fits(old[key], After(stores, n)[key], log, n, key, now)
  BY <1>5, <1>11 DEF StoreTimely
<1>13. Len(log) \in Nat
  OBVIOUS
<1>14. LogTimely(log2, stores2, now) /\ StoreTimely(log2, stores2, stores2[m], now)
  BY <1>6, <1>9, <1>10, <1>11, <1>12, <1>13, ExtendedTimely
<1> QED BY <1>3, <1>4, <1>10, <1>14

(* The records that a power loss leaves, and the torn one behind them. *)
LEMMA TimelyPowerLoss ==
    ASSUME TypeOK, Timely, NEW n, NEW torn \in BOOLEAN, PowerLoss(n, torn)
    PROVE  Timely'
<1>1. PICK log \in Seq(Records) : log = wal
  BY LogTypes
<1>2. PICK stores \in Seq(Stores) : stores = history
  BY LogTypes
<1>3. PICK now \in Nat : now = clock
  BY LogTypes
<1>4. n \in 0 .. Len(log) /\ n \in 0 .. Len(stores) /\ n \in Nat /\ n \in 0 .. n
  BY <1>1, <1>2 DEF TypeOK, PowerLoss
<1>5. PICK old \in Stores : old = After(stores, n)
  BY <1>1, <1>2, <1>4, AfterType
<1>6. PICK record \in Records : record = Torn
  BY LogTypes
<1>7. LogTimely(log, stores, now) /\ StoreTimely(log, stores, ClientStore, now)
  BY <1>1, <1>2, <1>3 DEF Timely
<1>8. ClientStore' = preCrash' /\ clock' = clock
  BY DEF PowerLoss, LoseMemory, ClientStore
<1>9. Len(log) \in Nat
  OBVIOUS
<1>10. CASE torn
  <2>1. PICK log2 : log2 = SubSeq(log, 1, n) \o <<record>>
    OBVIOUS
  <2>2. PICK stores2 : stores2 = SubSeq(stores, 1, n) \o <<old>>
    OBVIOUS
  <2>3. wal' = log2 /\ history' = stores2 /\ preCrash' = old
    BY <1>1, <1>2, <1>4, <1>5, <1>6, <1>10, <2>1, <2>2 DEF PowerLoss
  <2>4. PICK m : m = n + 1
    OBVIOUS
  <2>5. Len(log2) = m /\ log2[m] = record /\ SameStart(log, log2, n)
    BY <1>4, <2>1, <2>4, PrefixType DEF SameStart
  <2>6. stores2[m] = old /\ SameStart(stores, stores2, n)
    BY <1>4, <2>2, <2>4, PrefixType DEF SameStart
  <2>7. stores2[m] = Effect(record, old, now)
    BY <1>6, <2>6 DEF Effect
  <2>8. \A key \in Keys : Fits(old[key], After(stores, n)[key], log, n, key, now)
    BY <1>4, <1>5, <1>7, AfterFits
  <2>9. LogTimely(log2, stores2, now) /\ StoreTimely(log2, stores2, stores2[m], now)
    BY <1>4, <1>7, <1>9, <2>4, <2>5, <2>6, <2>7, <2>8, ExtendedTimely
  <2> QED BY <1>3, <1>8, <2>3, <2>6, <2>9 DEF Timely
<1>11. CASE ~torn
  <2>1. PICK log2 : log2 = SubSeq(log, 1, n) \o <<>>
    OBVIOUS
  <2>2. PICK stores2 : stores2 = SubSeq(stores, 1, n) \o <<>>
    OBVIOUS
  <2>3. wal' = log2 /\ history' = stores2
    BY <1>1, <1>2, <1>11, <2>1, <2>2 DEF PowerLoss
  <2>4. Len(log2) = n /\ SameStart(log, log2, n)
    BY <1>4, <1>6, <2>1, PrefixType DEF SameStart
  <2>5. SameStart(stores, stores2, n)
    BY <1>4, <1>5, <2>2, PrefixType DEF SameStart
  <2>6. LogTimely(log2, stores2, now)
    BY <1>4, <1>7, <1>9, <2>4, <2>5, PrefixTimely DEF LogTimely
  <2>7. After(stores2, n) = After(stores, n)
    BY <1>4, <2>5 DEF After, SameStart
  <2>8. StoreTimely(log2, stores2, preCrash', now)
    <3>1. CASE n = Len(log)
      <4>1. preCrash' = ClientStore
        BY <1>1, <3>1 DEF PowerLoss
      <4>2. PICK st : st = ClientStore
        OBVIOUS
      <4>3. ASSUME NEW key \in Keys
            PROVE  Fits(st[key], After(stores2, n)[key], log2, n, key, now)
        <5>1. PICK value, expected : value = st[key] /\ expected = After(stores, n)[key]
          OBVIOUS
        <5>2. Fits(value, expected, log, n, key, now)
          BY <1>7, <3>1, <4>2, <5>1 DEF StoreTimely
        <5>3. Fits(value, expected, log2, n, key, now)
          BY <1>4, <2>4, <5>2, FitsSame
        <5> QED BY <2>7, <5>1, <5>3
      <4> QED BY <2>4, <4>1, <4>2, <4>3 DEF StoreTimely
    <3>2. CASE n # Len(log)
      <4>1. preCrash' = After(stores2, n)
        BY <1>1, <1>2, <2>7, <3>2 DEF PowerLoss
      <4>2. \A key \in Keys :
               Fits(After(stores2, n)[key], After(stores2, n)[key], log2, n, key, now)
        BY <1>4, <2>4, <2>6, AfterFits
      <4> QED BY <2>4, <4>1, <4>2 DEF StoreTimely
    <3> QED BY <3>1, <3>2
  <2> QED BY <1>3, <1>8, <2>3, <2>6, <2>8 DEF Timely
<1> QED BY <1>10, <1>11

(* A replay step overwrites what the record left the last time; as long as the
   deadlines are ahead, it left the same. *)
LEMMA TimelyReplayStep ==
    ASSUME TypeOK, Recoverable, Timely, ReplayStep
    PROVE  Timely'
<1>1. PICK log \in Seq(Records) : log = wal
  BY LogTypes
<1>2. PICK stores \in Seq(Stores) : stores = history
  BY LogTypes
<1>3. PICK now \in Nat : now = clock
  BY LogTypes
<1>4. PICK p \in 1 .. Len(log) : p = pos + 1 /\ pos = p - 1
  BY <1>1 DEF TypeOK, ReplayStep
<1>5. Len(log) \in Nat /\ Len(stores) = Len(log) /\ p - 1 \in 0 .. Len(log)
  BY <1>1, <1>2, LogTypes
<1>6. PICK record \in Records : record = log[p] /\ record # Torn
  BY <1>1, <1>4, ElementOfSeq DEF ReplayStep
<1>7. PICK old \in Stores : old = After(stores, p - 1)
  BY <1>1, <1>2, <1>5, AfterType
<1>8. PICK st : st = Effect(record, old, now)
  OBVIOUS
<1>9. store = old
  BY <1>2, <1>4, <1>7 DEF Recoverable, ReplayStep
<1>10. store' = st
  BY <1>1, <1>3, <1>4, <1>6, <1>8, <1>9 DEF ReplayStep, Effect
<1>11. PICK stores2 : stores2 = [stores EXCEPT ![p] = st]
  OBVIOUS
<1>12. /\ wal' = log /\ history' = stores2 /\ clock' = now
       /\ ClientStore' = ClientStore
  BY <1>1, <1>2, <1>3, <1>4, <1>10, <1>11 DEF ReplayStep, ClientStore
<1>13. \A i \in 0 .. Len(log) :
           After(stores2, i) = IF i = p THEN st ELSE After(stores, i)
  BY <1>4, <1>5, <1>11 DEF After
<1>14. LogTimely(log, stores, now) /\ StoreTimely(log, stores, ClientStore, now)
  BY <1>1, <1>2, <1>3 DEF Timely
<1>15. \A key \in Keys : Fits(st[key], Outcome(record, key, old[key]), log, p, key, now)
  <2> TAKE key \in Keys
  <2>1. PICK n \in Nat : n = p - 1 /\ p = n + 1
    OBVIOUS
  <2>2. Fits(old[key], old[key], log, n, key, now)
    BY <1>5, <1>7, <1>14, <2>1, AfterFits
  <2>3. PICK base : base = old[key]
    OBVIOUS
  <2>4. Fits(Effect(record, old, now)[key], Outcome(record, key, base), log, p, key, now)
    BY <1>6, <2>1, <2>2, <2>3, RecordFits
  <2> QED BY <1>8, <2>3, <2>4
<1>16. \A key \in Keys : Ahead(log, p, key, now) => st[key] = After(stores, p)[key]
  BY <1>6, <1>7, <1>14, <1>15 DEF LogTimely, Fits
<1>17. ASSUME NEW i \in 1 .. Len(log), NEW key \in Keys
       PROVE  Fits(After(stores2, i)[key],
                   Outcome(log[i], key, After(stores2, i - 1)[key]), log, i, key, now)
  <2>1. i \in 0 .. Len(log) /\ i - 1 \in 0 .. Len(log)
    BY <1>5
  <2>2. Fits(After(stores, i)[key], Outcome(log[i], key, After(stores, i - 1)[key]),
             log, i, key, now)
    BY <1>14 DEF LogTimely
  <2>3. CASE i = p
    <3>1. After(stores2, i) = st /\ After(stores2, i - 1) = old
      BY <1>7, <1>13, <2>1, <2>3
    <3> QED BY <1>6, <1>15, <2>3, <3>1
  <2>4. CASE i - 1 = p
    <3>1. After(stores2, i) = After(stores, i) /\ After(stores2, i - 1) = st
      BY <1>13, <2>1, <2>4
    <3>2. ASSUME ~Resets(log[i], key), Ahead(log, i, key, now)
          PROVE  st[key] = After(stores, p)[key]
      <4>1. i \in Nat \ {0} /\ i - 1 = p
        BY <2>4
      <4>2. DeadlinesUpTo(log, i, key) =
                IF Resets(log[i], key) THEN {}
                ELSE DeadlinesUpTo(log, i - 1, key)
                         \cup (IF Dates(log[i], key) THEN {log[i].at} ELSE {})
        BY <4>1, DeadlinesStep
      <4>3. DeadlinesUpTo(log, i - 1, key) = DeadlinesUpTo(log, p, key)
        BY <4>1
      <4>4. Ahead(log, p, key, now)
        BY <3>2, <4>2, <4>3 DEF Ahead
      <4> QED BY <1>16, <4>4
    <3>3. PICK value, other : value = After(stores, i - 1)[key] /\ other = st[key]
      OBVIOUS
    <3>4. Ahead(log, i, key, now) =>
              Outcome(log[i], key, value) = Outcome(log[i], key, other)
      BY <2>4, <3>2, <3>3, OutcomeSame
    <3> QED BY <2>2, <3>1, <3>3, <3>4 DEF Fits
  <2>5. CASE i # p /\ i - 1 # p
    BY <1>13, <2>1, <2>2, <2>5
  <2> QED BY <2>3, <2>4, <2>5
<1>18. ASSUME NEW key \in Keys, NEW value, value = ClientStore[key]
       PROVE  Fits(value, After(stores2, Len(log))[key], log, Len(log), key, now)
  <2>1. Fits(value, After(stores, Len(log))[key], log, Len(log), key, now)
    BY <1>14, <1>18 DEF StoreTimely
  <2>2. Len(log) \in 0 .. Len(log)
    BY <1>5
  <2>3. Ahead(log, Len(log), key, now) =>
            After(stores2, Len(log))[key] = After(stores, Len(log))[key]
    BY <1>13, <1>16, <2>2
  <2> QED BY <2>1, <2>3 DEF Fits
<1>19. LogTimely(log, stores2, now) /\ StoreTimely(log, stores2, ClientStore, now)
  BY <1>17, <1>18 DEF LogTimely, StoreTimely
<1> QED BY <1>12, <1>19 DEF Timely

(* The cleanup task takes only what has expired. *)
LEMMA TimelyRemoved ==
    ASSUME NEW log \in Seq(Records), NEW stores, NEW now \in Nat, NEW st \in Stores,
           StoreTimely(log, stores, st, now), NEW gone \in SUBSET ExpiredKeys(st, now)
    PROVE  StoreTimely(log, stores, RemoveKeys(gone, st), now)
<1> SUFFICES ASSUME NEW key \in Keys
             PROVE  Fits(RemoveKeys(gone, st)[key], After(stores, Len(log))[key],
                         log, Len(log), key, now)
  BY DEF StoreTimely
<1>1. Fits(st[key], After(stores, Len(log))[key], log, Len(log), key, now)
  BY DEF StoreTimely
<1>2. RemoveKeys(gone, st)[key] = IF key \in gone THEN None ELSE st[key]
  BY DEF RemoveKeys
<1>3. CASE key \notin gone
  BY <1>1, <1>2, <1>3
<1>4. CASE key \in gone
  <2>1. st[key] # None /\ IsExpired(st[key], now)
    BY <1>4 DEF ExpiredKeys
  <2>2. st[key].expires_at \in DeadlinesUpTo(log, Len(log), key)
    BY <1>1, <2>1 DEF Fits, Dated, IsExpired
  <2>3. st[key].expires_at \in Nat /\ st[key].expires_at <= now
    <3>1. st[key] \in StoredValues /\ st[key].expires_at # None
      BY <2>1 DEF Stores, IsExpired
    <3> QED BY <2>1, <3>1, TimestampAssumption DEF StoredValues, Timestamps, IsExpired
  <2>4. ~Ahead(log, Len(log), key, now)
    BY <2>2, <2>3 DEF Ahead
  <2> QED BY <1>2, <1>4, <2>4 DEF Fits, Dated
<1> QED BY <1>3, <1>4

\* Nothing is logged yet.
LEMMA TimelyInit == Init => Timely
<1> SUFFICES ASSUME Init PROVE Timely
  OBVIOUS
<1>1. Len(wal) = 0 /\ ClientStore = EmptyStore /\ After(history, 0) = EmptyStore
  BY DEF Init, ClientStore, After
<1>2. LogTimely(wal, history, clock)
  BY <1>1 DEF LogTimely
<1>3. StoreTimely(wal, history, ClientStore, clock)
  BY <1>1 DEF StoreTimely, Fits, Dated, EmptyStore
<1> QED BY <1>2, <1>3 DEF Timely

(* Each step of the server, of its environment and of a restart keeps the log
   timely. *)
LEMMA TimelyStep ==
    ASSUME TypeOK, Recoverable, Timely, [Next]_vars
    PROVE  Timely'
<1>1. CASE Tick
  <2>1. PICK log \in Seq(Records) : log = wal
    BY LogTypes
  <2>2. PICK now \in Nat : now = clock
    BY LogTypes
  <2>3. PICK later \in Nat : later = clock' /\ now <= later
    BY <1>1, <2>2 DEF Tick
  <2>4. PICK stores, st : stores = history /\ st = ClientStore
    OBVIOUS
  <2>5. wal' = log /\ history' = stores /\ ClientStore' = st
    BY <1>1, <2>1, <2>4 DEF Tick, ClientStore
  <2>6. LogTimely(log, stores, now) /\ StoreTimely(log, stores, st, now)
    BY <2>1, <2>2, <2>4 DEF Timely
  <2>7. LogTimely(log, stores, later) /\ StoreTimely(log, stores, st, later)
    BY <2>3, <2>6, TimelyLater
  <2> QED BY <2>3, <2>5, <2>7 DEF Timely
<1>2. ASSUME NEW cmd \in WriteCommands, Write(cmd) PROVE Timely'
  <2>1. cmd \in Records /\ cmd # Torn
    BY TornIsNoCommand DEF Records
  <2>2. store' = Effect(cmd, ClientStore, clock) /\ ClientStore' = store'
    BY <1>2, <2>1 DEF Write, ClientStore, Effect
  <2>3. PICK log2, stores2 : log2 = wal' /\ stores2 = history'
    OBVIOUS
  <2>4. log2 = Append(wal, cmd) /\ stores2 = Append(history, Effect(cmd, ClientStore, clock))
    BY <1>2, <2>2, <2>3 DEF Write
  <2>5. /\ LogTimely(log2, stores2, clock)
        /\ StoreTimely(log2, stores2, Effect(cmd, ClientStore, clock), clock)
    BY <2>1, <2>4, TimelyAppend
  <2>6. clock' = clock
    BY <1>2 DEF Write
  <2> QED BY <2>2, <2>3, <2>5, <2>6 DEF Timely
<1>3. CASE WriteFails \/ KillInAppend
  <2>1. Torn \in Records /\ Effect(Torn, ClientStore, clock) = ClientStore
    BY DEF Records, Effect
  <2>2. ClientStore' = ClientStore /\ ClientStore = store /\ clock' = clock
    BY <1>3 DEF WriteFails, KillInAppend, LoseMemory, ClientStore
  <2>3. PICK log2, stores2 : log2 = wal' /\ stores2 = history'
    OBVIOUS
  <2>4. log2 = Append(wal, Torn) /\ stores2 = Append(history, Effect(Torn, ClientStore, clock))
    BY <1>3, <2>1, <2>2, <2>3 DEF WriteFails, KillInAppend
  <2>5. /\ LogTimely(log2, stores2, clock)
        /\ StoreTimely(log2, stores2, Effect(Torn, ClientStore, clock), clock)
    BY <2>1, <2>4, TimelyAppend
  <2> QED BY <2>1, <2>2, <2>3, <2>5 DEF Timely
<1>4. ASSUME NEW later \in 0 .. MaxClock, NEW gone \in SUBSET Keys,
             RemoveExpired(later, gone)
      PROVE  Timely'
  <2>1. PICK log \in Seq(Records) : log = wal
    BY LogTypes
  <2>2. PICK now \in Nat : now = clock
    BY LogTypes
  <2>3. PICK stores : stores = history
    OBVIOUS
  <2>4. PICK st \in Stores : st = ClientStore
    BY LogTypes
  <2>5. later \in Nat /\ now <= later
    BY <1>4, <2>2, MaxClockType DEF RemoveExpired
  <2>6. /\ gone \in SUBSET ExpiredKeys(st, later)
        /\ ClientStore' = RemoveKeys(gone, st) /\ clock' = later
        /\ wal' = log /\ history' = stores
    BY <1>4, <2>1, <2>3, <2>4 DEF RemoveExpired, ClientStore
  <2>7. LogTimely(log, stores, now) /\ StoreTimely(log, stores, st, now)
    BY <2>1, <2>2, <2>3, <2>4 DEF Timely
  <2>8. LogTimely(log, stores, later) /\ StoreTimely(log, stores, st, later)
    BY <2>5, <2>7, TimelyLater
  <2>9. StoreTimely(log, stores, RemoveKeys(gone, st), later)
    BY <2>5, <2>6, <2>8, TimelyRemoved
  <2> QED BY <2>6, <2>8, <2>9 DEF Timely
<1>5. CASE Sync \/ SyncFails \/ Kill \/ Start \/ ReplayFails \/ UNCHANGED vars
  <2>1. ClientStore' = ClientStore
    BY <1>5 DEF Sync, SyncFails, Kill, Start, ReplayFails, LoseMemory, vars, ClientStore
  <2> QED BY <1>5, <2>1, TimelyUnchanged
          DEF Sync, SyncFails, Kill, Start, ReplayFails, vars
<1>6. ASSUME NEW n \in 0 .. MaxWal, NEW torn \in BOOLEAN, PowerLoss(n, torn)
      PROVE  Timely'
  BY <1>6, TimelyPowerLoss
<1>7. CASE ReplayStep
  BY <1>7, TimelyReplayStep
<1>8. CASE ReplayDone
  <2>1. PICK log, stores, now : log = wal /\ stores = history /\ now = clock
    OBVIOUS
  <2>2. Len(log) \in 0 .. Len(log)
    BY <2>1, LogTypes
  <2>3. LogTimely(log, stores, now)
    BY <2>1 DEF Timely
  <2>4. StoreTimely(log, stores, After(stores, Len(log)), now)
    BY <2>2, <2>3, AfterFits DEF StoreTimely
  <2>5. ClientStore' = After(stores, Len(log)) /\ wal' = log /\ history' = stores /\ clock' = now
    BY <1>8, <2>1 DEF ReplayDone, Recoverable, ClientStore
  <2> QED BY <2>3, <2>4, <2>5 DEF Timely
<1> QED BY <1>1, <1>2, <1>3, <1>4, <1>5, <1>6, <1>7, <1>8 DEF Next

(* At every moment, a replay on time would rebuild every key whose deadlines
   in the log are all ahead. *)
THEOREM LogIsTimely == Spec => []Timely
<1>1. TypeOK /\ Recoverable /\ Timely /\ [Next]_vars => Timely'
  BY TimelyStep
<1> QED BY <1>1, TimelyInit, LogExplainsStore, TypeCorrect, PTL DEF Spec

(* A restart loses a live key only if the log holds a deadline for it that
   has passed. *)
THEOREM RestartsLoseOnlyPassed == Spec => LossNeedsPassedDeadline
<1>1. ASSUME TypeOK, Recoverable, Timely, [Next]_vars, Completed, NEW key \in Keys,
             \A deadline \in Deadlines(key) : deadline > clock
      PROVE  store'[key] = preCrash[key]
  <2>1. CASE ReplayDone
    <3>1. Deadlines(key) = DeadlinesUpTo(wal, Len(wal), key)
      BY LogTypes DEF Deadlines, DeadlinesUpTo
    <3>2. Ahead(wal, Len(wal), key, clock)
      BY <1>1, <3>1 DEF Ahead
    <3>3. ClientStore[key] = After(history, Len(wal))[key]
      BY <1>1, <3>2 DEF Timely, StoreTimely, Fits
    <3> QED BY <1>1, <2>1, <3>3 DEF ReplayDone, Recoverable, ClientStore
  <2>2. CASE ~ReplayDone
    BY <1>1, <2>2 DEF Completed, Next, vars, Tick, Write, WriteFails, RemoveExpired,
                      Sync, SyncFails, Kill, KillInAppend, PowerLoss, LoseMemory,
                      Start, ReplayStep, ReplayFails
  <2> QED BY <2>1, <2>2
<1>2. TypeOK /\ Recoverable /\ Timely /\ [Next]_vars =>
        [Completed => \A key \in Keys :
            /\ Visible(preCrash, key, clock)
            /\ \A deadline \in Deadlines(key) : deadline > clock
            => store'[key] = preCrash[key]]_vars
  BY <1>1
<1> QED BY <1>2, LogIsTimely, LogExplainsStore, TypeCorrect, PTL
        DEF Spec, LossNeedsPassedDeadline
=============================================================================
