-------------------------- MODULE ConnectionsProofs --------------------------
(* The lock of Connections is kept, what its clients meet is the map of      *)
(* ExpiringMap, TTL tells what a GET of the same moment finds, and EXPIRE    *)
(* counts its seconds from a moment of its call: for every set of clients,   *)
(* keys, values and requests and for every bound.                            *)
EXTENDS Connections, CommandsProofs, FiniteSetTheorems

-----------------------------------------------------------------------------
(* Live, the store without its expired entries: every command answers on it *)
(* what it answers on the store, and what shows of the result is the same;  *)
(* so do time and the cleanup leave what shows.                             *)

\* What Live shows of one key.
Shown(st, key, now) == IF Visible(st, key, now) THEN st[key] ELSE None

LEMMA LiveIsShown ==
    ASSUME NEW st, NEW now
    PROVE  /\ Live(st, now) = [key \in Keys |-> Shown(st, key, now)]
           /\ \A key \in Keys : Live(st, now)[key] = Shown(st, key, now)
BY DEF Live, Shown

(* Whatever the key, Live shows it exactly when the store does. *)
LEMMA LiveShows ==
    ASSUME NEW st \in Stores, NEW now, NEW key \in Keys
    PROVE  /\ Live(st, now) \in Stores
           /\ Visible(Live(st, now), key, now) <=> Visible(st, key, now)
           /\ Live(st, now)[key] # None <=> Visible(st, key, now)
           /\ Visible(st, key, now) => Live(st, now)[key] = st[key]
           /\ Shown(Live(st, now), key, now) = Shown(st, key, now)
<1>1. Live(st, now) \in Stores
  BY DEF Live, Stores
<1>2. Live(st, now)[key] = IF Visible(st, key, now) THEN st[key] ELSE None
  BY DEF Live
<1>3. Visible(st, key, now) => st[key] # None
  BY DEF Visible
<1>4. Visible(Live(st, now), key, now) <=> Visible(st, key, now)
  BY <1>2 DEF Visible
<1> QED BY <1>1, <1>2, <1>3, <1>4 DEF Shown

(* Two stores that show the same have the same Live. *)
LEMMA LiveEqual ==
    ASSUME NEW st, NEW now, NEW other, NEW later,
           \A key \in Keys : Shown(st, key, now) = Shown(other, key, later)
    PROVE  Live(st, now) = Live(other, later)
BY LiveIsShown

(* What has expired stays expired (is_expired). *)
LEMMA LiveLater ==
    ASSUME NEW st \in Stores, NEW now \in Nat, NEW later \in Nat, now <= later
    PROVE  Live(Live(st, now), later) = Live(st, later)
<1>1. ASSUME NEW key \in Keys
      PROVE  Shown(Live(st, now), key, later) = Shown(st, key, later)
  <2>1. Live(st, now)[key] = Shown(st, key, now)
    BY LiveIsShown
  <2>2. st[key] = None \/ (st[key] # None /\ st[key] \in StoredValues)
    BY DEF Stores
  <2>3. CASE st[key] = None
    BY <2>1, <2>3 DEF Shown, Visible
  <2>4. CASE st[key] # None /\ st[key] \in StoredValues
    <3>1. st[key].expires_at = None \/ (st[key].expires_at # None /\ st[key].expires_at \in Nat)
      BY <2>4, TimestampAssumption DEF StoredValues, Timestamps
    <3>2. IsExpired(st[key], now) => IsExpired(st[key], later)
      BY <3>1 DEF IsExpired
    <3> QED BY <2>1, <2>4, <3>2 DEF Shown, Visible
  <2> QED BY <2>2, <2>3, <2>4
<1> QED BY <1>1, LiveEqual

(* The cleanup takes out only what does not show (remove_expired). *)
LEMMA LiveCleaned ==
    ASSUME NEW st \in Stores, NEW now, NEW gone \in SUBSET ExpiredKeys(st, now)
    PROVE  Live(RemoveKeys(gone, st), now) = Live(st, now)
<1>1. ASSUME NEW key \in Keys
      PROVE  Shown(RemoveKeys(gone, st), key, now) = Shown(st, key, now)
  BY DEF Shown, RemoveKeys, ExpiredKeys, Visible
<1> QED BY <1>1, LiveEqual

(* A look at one key gives the same on Live as on the store, which still has
   its expired entries (apply_mget, apply_getall, apply_del). *)
LEMMA LiveGathered ==
    ASSUME NEW st \in Stores, NEW now, NEW cmd, NEW key \in Keys
    PROVE  Gathered(cmd, key, Live(st, now), now) = Gathered(cmd, key, st, now)
<1>1. ApplyGet(key, Live(st, now), now) = ApplyGet(key, st, now)
  BY LiveShows DEF ApplyGet
<1>2. ApplyGetAll(key, Live(st, now), now) = ApplyGetAll(key, st, now)
  BY LiveShows DEF ApplyGetAll
<1>3. DelCount(key, Live(st, now), now) = DelCount(key, st, now)
  <2>1. ASSUME NEW s \in Stores
        PROVE  EjectIfExpired(s, key, now)[key] = None <=> ~Visible(s, key, now)
    BY <2>1 DEF EjectIfExpired, Visible, Stores
  <2> QED BY <2>1, LiveShows DEF DelCount
<1> QED BY <1>1, <1>2, <1>3 DEF Gathered

(* DEL takes its key out of both (apply_del). *)
LEMMA LiveAfterLook ==
    ASSUME NEW st \in Stores, NEW now, NEW cmd, NEW key \in Keys
    PROVE  /\ Live(StoreAfterLook(cmd, key, st), now) = StoreAfterLook(cmd, key, Live(st, now))
           /\ StoreAfterLook(cmd, key, st) \in Stores
<1>1. Live(RemoveKeys({key}, st), now) = RemoveKeys({key}, Live(st, now))
  <2>1. \A k \in Keys : Shown(RemoveKeys({key}, st), k, now)
                          = IF k = key THEN None ELSE Shown(st, k, now)
    BY DEF Shown, RemoveKeys, Visible
  <2>2. RemoveKeys({key}, Live(st, now))
          = [k \in Keys |-> IF k = key THEN None ELSE Shown(st, k, now)]
    BY LiveIsShown DEF RemoveKeys
  <2> QED BY <2>1, <2>2, LiveIsShown
<1>2. RemoveKeys({key}, st) \in Stores
  BY DEF RemoveKeys, Stores
<1> QED BY <1>1, <1>2 DEF StoreAfterLook

(* A write, made on what shows, shows what it shows when it is made on the
   store with its expired entries (apply_set, apply_mset, apply_expire_at). *)
LEMMA LiveAtEnd ==
    ASSUME NEW st \in Stores, NEW now, NEW cmd \in WriteCommands
    PROVE  Live(StoreAtEnd(cmd, Live(st, now), now), now) = Live(StoreAtEnd(cmd, st, now), now)
<1> DEFINE live == Live(st, now)
<1>1. live \in Stores /\ \A k \in Keys : Shown(live, k, now) = Shown(st, k, now)
  <2>1. Live(st, now) \in Stores
    BY DEF Live, Stores
  <2> QED BY <2>1, LiveShows
<1>2. CASE cmd.op = "SET"
  <2>1. cmd.key \in Keys
    BY <1>2 DEF WriteCommands
  <2>2. \A k \in Keys : Shown(ApplySet(cmd.key, cmd.value, live), k, now)
                          = Shown(ApplySet(cmd.key, cmd.value, st), k, now)
    <3> HIDE DEF live
    <3> QED BY <1>1, <2>1 DEF ApplySet, Shown, Visible, Stores
  <2> QED BY <1>2, <2>2, LiveEqual DEF StoreAtEnd, ApplyWrite
<1>3. CASE cmd.op = "MSET"
  <2>1. \A k \in Keys : Shown(ApplyMSet(cmd.entries, live), k, now)
                          = Shown(ApplyMSet(cmd.entries, st), k, now)
    <3> HIDE DEF live
    <3>1. SUFFICES ASSUME NEW k \in Keys
                   PROVE  Shown(ApplyMSet(cmd.entries, live), k, now)
                            = Shown(ApplyMSet(cmd.entries, st), k, now)
      OBVIOUS
    <3>2. CASE \E i \in DOMAIN cmd.entries : cmd.entries[i][1] = k
      <4>1. ApplyMSet(cmd.entries, live)[k] = ApplyMSet(cmd.entries, st)[k]
        BY <3>2 DEF ApplyMSet
      <4> QED BY <4>1 DEF Shown, Visible
    <3>3. CASE ~\E i \in DOMAIN cmd.entries : cmd.entries[i][1] = k
      <4>1. ApplyMSet(cmd.entries, live)[k] = live[k] /\ ApplyMSet(cmd.entries, st)[k] = st[k]
        BY <3>3 DEF ApplyMSet
      <4> QED BY <1>1, <4>1 DEF Shown, Visible
    <3> QED BY <3>2, <3>3
  <2> QED BY <1>3, <2>1, LiveEqual DEF StoreAtEnd, ApplyWrite
<1>4. CASE cmd.op = "DEL"
  <2>1. \A k \in Keys : Shown(live, k, now) = Shown(st, k, now)
    BY <1>1
  <2> QED BY <1>4, <2>1, LiveEqual DEF StoreAtEnd
<1>5. CASE cmd.op = "EXPIREAT"
  <2>1. cmd.key \in Keys
    BY <1>5 DEF WriteCommands
  <2> DEFINE Moved(s, k) == IF k # cmd.key THEN s[k]
                            ELSE IF Visible(s, k, now) THEN [s[k] EXCEPT !.expires_at = cmd.at]
                            ELSE None
  <2>2. ASSUME NEW s \in Stores, NEW k \in Keys
        PROVE  ApplyExpireAt(cmd.key, cmd.at, s, now)[k] = Moved(s, k)
    BY <2>1, <2>2 DEF ApplyExpireAt, EjectIfExpired, Visible, Stores
  <2>3. ASSUME NEW k \in Keys
        PROVE  Shown(ApplyExpireAt(cmd.key, cmd.at, live, now), k, now)
                 = Shown(ApplyExpireAt(cmd.key, cmd.at, st, now), k, now)
    <3>1. /\ ApplyExpireAt(cmd.key, cmd.at, live, now)[k] = Moved(live, k)
          /\ ApplyExpireAt(cmd.key, cmd.at, st, now)[k] = Moved(st, k)
      BY <1>1, <2>2
    <3>2. CASE k = cmd.key
      <4>1. Moved(live, k) = Moved(st, k)
        BY <3>2, LiveShows
      <4> HIDE DEF Moved, live
      <4> QED BY <3>1, <4>1 DEF Shown, Visible
    <3>3. CASE k # cmd.key
      <4>1. Moved(live, k) = live[k] /\ Moved(st, k) = st[k]
        BY <3>3
      <4> HIDE DEF Moved, live
      <4> QED BY <1>1, <3>1, <4>1 DEF Shown, Visible
    <3> QED BY <3>2, <3>3
  <2> QED BY <1>5, <2>3, LiveEqual DEF StoreAtEnd, ApplyWrite
<1> QED BY <1>2, <1>3, <1>4, <1>5 DEF WriteCommands

(* A command that comes to its end answers the same (apply_read, apply_write). *)
LEMMA LiveAnswer ==
    ASSUME NEW st \in Stores, NEW now, NEW cmd, NEW gathered,
           cmd.op \in {"SET", "MSET", "DEL", "MGET", "GETALL"} \/ cmd.key \in Keys
    PROVE  Answer(cmd, gathered, Live(st, now), now) = Answer(cmd, gathered, st, now)
<1>1. CASE cmd.op \in {"SET", "MSET", "DEL", "MGET", "GETALL"}
  BY <1>1 DEF Answer
<1>2. CASE cmd.key \in Keys
  <2>1. ApplyGet(cmd.key, Live(st, now), now) = ApplyGet(cmd.key, st, now)
    BY <1>2, LiveShows DEF ApplyGet
  <2>2. ApplyTtl(cmd.key, Live(st, now), now) = ApplyTtl(cmd.key, st, now)
    BY <1>2, LiveShows DEF ApplyTtl
  <2>3. ExpireAtAnswer(cmd.key, Live(st, now), now) = ExpireAtAnswer(cmd.key, st, now)
    <3>1. ASSUME NEW s \in Stores
          PROVE  EjectIfExpired(s, cmd.key, now)[cmd.key] = None <=> ~Visible(s, cmd.key, now)
      BY <1>2, <3>1 DEF EjectIfExpired, Visible, Stores
    <3> QED BY <1>2, <3>1, LiveShows DEF ExpireAtAnswer
  <2> QED BY <2>1, <2>2, <2>3 DEF Answer
<1> QED BY <1>1, <1>2

-----------------------------------------------------------------------------
(* The inductive invariant: TypeOK, and what it rests on.                    *)

IsTask(t) ==
    t = [phase |-> t.phase, request |-> t.request, cmd |-> t.cmd, todo |-> t.todo,
         gathered |-> t.gathered, answer |-> t.answer, last |-> t.last]

\* What the phase of a task says of its call.
TaskOK(t) ==
    /\ IsTask(t)
    /\ t.phase \in Phases
    /\ t.phase \in {"parsed", "waiting", "locked", "running"} => t.cmd \in Calls
    /\ t.phase \in {"unconnected", "reading", "parsed", "waiting", "locked"} => t.gathered = <<>>
    /\ t.phase = "locked" => IsWriteOp(t.cmd) /\ t.todo \in TodoLists(t.cmd)
    /\ t.phase = "running" => t.todo \in Seq(Keys)

TasksOK ==
    /\ task = [c \in Clients |-> task[c]]
    /\ \A c \in Clients : TaskOK(task[c])

\* Who holds the lock needs it, and a writer is alone.
LockOK ==
    /\ holding \subseteq Clients \cup {Cleaner}
    /\ \A c \in Clients : c \in holding <=> task[c].phase \in {"locked", "running"}
    /\ Cleaner \in holding <=> cleaner.phase = "scanning"
    /\ \A t, u \in holding : t # u => ~IsWriter(t)

\* Who stands in the queue waits, and stands there once.
QueueOK ==
    /\ queue \in Seq(Clients \cup {Cleaner})
    /\ \A i \in DOMAIN queue :
           /\ queue[i] \in Clients => task[queue[i]].phase = "waiting"
           /\ queue[i] = Cleaner => cleaner.phase = "waiting"
    /\ \A i, j \in DOMAIN queue : i # j => queue[i] # queue[j]

Arrivals == [request : Requests \cup {Malformed}, at : Nat]

CleanerPhases == {"sleeping", "waiting", "scanning", "gone"}

DataOK ==
    /\ clock \in 0 .. MaxClock
    /\ store \in Stores
    /\ server \in {"serving", "stopped"}
    /\ cleaner \in [phase : CleanerPhases, since : Nat]
    /\ incoming \in [Clients -> Seq(Arrivals)]
    /\ sent \in [Clients -> 0 .. MaxRequests]

IInv == DataOK /\ TasksOK /\ LockOK /\ QueueOK

-----------------------------------------------------------------------------
(* Commands and their lists of looks.                                        *)

(* The looks of a command are at keys (apply_mget, apply_getall, apply_del). *)
LEMMA TodoListsAreOfKeys ==
    ASSUME NEW cmd \in Calls
    PROVE  TodoLists(cmd) \subseteq Seq(Keys)
<1>1. cmd \in Commands
  BY DEF Calls
<1>2. CASE cmd.op \in {"MGET", "DEL"}
  <2>1. cmd.keys \in KeyLists
    BY <1>1, <1>2 DEF Commands, WriteCommands, ReadCommands
  <2> QED BY <1>2, <2>1, ArgumentAssumption DEF TodoLists
<1>3. CASE cmd.op = "GETALL"
  <2>1. Cardinality(Keys) \in Nat
    BY ConnectionAssumption, FS_CardinalityType
  <2>2. SetToSeqs(Keys) \subseteq Seq(Keys)
    BY <2>1 DEF SetToSeqs
  <2> QED BY <1>3, <2>2 DEF TodoLists
<1>4. CASE cmd.op \notin {"MGET", "DEL", "GETALL"}
  <2>1. <<>> \in Seq(Keys)
    OBVIOUS
  <2> QED BY <1>4, <2>1 DEF TodoLists
<1> QED BY <1>2, <1>3, <1>4

(* What a request parses to is a command the clients may call, or an error
   (Command::try_from). *)
LEMMA ParsedIsCall ==
    ASSUME NEW request \in Requests, NEW now \in 0 .. MaxClock,
           TryFrom(request, now).op # "ERROR"
    PROVE  TryFrom(request, now) \in Calls
<1>1. TryFrom(request, now) \in Commands
  BY RequestAssumption
<1> QED BY <1>1 DEF Calls

-----------------------------------------------------------------------------
(* What each action does to its task.                                        *)

\* Task c becomes t.
Becomes(c, t) ==
    /\ task' = [task EXCEPT ![c] = t]
    /\ TaskOK(t)
    /\ task'[c] = t
    /\ \A d \in Clients : d # c => task'[d] = task[d]

LEMMA TaskUpdate ==
    ASSUME TasksOK, NEW c \in Clients, NEW t, TaskOK(t), task' = [task EXCEPT ![c] = t]
    PROVE  Becomes(c, t) /\ TasksOK'
<1>1. \A d \in Clients : task'[d] = IF d = c THEN t ELSE task[d]
  BY DEF TasksOK
<1>2. task' = [d \in Clients |-> task'[d]]
  BY <1>1 DEF TasksOK
<1>3. \A d \in Clients : TaskOK(task'[d])
  BY <1>1 DEF TasksOK
<1> QED BY <1>1, <1>2, <1>3 DEF Becomes, TasksOK, TaskOK, IsTask

LEMMA TaskHas ==
    ASSUME TasksOK, NEW c \in Clients
    PROVE  TaskOK(task[c]) /\ IsTask(task[c])
BY DEF TasksOK, TaskOK

(* The updates the actions make of the record of a task. *)
LEMMA WithPhase ==
    ASSUME NEW u, IsTask(u), NEW p, NEW t, t = [u EXCEPT !.phase = p]
    PROVE  /\ IsTask(t) /\ t.phase = p /\ t.cmd = u.cmd /\ t.request = u.request
           /\ t.todo = u.todo /\ t.gathered = u.gathered
BY DEF IsTask

LEMMA WithLook ==
    ASSUME NEW u, IsTask(u), NEW seen
    PROVE  /\ IsTask([u EXCEPT !.todo = Tail(@), !.gathered = @ \o seen])
           /\ [u EXCEPT !.todo = Tail(@), !.gathered = @ \o seen].phase = u.phase
           /\ [u EXCEPT !.todo = Tail(@), !.gathered = @ \o seen].cmd = u.cmd
           /\ [u EXCEPT !.todo = Tail(@), !.gathered = @ \o seen].request = u.request
           /\ [u EXCEPT !.todo = Tail(@), !.gathered = @ \o seen].todo = Tail(u.todo)
           /\ [u EXCEPT !.todo = Tail(@), !.gathered = @ \o seen].gathered = u.gathered \o seen
<1>1. ASSUME NEW t, t = [u EXCEPT !.todo = Tail(@), !.gathered = @ \o seen]
      PROVE  /\ IsTask(t)
             /\ t.phase = u.phase
             /\ t.cmd = u.cmd
             /\ t.request = u.request
             /\ t.todo = Tail(u.todo)
             /\ t.gathered = u.gathered \o seen
  BY <1>1 DEF IsTask
<1> QED BY <1>1

LEMMA WithAnswer ==
    ASSUME NEW u, IsTask(u), NEW answer, NEW last \in BOOLEAN
    PROVE  /\ TaskOK(Answering(u, answer, last))
           /\ Answering(u, answer, last).phase = "answering"
           /\ Answering(u, answer, last).answer = answer
<1>1. ASSUME NEW t, t = Answering(u, answer, last)
      PROVE  IsTask(t) /\ t.phase = "answering" /\ t.answer = answer
  BY <1>1 DEF IsTask, Answering
<1>2. ASSUME NEW t, t = Answering(u, answer, last)
      PROVE  TaskOK(t) /\ t.phase = "answering" /\ t.answer = answer
  BY <1>1, <1>2 DEF TaskOK, Phases
<1> QED BY <1>2

LEMMA Renewed ==
    ASSUME NEW p \in {"closed", "reading"}, NEW t, t = [NewTask EXCEPT !.phase = p]
    PROVE  TaskOK(t) /\ t.phase = p
<1>1. IsTask(NewTask) /\ NewTask.gathered = <<>>
  BY DEF IsTask, NewTask
<1> HIDE DEF NewTask
<1>2. IsTask(t) /\ t.phase = p /\ t.gathered = <<>>
  BY <1>1, WithPhase
<1> QED BY <1>2 DEF TaskOK, Phases

LEMMA AcceptTask ==
    ASSUME TasksOK, NEW c \in Clients, Accept(c)
    PROVE  /\ TasksOK' /\ Becomes(c, task'[c])
           /\ task[c].phase = "unconnected" /\ task'[c].phase = "reading"
<1> DEFINE t == [task[c] EXCEPT !.phase = "reading"]
<1>1. task' = [task EXCEPT ![c] = t] /\ task[c].phase = "unconnected"
  BY DEF Accept, In
<1>2. TaskOK(t) /\ t.phase = "reading"
  <2>1. IsTask(t) /\ t.phase = "reading" /\ t.gathered = task[c].gathered /\ t.cmd = task[c].cmd
    BY TaskHas, WithPhase
  <2> HIDE DEF t
  <2> QED BY <1>1, <2>1, TaskHas DEF TaskOK, Phases
<1> HIDE DEF t
<1> QED BY <1>1, <1>2, TaskUpdate DEF Becomes

LEMMA ReadCommandTask ==
    ASSUME DataOK, TasksOK, NEW c \in Clients, ReadCommand(c)
    PROVE  /\ TasksOK' /\ Becomes(c, task'[c])
           /\ task[c].phase = "reading" /\ task'[c].phase \in {"parsed", "answering"}
           /\ task'[c].phase = "answering" => task'[c].answer = Error("Command")
           /\ task'[c].phase = "parsed" =>
                  /\ task'[c].cmd = TryFrom(Request(c), clock)
                  /\ task'[c].request = Head(incoming[c])
<1> DEFINE cmd == TryFrom(Request(c), clock)
           t == IF cmd.op = "ERROR"
                THEN Answering(task[c], Error("Command"), FALSE)
                ELSE [task[c] EXCEPT !.phase = "parsed", !.cmd = cmd, !.request = Head(incoming[c])]
<1>1. task' = [task EXCEPT ![c] = t] /\ task[c].phase = "reading"
  BY DEF ReadCommand, In
<1>2. Request(c) \in Requests
  <2>1. incoming[c] \in Seq(Arrivals) /\ incoming[c] # <<>> /\ Request(c) # Malformed
    BY DEF DataOK, ReadCommand
  <2>2. Head(incoming[c]) \in Arrivals
    BY <2>1
  <2> QED BY <2>1, <2>2 DEF Arrivals, Request
<1>3. cmd.op # "ERROR" => cmd \in Calls
  BY <1>2, ParsedIsCall DEF DataOK
<1> HIDE DEF cmd
<1>4. /\ TaskOK(t) /\ t.phase \in {"parsed", "answering"}
      /\ t.phase = "answering" => t.answer = Error("Command")
      /\ t.phase = "parsed" => t.cmd = cmd /\ t.request = Head(incoming[c])
  <2>1. CASE cmd.op = "ERROR"
    <3> DEFINE u == Answering(task[c], Error("Command"), FALSE)
    <3>1. TaskOK(u) /\ u.phase = "answering" /\ u.answer = Error("Command")
      BY TaskHas, WithAnswer
    <3>2. t = u
      BY <2>1
    <3> HIDE DEF t, u
    <3> QED BY <3>1, <3>2
  <2>2. CASE cmd.op # "ERROR"
    <3> DEFINE u == [task[c] EXCEPT !.phase = "parsed", !.cmd = cmd, !.request = Head(incoming[c])]
    <3>1. TaskOK(u) /\ u.phase = "parsed" /\ u.cmd = cmd /\ u.request = Head(incoming[c])
      <4>1. /\ IsTask(u) /\ u.phase = "parsed" /\ u.cmd = cmd /\ u.gathered = task[c].gathered
            /\ u.request = Head(incoming[c])
        <5> DEFINE r == Head(incoming[c])
                   d == task[c]
        <5>1. IsTask(d)
          BY TaskHas
        <5> HIDE DEF r, d
        <5>2. u = [d EXCEPT !.phase = "parsed", !.cmd = cmd, !.request = r]
          BY DEF r, d
        <5> HIDE DEF u
        <5>3. /\ IsTask(u) /\ u.phase = "parsed" /\ u.cmd = cmd /\ u.gathered = d.gathered
              /\ u.request = r
          BY <5>1, <5>2 DEF IsTask
        <5> QED BY <5>3 DEF d, r
      <4> HIDE DEF u
      <4> QED BY <1>1, <1>3, <2>2, <4>1, TaskHas DEF TaskOK, Phases
    <3>2. t = u
      BY <2>2
    <3> HIDE DEF t, u
    <3> QED BY <3>1, <3>2
  <2> QED BY <2>1, <2>2
<1> HIDE DEF t
<1> QED BY <1>1, <1>4, TaskUpdate DEF Becomes, cmd

LEMMA ReadErrorTask ==
    ASSUME TasksOK, NEW c \in Clients, ReadError(c)
    PROVE  /\ TasksOK' /\ Becomes(c, task'[c])
           /\ task[c].phase = "reading" /\ task'[c].phase = "answering"
           /\ task'[c].answer = Error("Request")
<1> DEFINE t == Answering(task[c], Error("Request"), TRUE)
<1>1. task' = [task EXCEPT ![c] = t] /\ task[c].phase = "reading"
  BY DEF ReadError, In
<1>2. TaskOK(t) /\ t.phase = "answering" /\ t.answer = Error("Request")
  BY TaskHas, WithAnswer
<1> HIDE DEF t
<1> QED BY <1>1, <1>2, TaskUpdate DEF Becomes

LEMMA ReadEndTask ==
    ASSUME TasksOK, NEW c \in Clients, ReadEnd(c)
    PROVE  /\ TasksOK' /\ Becomes(c, task'[c])
           /\ task[c].phase = "reading" /\ task'[c].phase = "closed"
<1> DEFINE t == [task[c] EXCEPT !.phase = "closed"]
<1>1. task' = [task EXCEPT ![c] = t] /\ task[c].phase = "reading"
  BY DEF ReadEnd, In
<1>2. TaskOK(t) /\ t.phase = "closed"
  <2>1. IsTask(t) /\ t.phase = "closed" /\ t.gathered = task[c].gathered /\ t.cmd = task[c].cmd
    BY TaskHas, WithPhase
  <2> HIDE DEF t
  <2> QED BY <1>1, <2>1, TaskHas DEF TaskOK, Phases
<1> HIDE DEF t
<1> QED BY <1>1, <1>2, TaskUpdate DEF Becomes

LEMMA AskForLockTask ==
    ASSUME TasksOK, NEW c \in Clients, AskForLock(c)
    PROVE  /\ TasksOK' /\ Becomes(c, task'[c])
           /\ task[c].phase = "parsed" /\ task'[c].phase = "waiting"
           /\ task'[c].cmd = task[c].cmd /\ task'[c].request = task[c].request
<1> DEFINE t == [task[c] EXCEPT !.phase = "waiting"]
<1>1. task' = [task EXCEPT ![c] = t] /\ task[c].phase = "parsed"
  BY DEF AskForLock, In
<1>2. TaskOK(t) /\ t.phase = "waiting" /\ t.cmd = task[c].cmd /\ t.request = task[c].request
  <2>1. /\ IsTask(t) /\ t.phase = "waiting" /\ t.gathered = task[c].gathered
        /\ t.cmd = task[c].cmd /\ t.request = task[c].request
    BY TaskHas, WithPhase
  <2> HIDE DEF t
  <2> QED BY <1>1, <2>1, TaskHas DEF TaskOK, Phases
<1> HIDE DEF t
<1> QED BY <1>1, <1>2, TaskUpdate DEF Becomes

(* The lock comes to a task that waits; a writer logs first, a reader runs. *)
LEMMA GrantTask ==
    ASSUME TasksOK, QueueOK, NEW c \in Clients, Grant(c)
    PROVE  /\ TasksOK' /\ Becomes(c, task'[c])
           /\ task[c].phase = "waiting" /\ task[c].gathered = <<>>
           /\ task'[c].cmd = task[c].cmd /\ task[c].cmd \in Calls
           /\ task'[c].request = task[c].request
           /\ task'[c].gathered = <<>>
           /\ task'[c].todo \in TodoLists(task[c].cmd)
           /\ task'[c].phase = IF IsWriteOp(task[c].cmd) THEN "locked" ELSE "running"
<1> DEFINE w == IsWriteOp(task[c].cmd)
<1>1. task[c].phase = "waiting"
  <2>1. queue # <<>> /\ c = Head(queue) /\ queue \in Seq(Clients \cup {Cleaner})
    BY DEF Grant, Pass, QueueOK
  <2>2. 1 \in DOMAIN queue /\ queue[1] = c
    BY <2>1
  <2> QED BY <2>2 DEF QueueOK
<1>2. PICK todo \in TodoLists(task[c].cmd) :
        task' = [task EXCEPT ![c].phase = IF w THEN "locked" ELSE "running", ![c].todo = todo]
  BY DEF Grant
<1> DEFINE t == [task[c] EXCEPT !.phase = IF w THEN "locked" ELSE "running", !.todo = todo]
<1>3. task[c].cmd \in Calls /\ task[c].gathered = <<>>
  BY <1>1, TaskHas DEF TaskOK
<1>4. todo \in Seq(Keys)
  BY <1>2, <1>3, TodoListsAreOfKeys
<1>5. task' = [task EXCEPT ![c] = t]
  BY <1>2
<1>6. /\ IsTask(t) /\ t.cmd = task[c].cmd /\ t.gathered = <<>> /\ t.todo = todo
      /\ t.request = task[c].request
      /\ t.phase = IF w THEN "locked" ELSE "running"
  <2> DEFINE p == IF w THEN "locked" ELSE "running"
             d == task[c]
  <2>1. IsTask(d)
    BY TaskHas
  <2> HIDE DEF p, d
  <2>2. t = [d EXCEPT !.phase = p, !.todo = todo]
    BY DEF p, d
  <2> HIDE DEF t
  <2>3. /\ IsTask(t) /\ t.cmd = d.cmd /\ t.gathered = d.gathered /\ t.todo = todo
        /\ t.request = d.request
        /\ t.phase = p
    BY <2>1, <2>2 DEF IsTask
  <2> QED BY <1>3, <2>3 DEF p, d
<1> HIDE DEF t
<1>7. TaskOK(t)
  BY <1>2, <1>3, <1>4, <1>6 DEF TaskOK, Phases
<1>8. TasksOK' /\ Becomes(c, t)
  BY <1>5, <1>7, TaskUpdate
<1> QED BY <1>1, <1>2, <1>3, <1>6, <1>8 DEF Becomes

LEMMA LogTask ==
    ASSUME TasksOK, NEW c \in Clients, Log(c)
    PROVE  /\ TasksOK' /\ Becomes(c, task'[c])
           /\ task[c].phase = "locked" /\ task'[c].phase = "running"
           /\ task[c].cmd \in Calls /\ IsWriteOp(task[c].cmd)
           /\ task[c].todo \in TodoLists(task[c].cmd) /\ task[c].gathered = <<>>
           /\ task'[c].cmd = task[c].cmd /\ task'[c].request = task[c].request
           /\ task'[c].todo = task[c].todo
           /\ task'[c].gathered = <<>>
<1> DEFINE t == [task[c] EXCEPT !.phase = "running"]
<1>1. task' = [task EXCEPT ![c] = t] /\ task[c].phase = "locked"
  BY DEF Log, In
<1>2. /\ task[c].cmd \in Calls /\ IsWriteOp(task[c].cmd)
      /\ task[c].todo \in TodoLists(task[c].cmd) /\ task[c].gathered = <<>>
  BY <1>1, TaskHas DEF TaskOK
<1>3. task[c].todo \in Seq(Keys)
  BY <1>2, TodoListsAreOfKeys
<1>4. /\ IsTask(t) /\ t.phase = "running" /\ t.cmd = task[c].cmd
      /\ t.request = task[c].request
      /\ t.todo = task[c].todo /\ t.gathered = <<>>
  <2>1. IsTask(task[c])
    BY TaskHas
  <2>2. /\ IsTask(t) /\ t.phase = "running" /\ t.cmd = task[c].cmd
        /\ t.request = task[c].request
        /\ t.todo = task[c].todo /\ t.gathered = task[c].gathered
    BY <2>1, WithPhase
  <2> QED BY <1>2, <2>2, Zenon
<1> HIDE DEF t
<1>5. TaskOK(t)
  BY <1>2, <1>3, <1>4 DEF TaskOK, Phases
<1>6. TasksOK' /\ Becomes(c, t)
  BY <1>1, <1>5, TaskUpdate
<1> QED BY <1>1, <1>2, <1>4, <1>6 DEF Becomes

LEMMA LogFailsTask ==
    ASSUME TasksOK, NEW c \in Clients, LogFails(c)
    PROVE  /\ TasksOK' /\ Becomes(c, task'[c])
           /\ task[c].phase = "locked" /\ task'[c].phase = "answering"
           /\ task'[c].answer = Error("Io")
<1> DEFINE t == Answering(task[c], Error("Io"), FALSE)
<1>1. task' = [task EXCEPT ![c] = t] /\ task[c].phase = "locked"
  BY DEF LogFails, In
<1>2. TaskOK(t) /\ t.phase = "answering" /\ t.answer = Error("Io")
  BY TaskHas, WithAnswer
<1> HIDE DEF t
<1> QED BY <1>1, <1>2, TaskUpdate DEF Becomes

(* A look takes one key off the list. *)
LEMMA LookTask ==
    ASSUME TasksOK, NEW c \in Clients, Look(c)
    PROVE  /\ TasksOK' /\ Becomes(c, task'[c])
           /\ task[c].phase = "running" /\ task'[c].phase = "running"
           /\ task[c].cmd \in Calls /\ Head(task[c].todo) \in Keys /\ task[c].todo # <<>>
           /\ task'[c].cmd = task[c].cmd /\ task'[c].request = task[c].request
           /\ task'[c].todo = Tail(task[c].todo)
           /\ task'[c].gathered = task[c].gathered
                                    \o Gathered(task[c].cmd, Head(task[c].todo), store, clock)
<1> DEFINE seen == Gathered(task[c].cmd, Head(task[c].todo), store, clock)
           t == [task[c] EXCEPT !.todo = Tail(@), !.gathered = @ \o seen]
<1>1. task' = [task EXCEPT ![c] = t] /\ task[c].phase = "running" /\ task[c].todo # <<>>
  BY DEF Look, In
<1>2. task[c].cmd \in Calls /\ task[c].todo \in Seq(Keys)
  BY <1>1, TaskHas DEF TaskOK
<1>3. Head(task[c].todo) \in Keys /\ Tail(task[c].todo) \in Seq(Keys)
  BY <1>1, <1>2
<1> HIDE DEF seen
<1>4. /\ IsTask(t) /\ t.phase = "running" /\ t.cmd = task[c].cmd
      /\ t.request = task[c].request
      /\ t.todo = Tail(task[c].todo) /\ t.gathered = task[c].gathered \o seen
  BY <1>1, TaskHas, WithLook
<1> HIDE DEF t
<1>5. TaskOK(t)
  BY <1>2, <1>3, <1>4 DEF TaskOK, Phases
<1>6. TasksOK' /\ Becomes(c, t)
  BY <1>1, <1>5, TaskUpdate
<1> QED BY <1>1, <1>2, <1>3, <1>4, <1>6 DEF Becomes, seen

LEMMA EndTask ==
    ASSUME TasksOK, NEW c \in Clients, End(c)
    PROVE  /\ TasksOK' /\ Becomes(c, task'[c])
           /\ task[c].phase = "running" /\ task'[c].phase = "answering"
           /\ task[c].cmd \in Calls /\ task[c].todo = <<>>
           /\ task'[c].answer = Answer(task[c].cmd, task[c].gathered, store, clock)
<1> DEFINE said == Answer(task[c].cmd, task[c].gathered, store, clock)
           t == Answering(task[c], said, FALSE)
<1>1. task' = [task EXCEPT ![c] = t] /\ task[c].phase = "running" /\ task[c].todo = <<>>
  BY DEF End, In
<1>2. task[c].cmd \in Calls
  BY <1>1, TaskHas DEF TaskOK
<1> HIDE DEF said
<1>3. TaskOK(t) /\ t.phase = "answering" /\ t.answer = said
  BY TaskHas, WithAnswer
<1> HIDE DEF t
<1> QED BY <1>1, <1>2, <1>3, TaskUpdate DEF Becomes, said

LEMMA SendTask ==
    ASSUME TasksOK, NEW c \in Clients, Send(c)
    PROVE  /\ TasksOK' /\ Becomes(c, task'[c])
           /\ task[c].phase = "answering" /\ task'[c].phase \in {"closed", "reading"}
<1> DEFINE t == [NewTask EXCEPT !.phase = IF task[c].last THEN "closed" ELSE "reading"]
<1>1. task' = [task EXCEPT ![c] = t] /\ task[c].phase = "answering"
  BY DEF Send, In
<1>2. TaskOK(t) /\ t.phase \in {"closed", "reading"}
  BY Renewed
<1> HIDE DEF t
<1> QED BY <1>1, <1>2, TaskUpdate DEF Becomes

-----------------------------------------------------------------------------
(* The lock.                                                                 *)

UsesLock(phase) == phase \in {"locked", "running"}

(* A step of a task that neither had the lock nor has it. *)
LEMMA LockUntouched ==
    ASSUME LockOK, NEW c \in Clients, Becomes(c, task'[c]),
           ~UsesLock(task[c].phase), ~UsesLock(task'[c].phase),
           holding' = holding \/ holding' = holding \ {c}, cleaner' = cleaner
    PROVE  LockOK'
<1>1. c \notin holding
  BY DEF LockOK, UsesLock
<1>2. holding' = holding
  BY <1>1
<1>3. \A t \in holding : IsWriter(t)' <=> IsWriter(t)
  BY <1>1 DEF IsWriter, Becomes, LockOK
<1> QED BY <1>2, <1>3 DEF LockOK, Becomes, UsesLock

(* A step of a task that keeps the lock, at the same command. *)
LEMMA LockKept ==
    ASSUME LockOK, NEW c \in Clients, Becomes(c, task'[c]),
           UsesLock(task[c].phase), UsesLock(task'[c].phase), task'[c].cmd = task[c].cmd,
           holding' = holding, cleaner' = cleaner
    PROVE  LockOK'
<1>1. \A t \in holding : IsWriter(t)' <=> IsWriter(t)
  BY DEF IsWriter, Becomes, LockOK
<1> QED BY <1>1 DEF LockOK, Becomes, UsesLock

(* A task gets the lock. *)
LEMMA LockTaken ==
    ASSUME LockOK, NEW c \in Clients, Becomes(c, task'[c]), Admissible(c),
           ~UsesLock(task[c].phase), UsesLock(task'[c].phase), task'[c].cmd = task[c].cmd,
           holding' = holding \cup {c}, cleaner' = cleaner
    PROVE  LockOK'
<1>1. \A t \in holding \cup {c} : IsWriter(t)' <=> IsWriter(t)
  BY DEF IsWriter, Becomes, LockOK
<1>2. \A t, u \in holding \cup {c} : t # u => ~IsWriter(t)
  BY DEF LockOK, Admissible
<1>3. holding' \subseteq Clients \cup {Cleaner}
  BY DEF LockOK
<1>4. \A d \in Clients : d \in holding' <=> task'[d].phase \in {"locked", "running"}
  BY DEF LockOK, Becomes, UsesLock
<1>5. Cleaner \in holding' <=> cleaner'.phase = "scanning"
  BY ConnectionAssumption DEF LockOK
<1> QED BY <1>1, <1>2, <1>3, <1>4, <1>5 DEF LockOK

(* A task gives the lock up. *)
LEMMA LockDropped ==
    ASSUME LockOK, NEW c \in Clients, Becomes(c, task'[c]),
           UsesLock(task[c].phase), ~UsesLock(task'[c].phase),
           holding' = holding \ {c}, cleaner' = cleaner
    PROVE  LockOK'
<1>1. \A t \in holding \ {c} : IsWriter(t)' <=> IsWriter(t)
  BY DEF IsWriter, Becomes, LockOK
<1>2. \A t, u \in holding' : t # u => ~IsWriter(t)'
  BY <1>1 DEF LockOK
<1>3. holding' \subseteq Clients \cup {Cleaner}
  BY DEF LockOK
<1>4. \A d \in Clients : d \in holding' <=> task'[d].phase \in {"locked", "running"}
  BY DEF LockOK, Becomes, UsesLock
<1>5. Cleaner \in holding' <=> cleaner'.phase = "scanning"
  BY ConnectionAssumption DEF LockOK
<1> QED BY <1>2, <1>3, <1>4, <1>5 DEF LockOK

(* The cleanup waits for the lock, gets it or gives it up. *)
LEMMA LockOfCleaner ==
    ASSUME LockOK, task' = task,
           \/ holding' = holding /\ cleaner.phase # "scanning" /\ cleaner'.phase # "scanning"
           \/ holding' = holding \cup {Cleaner} /\ Admissible(Cleaner) /\ cleaner'.phase = "scanning"
           \/ holding' = holding \ {Cleaner} /\ cleaner'.phase # "scanning"
    PROVE  LockOK'
<1>1. \A t : IsWriter(t)' <=> IsWriter(t)
  BY DEF IsWriter
<1>2. IsWriter(Cleaner)
  BY DEF IsWriter
<1>3. \A t, u \in holding' : t # u => ~IsWriter(t)
  BY <1>2 DEF LockOK, Admissible
<1>4. holding' \subseteq Clients \cup {Cleaner}
  BY DEF LockOK
<1>5. \A d \in Clients : d \in holding' <=> task'[d].phase \in {"locked", "running"}
  BY ConnectionAssumption DEF LockOK
<1>6. Cleaner \in holding' <=> cleaner'.phase = "scanning"
  BY DEF LockOK
<1> QED BY <1>1, <1>3, <1>4, <1>5, <1>6 DEF LockOK

-----------------------------------------------------------------------------
(* The queue.                                                                *)

Waiters == Clients \cup {Cleaner}

(* What Append and Tail do to a queue. *)
LEMMA Queued ==
    ASSUME NEW q \in Seq(Waiters), NEW w \in Waiters
    PROVE  /\ Append(q, w) \in Seq(Waiters)
           /\ DOMAIN Append(q, w) = 1 .. Len(q) + 1
           /\ DOMAIN q = 1 .. Len(q) /\ Len(q) \in Nat
           /\ \A i \in 1 .. Len(q) : Append(q, w)[i] = q[i]
           /\ Append(q, w)[Len(q) + 1] = w
<1>1. DOMAIN Append(q, w) = 1 .. Len(Append(q, w))
  BY AppendProperties, LenProperties
<1> QED BY <1>1, AppendProperties, LenProperties

LEMMA Unqueued ==
    ASSUME NEW q \in Seq(Waiters), q # <<>>
    PROVE  /\ Tail(q) \in Seq(Waiters)
           /\ DOMAIN Tail(q) = 1 .. Len(q) - 1
           /\ DOMAIN q = 1 .. Len(q) /\ Len(q) \in Nat \ {0}
           /\ \A i \in 1 .. Len(q) - 1 : Tail(q)[i] = q[i + 1]
           /\ Head(q) = q[1]
OBVIOUS

(* A step of a task that does not wait and will not. *)
LEMMA QueueUntouched ==
    ASSUME QueueOK, NEW c \in Clients, Becomes(c, task'[c]),
           task[c].phase # "waiting", queue' = queue, cleaner' = cleaner
    PROVE  QueueOK'
BY DEF QueueOK, Becomes

(* A task joins. *)
LEMMA QueueJoined ==
    ASSUME QueueOK, NEW c \in Clients, Becomes(c, task'[c]),
           task[c].phase # "waiting", task'[c].phase = "waiting",
           queue' = Append(queue, c), cleaner' = cleaner
    PROVE  QueueOK'
<1> DEFINE n == Len(queue)
<1>1. /\ queue' \in Seq(Waiters) /\ DOMAIN queue' = 1 .. n + 1
      /\ DOMAIN queue = 1 .. n /\ n \in Nat
      /\ \A i \in 1 .. n : queue'[i] = queue[i]
      /\ queue'[n + 1] = c
  BY Queued DEF QueueOK, Waiters
<1>2. \A i \in 1 .. n : queue[i] # c
  BY <1>1 DEF QueueOK
<1> HIDE DEF n
<1>3. \A i \in 1 .. n + 1 : i \in 1 .. n \/ i = n + 1
  BY <1>1
<1>4. \A i \in DOMAIN queue' :
          /\ queue'[i] \in Clients => task'[queue'[i]].phase = "waiting"
          /\ queue'[i] = Cleaner => cleaner'.phase = "waiting"
  BY <1>1, <1>2, <1>3, ConnectionAssumption DEF QueueOK, Becomes
<1>5. \A i, j \in DOMAIN queue' : i # j => queue'[i] # queue'[j]
  BY <1>1, <1>2, <1>3 DEF QueueOK
<1> QED BY <1>1, <1>4, <1>5 DEF QueueOK, Waiters

(* The first of the queue leaves it. *)
LEMMA QueueLeft ==
    ASSUME QueueOK, NEW w \in Waiters, queue # <<>>, w = Head(queue), queue' = Tail(queue),
           \A d \in Clients : d # w => task'[d] = task[d],
           w # Cleaner => cleaner' = cleaner
    PROVE  QueueOK'
<1> DEFINE n == Len(queue)
<1>1. /\ queue' \in Seq(Waiters) /\ DOMAIN queue' = 1 .. n - 1
      /\ DOMAIN queue = 1 .. n /\ n \in Nat \ {0}
      /\ \A i \in 1 .. n - 1 : queue'[i] = queue[i + 1]
      /\ queue[1] = w
  BY Unqueued DEF QueueOK, Waiters
<1> HIDE DEF n
<1>2. \A i \in 1 .. n - 1 : i + 1 \in 1 .. n /\ i + 1 # 1 /\ 1 \in 1 .. n
  BY <1>1
<1>3. \A i \in 1 .. n - 1 : queue'[i] # w
  BY <1>1, <1>2 DEF QueueOK
<1>4. \A i \in DOMAIN queue' :
          /\ queue'[i] \in Clients => task'[queue'[i]].phase = "waiting"
          /\ queue'[i] = Cleaner => cleaner'.phase = "waiting"
  BY <1>1, <1>2, <1>3 DEF QueueOK
<1>5. \A i, j \in DOMAIN queue' : i # j => queue'[i] # queue'[j]
  <2>1. \A i, j \in 1 .. n - 1 : i # j => i + 1 # j + 1
    BY <1>1
  <2> QED BY <1>1, <1>2, <2>1 DEF QueueOK
<1> QED BY <1>1, <1>4, <1>5 DEF QueueOK, Waiters

(* The cleanup joins. *)
LEMMA QueueJoinedByCleaner ==
    ASSUME QueueOK, task' = task, cleaner.phase # "waiting", cleaner'.phase = "waiting",
           queue' = Append(queue, Cleaner)
    PROVE  QueueOK'
<1> DEFINE n == Len(queue)
<1>1. /\ queue' \in Seq(Waiters) /\ DOMAIN queue' = 1 .. n + 1
      /\ DOMAIN queue = 1 .. n /\ n \in Nat
      /\ \A i \in 1 .. n : queue'[i] = queue[i]
      /\ queue'[n + 1] = Cleaner
  BY Queued DEF QueueOK, Waiters
<1>2. \A i \in 1 .. n : queue[i] # Cleaner
  BY <1>1 DEF QueueOK
<1> HIDE DEF n
<1>3. \A i \in 1 .. n + 1 : i \in 1 .. n \/ i = n + 1
  BY <1>1
<1>4. \A i \in DOMAIN queue' :
          /\ queue'[i] \in Clients => task'[queue'[i]].phase = "waiting"
          /\ queue'[i] = Cleaner => cleaner'.phase = "waiting"
  BY <1>1, <1>2, <1>3, ConnectionAssumption DEF QueueOK
<1>5. \A i, j \in DOMAIN queue' : i # j => queue'[i] # queue'[j]
  BY <1>1, <1>2, <1>3 DEF QueueOK
<1> QED BY <1>1, <1>4, <1>5 DEF QueueOK, Waiters

-----------------------------------------------------------------------------
(* The data.                                                                 *)

LEMMA MaxClockType == MaxClock \in Nat
BY ConnectionAssumption, TimestampAssumption DEF Timestamps

(* A command that writes at its end leaves a well-formed store. *)
LEMMA StoreAtEndType ==
    ASSUME NEW st \in Stores, NEW cmd \in Calls, NEW now
    PROVE  StoreAtEnd(cmd, st, now) \in Stores
<1>1. CASE cmd.op \in {"SET", "MSET", "EXPIREAT"}
  <2>1. cmd \in WriteCommands
    BY <1>1 DEF Calls, Commands, ReadCommands
  <2> QED BY <1>1, <2>1, ApplyWriteType DEF StoreAtEnd
<1>2. CASE cmd.op \notin {"SET", "MSET", "EXPIREAT"}
  BY <1>2 DEF StoreAtEnd
<1> QED BY <1>1, <1>2

LEMMA RemoveKeysType ==
    ASSUME NEW st \in Stores, NEW gone
    PROVE  RemoveKeys(gone, st) \in Stores
BY DEF RemoveKeys, Stores

\* The parts of DataOK that most steps leave alone.
OthersKept == UNCHANGED <<clock, store, server, cleaner, incoming, sent>>

LEMMA DataKept ==
    ASSUME DataOK, OthersKept
    PROVE  DataOK'
BY DEF DataOK, OthersKept

(* One more request (read_next_async finds it later). *)
LEMMA SendsData ==
    ASSUME DataOK, NEW c \in Clients, NEW request \in Requests \cup {Malformed},
           ClientSends(c, request)
    PROVE  DataOK'
<1>1. clock \in Nat
  BY MaxClockType DEF DataOK
<1>2. [request |-> request, at |-> clock] \in Arrivals
  BY <1>1 DEF Arrivals
<1>3. ASSUME NEW f \in [Clients -> Seq(Arrivals)], NEW a \in Arrivals
      PROVE  [f EXCEPT ![c] = Append(@, a)] \in [Clients -> Seq(Arrivals)]
  BY <1>3
<1>4. incoming' \in [Clients -> Seq(Arrivals)]
  BY <1>2, <1>3 DEF DataOK, ClientSends
<1>5. ASSUME NEW f \in [Clients -> 0 .. MaxRequests], f[c] < MaxRequests
      PROVE  [f EXCEPT ![c] = @ + 1] \in [Clients -> 0 .. MaxRequests]
  BY <1>5, ConnectionAssumption
<1>6. sent' \in [Clients -> 0 .. MaxRequests]
  BY <1>5 DEF DataOK, ClientSends
<1> QED BY <1>4, <1>6 DEF DataOK, ClientSends

LEMMA ReadData ==
    ASSUME DataOK, NEW c \in Clients, ReadCommand(c)
    PROVE  DataOK'
<1>1. ASSUME NEW f \in [Clients -> Seq(Arrivals)], f[c] # <<>>
      PROVE  [f EXCEPT ![c] = Tail(@)] \in [Clients -> Seq(Arrivals)]
  BY <1>1
<1>2. incoming' \in [Clients -> Seq(Arrivals)]
  BY <1>1 DEF DataOK, ReadCommand
<1> QED BY <1>2 DEF DataOK, ReadCommand

LEMMA ReadErrorData ==
    ASSUME DataOK, NEW c \in Clients, ReadError(c)
    PROVE  /\ DataOK'
           /\ incoming'[c] = <<>> /\ \A d \in Clients : d # c => incoming'[d] = incoming[d]
<1>1. ASSUME NEW f \in [Clients -> Seq(Arrivals)]
      PROVE  [f EXCEPT ![c] = <<>>] \in [Clients -> Seq(Arrivals)]
  <2>1. <<>> \in Seq(Arrivals)
    OBVIOUS
  <2> QED BY <2>1
<1>2. incoming' \in [Clients -> Seq(Arrivals)]
  BY <1>1 DEF DataOK, ReadError
<1>3. incoming'[c] = <<>> /\ \A d \in Clients : d # c => incoming'[d] = incoming[d]
  BY DEF DataOK, ReadError
<1> QED BY <1>2, <1>3 DEF DataOK, ReadError

-----------------------------------------------------------------------------
(* The invariant is inductive.                                               *)

LEMMA IInvInit == Init => IInv
<1> SUFFICES ASSUME Init PROVE IInv
  OBVIOUS
<1>1. DataOK
  <2>1. 0 \in 0 .. MaxClock /\ 0 \in 0 .. MaxRequests /\ <<>> \in Seq(Arrivals)
    BY MaxClockType, ConnectionAssumption
  <2> QED BY <2>1, ConnectionAssumption DEF Init, DataOK, CleanerPhases
<1>2. TasksOK
  <2>1. NewTask.phase = "unconnected" /\ NewTask.gathered = <<>> /\ IsTask(NewTask)
    BY DEF NewTask, IsTask
  <2>2. TaskOK(NewTask)
    BY <2>1 DEF TaskOK, Phases
  <2> HIDE DEF NewTask
  <2> QED BY <2>2 DEF Init, TasksOK
<1>3. LockOK
  BY DEF Init, LockOK, NewTask
<1>4. QueueOK
  BY DEF Init, QueueOK
<1> QED BY <1>1, <1>2, <1>3, <1>4 DEF IInv

(* A failed accept ends every task (serve). *)
LEMMA StoppedInv ==
    ASSUME IInv, AcceptFails
    PROVE  IInv'
<1> DEFINE t == [NewTask EXCEPT !.phase = "gone"]
<1>1. TaskOK(t) /\ t.phase = "gone"
  <2>1. IsTask(NewTask)
    BY DEF NewTask, IsTask
  <2>2. IsTask(t) /\ t.phase = "gone"
    BY <2>1, WithPhase
  <2> HIDE DEF t
  <2> QED BY <2>2 DEF TaskOK, Phases
<1>2. task' = [c \in Clients |-> t]
  BY DEF AcceptFails
<1> HIDE DEF t
<1>3. cleaner'.phase = "gone" /\ cleaner' \in [phase : CleanerPhases, since : Nat]
  <2>1. ASSUME NEW r \in [phase : CleanerPhases, since : Nat]
        PROVE  /\ [r EXCEPT !.phase = "gone"].phase = "gone"
               /\ [r EXCEPT !.phase = "gone"] \in [phase : CleanerPhases, since : Nat]
    BY <2>1 DEF CleanerPhases
  <2> QED BY <2>1 DEF AcceptFails, IInv, DataOK
<1>4. TasksOK'
  BY <1>1, <1>2 DEF TasksOK, TaskOK, IsTask
<1>5. LockOK'
  BY <1>1, <1>2, <1>3 DEF LockOK, AcceptFails
<1>6. QueueOK'
  BY DEF QueueOK, AcceptFails
<1>7. DataOK'
  BY <1>3 DEF AcceptFails, IInv, DataOK
<1> QED BY <1>4, <1>5, <1>6, <1>7 DEF IInv

(* The steps of a task. *)
LEMMA TaskStepInv ==
    ASSUME IInv, NEW c \in Clients,
           Accept(c) \/ Reading(c) \/ Work(c) \/ Send(c)
    PROVE  IInv'
<1> USE DEF IInv
<1>1. CASE Accept(c)
  <2>1. TasksOK' /\ LockOK' /\ QueueOK'
    BY <1>1, AcceptTask, LockUntouched, QueueUntouched DEF Accept, UsesLock
  <2> QED BY <1>1, <2>1, DataKept DEF Accept, OthersKept
<1>2. CASE ReadCommand(c)
  <2>1. TasksOK' /\ LockOK' /\ QueueOK'
    BY <1>2, ReadCommandTask, LockUntouched, QueueUntouched DEF ReadCommand, UsesLock
  <2> QED BY <1>2, <2>1, ReadData
<1>3. CASE ReadError(c)
  <2>1. TasksOK' /\ LockOK' /\ QueueOK'
    BY <1>3, ReadErrorTask, LockUntouched, QueueUntouched DEF ReadError, UsesLock
  <2> QED BY <1>3, <2>1, ReadErrorData
<1>4. CASE ReadEnd(c)
  <2>1. TasksOK' /\ LockOK' /\ QueueOK'
    BY <1>4, ReadEndTask, LockUntouched, QueueUntouched DEF ReadEnd, UsesLock
  <2> QED BY <1>4, <2>1, DataKept DEF ReadEnd, OthersKept
<1>5. CASE AskForLock(c)
  <2>1. TasksOK' /\ LockOK' /\ QueueOK'
    BY <1>5, AskForLockTask, LockUntouched, QueueJoined DEF AskForLock, UsesLock
  <2> QED BY <1>5, <2>1, DataKept DEF AskForLock, OthersKept
<1>6. CASE Grant(c)
  <2>1. /\ TasksOK' /\ Becomes(c, task'[c])
        /\ ~UsesLock(task[c].phase) /\ UsesLock(task'[c].phase) /\ task'[c].cmd = task[c].cmd
    BY <1>6, GrantTask DEF UsesLock
  <2>2. /\ Admissible(c) /\ holding' = holding \cup {c} /\ cleaner' = cleaner
        /\ queue # <<>> /\ c = Head(queue) /\ queue' = Tail(queue)
    BY <1>6 DEF Grant, Pass
  <2>3. LockOK'
    BY <2>1, <2>2, LockTaken
  <2>4. QueueOK'
    BY <2>1, <2>2, QueueLeft DEF Becomes, Waiters
  <2> QED BY <1>6, <2>1, <2>3, <2>4, DataKept DEF Grant, OthersKept
<1>7. CASE Log(c)
  <2>1. TasksOK' /\ LockOK' /\ QueueOK'
    BY <1>7, LogTask, LockKept, QueueUntouched DEF Log, UsesLock
  <2> QED BY <1>7, <2>1, DataKept DEF Log, OthersKept
<1>8. CASE LogFails(c)
  <2>1. TasksOK' /\ LockOK' /\ QueueOK'
    BY <1>8, LogFailsTask, LockDropped, QueueUntouched DEF LogFails, UsesLock
  <2> QED BY <1>8, <2>1, DataKept DEF LogFails, OthersKept
<1>9. CASE Look(c)
  <2>1. TasksOK' /\ LockOK' /\ QueueOK'
    BY <1>9, LookTask, LockKept, QueueUntouched DEF Look, UsesLock
  <2>2. store' = StoreAfterLook(task[c].cmd, Head(task[c].todo), store)
    BY <1>9 DEF Look
  <2>3. store' \in Stores
    BY <1>9, <2>2, LookTask, LiveAfterLook DEF DataOK
  <2> QED BY <1>9, <2>1, <2>3 DEF Look, DataOK
<1>10. CASE End(c)
  <2>1. TasksOK' /\ LockOK' /\ QueueOK'
    BY <1>10, EndTask, LockDropped, QueueUntouched DEF End, UsesLock
  <2>2. store' = StoreAtEnd(task[c].cmd, store, clock)
    BY <1>10 DEF End
  <2>3. store' \in Stores
    BY <1>10, <2>2, EndTask, StoreAtEndType DEF DataOK
  <2> QED BY <1>10, <2>1, <2>3 DEF End, DataOK
<1>11. CASE Send(c)
  <2>1. TasksOK' /\ LockOK' /\ QueueOK'
    BY <1>11, SendTask, LockUntouched, QueueUntouched DEF Send, UsesLock
  <2> QED BY <1>11, <2>1, DataKept DEF Send, OthersKept
<1> QED BY <1>1, <1>2, <1>3, <1>4, <1>5, <1>6, <1>7, <1>8, <1>9, <1>10, <1>11 DEF Reading, Work

(* The steps of the cleanup. *)
LEMMA CleanerStepInv ==
    ASSUME IInv, GrantCleaner \/ CleanerWakes \/ Cleaning
    PROVE  IInv'
<1> USE DEF IInv
<1>1. CASE GrantCleaner
  <2>1. /\ Admissible(Cleaner) /\ holding' = holding \cup {Cleaner} /\ task' = task
        /\ queue # <<>> /\ Cleaner = Head(queue) /\ queue' = Tail(queue)
        /\ cleaner' = [phase |-> "scanning", since |-> clock]
    BY <1>1 DEF GrantCleaner, Pass
  <2>2. LockOK'
    BY <2>1, LockOfCleaner
  <2>3. QueueOK'
    BY <2>1, QueueLeft DEF Waiters
  <2>4. clock \in Nat
    BY MaxClockType DEF DataOK
  <2> QED BY <1>1, <2>1, <2>2, <2>3, <2>4 DEF GrantCleaner, DataOK, CleanerPhases, TasksOK, TaskOK, IsTask
<1>2. CASE CleanerWakes
  <2>1. /\ cleaner.phase = "sleeping" /\ cleaner' = [cleaner EXCEPT !.phase = "waiting"]
        /\ queue' = Append(queue, Cleaner) /\ holding' = holding /\ task' = task
    BY <1>2 DEF CleanerWakes
  <2>2. cleaner' \in [phase : CleanerPhases, since : Nat] /\ cleaner'.phase = "waiting"
    BY <2>1 DEF DataOK, CleanerPhases
  <2>3. LockOK'
    BY <2>1, <2>2, LockOfCleaner
  <2>4. QueueOK'
    BY <2>1, <2>2, QueueJoinedByCleaner
  <2> QED BY <1>2, <2>2, <2>3, <2>4 DEF CleanerWakes, DataOK, TasksOK, TaskOK, IsTask
<1>3. CASE Cleaning
  <2>1. PICK gone \in SUBSET Keys : RemoveExpired(gone)
    BY <1>3 DEF Cleaning
  <2>2. /\ cleaner.phase = "scanning" /\ cleaner' = [phase |-> "sleeping", since |-> 0]
        /\ queue' = queue /\ holding' = holding \ {Cleaner} /\ task' = task
        /\ store' = RemoveKeys(gone, store)
    BY <2>1 DEF RemoveExpired
  <2>3. LockOK'
    BY <2>2, LockOfCleaner
  <2>4. QueueOK'
    BY <2>2 DEF QueueOK
  <2>5. store' \in Stores
    BY <2>2, RemoveKeysType DEF DataOK
  <2> QED BY <2>1, <2>2, <2>3, <2>4, <2>5 DEF RemoveExpired, DataOK, CleanerPhases, TasksOK, TaskOK, IsTask
<1> QED BY <1>1, <1>2, <1>3

LEMMA IInvNext ==
    ASSUME IInv, [Next]_vars
    PROVE  IInv'
<1>1. CASE Tick
  <2>1. clock' \in 0 .. MaxClock
    <3>1. ASSUME NEW n \in 0 .. MaxClock, n < MaxClock PROVE n + 1 \in 0 .. MaxClock
      BY <3>1, MaxClockType
    <3> QED BY <1>1, <3>1 DEF Tick, IInv, DataOK
  <2> QED BY <1>1, <2>1
          DEF Tick, IInv, DataOK, TasksOK, TaskOK, IsTask, LockOK, IsWriter, QueueOK
<1>2. CASE AcceptFails
  BY <1>2, StoppedInv
<1>3. CASE GrantCleaner \/ CleanerWakes \/ Cleaning
  BY <1>3, CleanerStepInv
<1>4. ASSUME NEW c \in Clients, NEW request \in Requests \cup {Malformed}, ClientSends(c, request)
      PROVE  IInv'
  <2>1. DataOK'
    BY <1>4, SendsData DEF IInv
  <2> QED BY <1>4, <2>1 DEF ClientSends, IInv, TasksOK, TaskOK, IsTask, LockOK, IsWriter, QueueOK
<1>5. ASSUME NEW c \in Clients, ClientCloses(c)
      PROVE  IInv'
  BY <1>5 DEF ClientCloses, IInv, DataOK, TasksOK, TaskOK, IsTask, LockOK, IsWriter, QueueOK
<1>6. ASSUME NEW c \in Clients, Accept(c) \/ Reading(c) \/ Work(c) \/ Send(c)
      PROVE  IInv'
  BY <1>6, TaskStepInv
<1>7. CASE UNCHANGED vars
  BY <1>7 DEF vars, IInv, DataOK, TasksOK, TaskOK, IsTask, LockOK, IsWriter, QueueOK
<1> QED BY <1>1, <1>2, <1>3, <1>4, <1>5, <1>6, <1>7 DEF Next

(* The lock is kept: who holds it is in a phase that needs it, a writer holds
   it alone, and nobody waits twice. *)
THEOREM LockKeepsDiscipline == Spec => []TypeOK
<1>1. Init => IInv
  BY IInvInit
<1>2. IInv /\ [Next]_vars => IInv'
  BY IInvNext
<1>3. IInv => TypeOK
  BY DEF IInv, DataOK, TasksOK, TaskOK, LockOK, QueueOK, TypeOK, CleanerPhases
<1> QED BY <1>1, <1>2, <1>3, PTL DEF Spec

-----------------------------------------------------------------------------
(* ExpiringMap's operators are those of this module.                         *)

LEMMA SameStores == Promise!Stores = Stores
BY DEF Promise!Stores, Stores, Promise!StoredValues, StoredValues, Promise!Timestamps, Timestamps

LEMMA SameVisible ==
    ASSUME NEW st, NEW key, NEW now
    PROVE  Promise!Visible(st, key, now) = Visible(st, key, now)
BY DEF Promise!Visible, Visible, Promise!IsExpired, IsExpired

LEMMA SameLive ==
    ASSUME NEW st, NEW now
    PROVE  Promise!Live(st, now) = Live(st, now)
BY SameVisible DEF Promise!Live, Live

LEMMA SameCalls ==
    /\ Promise!Idle = Idle
    /\ \A cmd, todo, gathered : Promise!Running(cmd, todo, gathered) = Running(cmd, todo, gathered)
    /\ \A answer : Promise!Answered(answer) = Answered(answer)
BY DEF Promise!Idle, Idle, Promise!Running, Running, Promise!Answered, Answered

LEMMA SameResponses ==
    /\ Promise!Ok = Ok /\ Promise!Null = Null
    /\ \A x : Promise!Error(x) = Error(x) /\ Promise!Cstr(x) = Cstr(x)
    /\ \A x : Promise!Integer(x) = Integer(x) /\ Promise!Array(x) = Array(x)
BY DEF Promise!Ok, Ok, Promise!Null, Null, Promise!Error, Error, Promise!Cstr, Cstr,
       Promise!Integer, Integer, Promise!Array, Array

LEMMA SameTodoLists ==
    ASSUME NEW cmd
    PROVE  Promise!TodoLists(cmd) = TodoLists(cmd)
BY DEF Promise!TodoLists, TodoLists, Promise!SetToSeqs, SetToSeqs

LEMMA SameEject ==
    ASSUME NEW st, NEW key, NEW now
    PROVE  Promise!EjectIfExpired(st, key, now) = EjectIfExpired(st, key, now)
BY DEF Promise!EjectIfExpired, EjectIfExpired, Promise!IsExpired, IsExpired

LEMMA SameApplyGet ==
    ASSUME NEW key, NEW st, NEW now
    PROVE  Promise!ApplyGet(key, st, now) = ApplyGet(key, st, now)
BY SameVisible, SameResponses DEF Promise!ApplyGet, ApplyGet

LEMMA SameGathered ==
    ASSUME NEW cmd, NEW key, NEW st, NEW now
    PROVE  Promise!Gathered(cmd, key, st, now) = Gathered(cmd, key, st, now)
<1>1. Promise!ApplyGetAll(key, st, now) = ApplyGetAll(key, st, now)
  BY SameVisible, SameResponses DEF Promise!ApplyGetAll, ApplyGetAll
<1>2. Promise!DelCount(key, st, now) = DelCount(key, st, now)
  BY SameEject DEF Promise!DelCount, DelCount
<1> QED BY <1>1, <1>2, SameApplyGet DEF Promise!Gathered, Gathered

LEMMA SameAfterLook ==
    ASSUME NEW cmd, NEW key, NEW st
    PROVE  Promise!StoreAfterLook(cmd, key, st) = StoreAfterLook(cmd, key, st)
BY DEF Promise!StoreAfterLook, StoreAfterLook, Promise!RemoveKeys, RemoveKeys

LEMMA SameAtEnd ==
    ASSUME NEW cmd, NEW st, NEW now
    PROVE  Promise!StoreAtEnd(cmd, st, now) = StoreAtEnd(cmd, st, now)
<1>1. Promise!ApplySet(cmd.key, cmd.value, st) = ApplySet(cmd.key, cmd.value, st)
  BY DEF Promise!ApplySet, ApplySet, Promise!NewValue, NewValue
<1>2. Promise!ApplyMSet(cmd.entries, st) = ApplyMSet(cmd.entries, st)
  BY DEF Promise!ApplyMSet, ApplyMSet, Promise!IsLastEntry, IsLastEntry, Promise!NewValue, NewValue
<1>3. Promise!ApplyDel(cmd.keys, st) = ApplyDel(cmd.keys, st)
  BY DEF Promise!ApplyDel, ApplyDel, Promise!RemoveKeys, RemoveKeys
<1>4. Promise!ApplyExpireAt(cmd.key, cmd.at, st, now) = ApplyExpireAt(cmd.key, cmd.at, st, now)
  BY SameEject DEF Promise!ApplyExpireAt, ApplyExpireAt
<1>5. Promise!ApplyWrite(cmd, st, now) = ApplyWrite(cmd, st, now)
  BY <1>1, <1>2, <1>3, <1>4 DEF Promise!ApplyWrite, ApplyWrite
<1> QED BY <1>5 DEF Promise!StoreAtEnd, StoreAtEnd

LEMMA SameAnswer ==
    ASSUME NEW cmd, NEW gathered, NEW st, NEW now
    PROVE  Promise!Answer(cmd, gathered, st, now) = Answer(cmd, gathered, st, now)
<1>1. Promise!ApplyTtl(cmd.key, st, now) = ApplyTtl(cmd.key, st, now)
  BY SameVisible, SameResponses
     DEF Promise!ApplyTtl, ApplyTtl, Promise!AsI64, AsI64, Promise!TtlKeyMissing, TtlKeyMissing,
         Promise!TtlKeyNoExpire, TtlKeyNoExpire
<1>2. Promise!ExpireAtAnswer(cmd.key, st, now) = ExpireAtAnswer(cmd.key, st, now)
  BY SameEject, SameResponses DEF Promise!ExpireAtAnswer, ExpireAtAnswer
<1> QED BY <1>1, <1>2, SameApplyGet, SameResponses DEF Promise!Answer, Answer

-----------------------------------------------------------------------------
(* What the clients meet.                                                    *)

View == Live(store, clock)

Call == [c \in Clients |-> CallOf(task[c])]

LEMMA CallPhases ==
    ASSUME NEW t
    PROVE  /\ t.phase = "running" => CallOf(t) = Running(t.cmd, t.todo, t.gathered)
           /\ t.phase = "answering" => CallOf(t) = Answered(t.answer)
           /\ t.phase \notin {"running", "answering"} => CallOf(t) = Idle
BY DEF CallOf

LEMMA CallFields ==
    /\ Idle.phase = "idle"
    /\ \A cmd, todo, gathered :
           /\ Running(cmd, todo, gathered).phase = "running"
           /\ Running(cmd, todo, gathered).cmd = cmd
           /\ Running(cmd, todo, gathered).todo = todo
           /\ Running(cmd, todo, gathered).gathered = gathered
    /\ \A answer : Answered(answer).phase = "answered"
BY DEF Idle, Running, Answered

\* A call is running exactly when its task is.
LEMMA RunningCall ==
    ASSUME NEW d \in Clients, Call[d].phase = "running"
    PROVE  task[d].phase = "running" /\ Call[d].cmd = task[d].cmd
<1>1. Call[d] = CallOf(task[d])
  BY DEF Call
<1> QED BY <1>1, CallPhases, CallFields

LEMMA CallUpdate ==
    ASSUME NEW c \in Clients, Becomes(c, task'[c])
    PROVE  /\ Call[c] = CallOf(task[c])
           /\ Call' = [Call EXCEPT ![c] = CallOf(task'[c])]
BY DEF Call, Becomes

\* The step of a task that its client does not see.
LEMMA CallKept ==
    ASSUME NEW c \in Clients, Becomes(c, task'[c]), CallOf(task'[c]) = CallOf(task[c])
    PROVE  Call' = Call
BY DEF Call, Becomes

-----------------------------------------------------------------------------
(* The steps of ExpiringMap, told of View and Call.                          *)

LEMMA Ticks ==
    ASSUME clock' = clock + 1, View' = Live(View, clock'), Call' = Call
    PROVE  Promise!Next
<1>1. Promise!Tick
  BY SameLive DEF Promise!Tick, View, Call
<1> QED BY <1>1 DEF Promise!Next

LEMMA Begins ==
    ASSUME NEW c \in Clients, NEW cmd \in Calls, Call[c] = Idle,
           \A d \in Clients : Call[d].phase = "running" =>
               ~IsWriteOp(cmd) /\ ~IsWriteOp(Call[d].cmd),
           NEW todo \in TodoLists(cmd),
           Call' = [Call EXCEPT ![c] = Running(cmd, todo, <<>>)],
           View' = View, clock' = clock
    PROVE  Promise!Next
<1>1. \A x : Promise!Writes(x) <=> IsWriteOp(x)
  BY DEF Promise!Writes, IsWriteOp
<1>2. Promise!Begin(c, cmd)
  BY <1>1, SameCalls, SameTodoLists DEF Promise!Begin, View, Call
<1> QED BY <1>2 DEF Promise!Next

LEMMA Looks ==
    ASSUME NEW c \in Clients, Call[c].phase = "running", Call[c].todo # <<>>,
           Call' = [Call EXCEPT
               ![c].todo = Tail(@),
               ![c].gathered = @ \o Gathered(Call[c].cmd, Head(Call[c].todo), View, clock)],
           View' = StoreAfterLook(Call[c].cmd, Head(Call[c].todo), View),
           clock' = clock
    PROVE  Promise!Next
<1>1. Promise!Look(c)
  BY SameGathered, SameAfterLook DEF Promise!Look, View, Call
<1> QED BY <1>1 DEF Promise!Next

LEMMA Finishes ==
    ASSUME NEW c \in Clients, Call[c].phase = "running", Call[c].todo = <<>>,
           Call' = [Call EXCEPT
               ![c] = Answered(Answer(Call[c].cmd, Call[c].gathered, View, clock))],
           View' = Live(StoreAtEnd(Call[c].cmd, View, clock), clock),
           clock' = clock
    PROVE  Promise!Next
<1>1. Promise!End(c)
  BY SameAnswer, SameAtEnd, SameLive, SameCalls DEF Promise!End, View, Call
<1> QED BY <1>1 DEF Promise!Next

LEMMA Refuses ==
    ASSUME NEW c \in Clients, Call[c] = Idle, NEW error \in {"Command", "Request", "Io"},
           Call' = [Call EXCEPT ![c] = Answered(Error(error))],
           View' = View, clock' = clock
    PROVE  Promise!Next
<1>1. Promise!Refuse(c)
  BY SameCalls, SameResponses DEF Promise!Refuse, View, Call
<1> QED BY <1>1 DEF Promise!Next

LEMMA Returns ==
    ASSUME NEW c \in Clients, Call[c].phase = "answered",
           Call' = [Call EXCEPT ![c] = Idle],
           View' = View, clock' = clock
    PROVE  Promise!Next
<1>1. Promise!Return(c)
  BY SameCalls DEF Promise!Return, View, Call
<1> QED BY <1>1 DEF Promise!Next

LEMMA Stops ==
    ASSUME Call' = [c \in Clients |-> Idle], View' = View, clock' = clock
    PROVE  Promise!Next
<1>1. Promise!Stop
  BY SameCalls DEF Promise!Stop, View, Call
<1> QED BY <1>1 DEF Promise!Next

-----------------------------------------------------------------------------
(* Every step is a step of ExpiringMap, or none of its business.             *)

Unseen == UNCHANGED <<clock, View, Call>>

LEMMA ViewKept ==
    ASSUME store' = store, clock' = clock
    PROVE  View' = View
BY DEF View

(* A writer that has the lock, running or not, is the only one that has it
   (the RwLock). *)
LEMMA AloneToWrite ==
    ASSUME IInv, NEW c \in Clients, UsesLock(task[c].phase), IsWriteOp(task[c].cmd),
           NEW d \in Clients, d # c
    PROVE  ~UsesLock(task[d].phase)
<1>1. c \in holding /\ IsWriter(c)
  BY ConnectionAssumption DEF IInv, LockOK, UsesLock, IsWriter
<1>2. d \notin holding
  BY <1>1 DEF IInv, LockOK
<1> QED BY <1>2 DEF IInv, LockOK, UsesLock

(* Commands that look at one key have a key (Command). *)
LEMMA CallsHaveKeys ==
    ASSUME NEW cmd \in Calls
    PROVE  cmd.op \in {"SET", "MSET", "DEL", "MGET", "GETALL"} \/ cmd.key \in Keys
BY DEF Calls, Commands, WriteCommands, ReadCommands

LEMMA GrantSeen ==
    ASSUME IInv, NEW c \in Clients, Grant(c)
    PROVE  Promise!Next \/ Unseen
<1> DEFINE cmd == task[c].cmd
           todo == task'[c].todo
<1>1. /\ Becomes(c, task'[c])
      /\ task[c].phase = "waiting"
      /\ task'[c].cmd = cmd /\ cmd \in Calls
      /\ task'[c].gathered = <<>>
      /\ todo \in TodoLists(cmd)
      /\ task'[c].phase = IF IsWriteOp(cmd) THEN "locked" ELSE "running"
  BY GrantTask DEF IInv
<1>2. View' = View /\ clock' = clock
  BY ViewKept DEF Grant
<1>3. CallOf(task[c]) = Idle
  BY <1>1, CallPhases
<1>4. CASE IsWriteOp(cmd)
  <2>1. CallOf(task'[c]) = Idle
    BY <1>1, <1>4, CallPhases
  <2> QED BY <1>1, <1>2, <1>3, <2>1, CallKept DEF Unseen
<1>5. CASE ~IsWriteOp(cmd)
  <2>1. CallOf(task'[c]) = Running(cmd, todo, <<>>)
    BY <1>1, <1>5, CallPhases
  <2>2. ASSUME NEW d \in Clients, Call[d].phase = "running"
        PROVE  ~IsWriteOp(cmd) /\ ~IsWriteOp(Call[d].cmd)
    <3>1. task[d].phase = "running" /\ Call[d].cmd = task[d].cmd
      BY <2>2, RunningCall
    <3>2. d \in holding
      BY <3>1 DEF IInv, LockOK
    <3>3. ~IsWriter(d)
      BY <3>2 DEF Grant, Pass, Admissible
    <3> QED BY <1>5, <3>1, <3>3, ConnectionAssumption DEF IsWriter
  <2>3. Call[c] = Idle /\ Call' = [Call EXCEPT ![c] = Running(cmd, todo, <<>>)]
    BY <1>1, <1>3, <2>1, CallUpdate
  <2> HIDE DEF cmd, todo
  <2> QED BY <1>1, <1>2, <2>2, <2>3, Begins
<1> QED BY <1>4, <1>5

LEMMA LogSeen ==
    ASSUME IInv, NEW c \in Clients, Log(c)
    PROVE  Promise!Next \/ Unseen
<1> DEFINE cmd == task[c].cmd
           todo == task[c].todo
<1>1. /\ Becomes(c, task'[c])
      /\ task[c].phase = "locked" /\ task'[c].phase = "running"
      /\ cmd \in Calls /\ IsWriteOp(cmd) /\ todo \in TodoLists(cmd)
      /\ task'[c].cmd = cmd /\ task'[c].todo = todo /\ task'[c].gathered = <<>>
  BY LogTask DEF IInv
<1>2. View' = View /\ clock' = clock
  BY ViewKept DEF Log
<1>3. CallOf(task[c]) = Idle /\ CallOf(task'[c]) = Running(cmd, todo, <<>>)
  BY <1>1, CallPhases
<1>4. \A d \in Clients : Call[d].phase # "running"
  <2>1. SUFFICES ASSUME NEW d \in Clients, Call[d].phase = "running" PROVE FALSE
    OBVIOUS
  <2>2. task[d].phase = "running"
    BY <2>1, RunningCall
  <2>3. d # c
    BY <1>1, <2>2
  <2> QED BY <1>1, <2>2, <2>3, AloneToWrite DEF UsesLock
<1>5. Call[c] = Idle /\ Call' = [Call EXCEPT ![c] = Running(cmd, todo, <<>>)]
  BY <1>1, <1>3, CallUpdate
<1> HIDE DEF cmd, todo
<1> QED BY <1>1, <1>2, <1>4, <1>5, Begins

LEMMA LookSeen ==
    ASSUME IInv, NEW c \in Clients, Look(c)
    PROVE  Promise!Next \/ Unseen
<1> DEFINE cmd == task[c].cmd
           key == Head(task[c].todo)
<1>1. /\ Becomes(c, task'[c])
      /\ task[c].phase = "running" /\ task'[c].phase = "running"
      /\ key \in Keys /\ task[c].todo # <<>>
      /\ task'[c].cmd = cmd /\ task'[c].todo = Tail(task[c].todo)
      /\ task'[c].gathered = task[c].gathered \o Gathered(cmd, key, store, clock)
  BY LookTask DEF IInv
<1>2. store \in Stores
  BY DEF IInv, DataOK
<1>3. Gathered(cmd, key, View, clock) = Gathered(cmd, key, store, clock)
  BY <1>1, <1>2, LiveGathered DEF View
<1>4. clock' = clock /\ store' = StoreAfterLook(cmd, key, store)
  BY DEF Look
<1>5. View' = StoreAfterLook(cmd, key, View)
  BY <1>1, <1>2, <1>4, LiveAfterLook DEF View
<1>6. /\ Call[c] = Running(cmd, task[c].todo, task[c].gathered)
      /\ Call' = [Call EXCEPT ![c] = Running(cmd, Tail(task[c].todo),
                      task[c].gathered \o Gathered(cmd, key, store, clock))]
  <2>1. CallOf(task[c]) = Running(cmd, task[c].todo, task[c].gathered)
    BY <1>1, CallPhases
  <2>2. CallOf(task'[c]) = Running(task'[c].cmd, task'[c].todo, task'[c].gathered)
    BY <1>1, CallPhases
  <2>3. CallOf(task'[c]) = Running(cmd, Tail(task[c].todo),
                               task[c].gathered \o Gathered(cmd, key, store, clock))
    BY <1>1, <2>2, Zenon
  <2>4. Call[c] = CallOf(task[c]) /\ Call' = [Call EXCEPT ![c] = CallOf(task'[c])]
    BY <1>1, CallUpdate
  <2> QED BY <2>1, <2>3, <2>4, Zenon
<1>7. Call' = [Call EXCEPT
          ![c].todo = Tail(@),
          ![c].gathered = @ \o Gathered(cmd, key, View, clock)]
  <2> DEFINE seen == Gathered(cmd, key, store, clock)
             rest == task[c].todo
             got == task[c].gathered
  <2>1. Call[c] = Running(cmd, rest, got)
    BY <1>6
  <2>2. Call' = [Call EXCEPT ![c] = Running(cmd, Tail(rest), got \o seen)]
    BY <1>6
  <2>3. Gathered(cmd, key, View, clock) = seen
    BY <1>3
  <2> HIDE DEF seen, rest, got, cmd, key
  <2>4. [Running(cmd, rest, got) EXCEPT !.todo = Tail(@), !.gathered = @ \o seen]
          = Running(cmd, Tail(rest), got \o seen)
    <3> DEFINE before == Running(cmd, rest, got)
               after == Running(cmd, Tail(rest), got \o seen)
               tail == Tail(rest)
               both == got \o seen
    <3>1. before.todo = rest /\ before.gathered = got
      BY DEF Running
    <3>2. [before EXCEPT !.todo = tail, !.gathered = both] = after
      <4>1. before = [phase |-> "running", cmd |-> cmd, todo |-> rest, gathered |-> got]
        BY DEF Running
      <4>2. after = [phase |-> "running", cmd |-> cmd, todo |-> tail, gathered |-> both]
        BY DEF Running
      <4> HIDE DEF before, after, tail, both
      <4> DEFINE half == [before EXCEPT !.todo = tail]
      <4>3. half = [phase |-> "running", cmd |-> cmd, todo |-> tail, gathered |-> got]
        BY <4>1
      <4>4. [half EXCEPT !.gathered = both] = after
        <5> HIDE DEF half
        <5> QED BY <4>2, <4>3
      <4>5. [before EXCEPT !.todo = tail, !.gathered = both] = [half EXCEPT !.gathered = both]
        OBVIOUS
      <4> QED BY <4>4, <4>5
    <3>3. Tail(before.todo) = tail /\ before.gathered \o seen = both
      BY <3>1
    <3>4. ASSUME NEW r, r = before
          PROVE  [r EXCEPT !.todo = Tail(@), !.gathered = @ \o seen]
                   = [r EXCEPT !.todo = tail, !.gathered = both]
      <4>1. Tail(r.todo) = tail /\ r.gathered \o seen = both
        BY <3>3, <3>4
      <4> HIDE DEF before, tail, both
      <4>2. [r EXCEPT !.todo = Tail(@), !.gathered = @ \o seen]
              = [r EXCEPT !.todo = Tail(r.todo), !.gathered = r.gathered \o seen]
        OBVIOUS
      <4> QED BY <4>1, <4>2
    <3> HIDE DEF before, after, tail, both
    <3>5. [before EXCEPT !.todo = Tail(@), !.gathered = @ \o seen] = after
      BY <3>2, <3>4
    <3> QED BY <3>5 DEF before, after
  <2>5. [Call EXCEPT ![c].todo = Tail(@), ![c].gathered = @ \o seen]
          = [Call EXCEPT ![c] = [Call[c] EXCEPT !.todo = Tail(@), !.gathered = @ \o seen]]
    <3>1. DOMAIN Call = Clients
      BY DEF Call
    <3> QED BY <3>1
  <2> QED BY <2>1, <2>2, <2>3, <2>4, <2>5
<1>8. Call[c].phase = "running" /\ Call[c].todo = task[c].todo /\ Call[c].cmd = cmd
  BY <1>6, CallFields
<1> QED BY <1>1, <1>4, <1>5, <1>7, <1>8, Looks

LEMMA EndSeen ==
    ASSUME IInv, NEW c \in Clients, End(c)
    PROVE  Promise!Next \/ Unseen
<1> DEFINE cmd == task[c].cmd
           said == Answer(cmd, task[c].gathered, store, clock)
<1>1. /\ Becomes(c, task'[c])
      /\ task[c].phase = "running" /\ task'[c].phase = "answering"
      /\ cmd \in Calls /\ task[c].todo = <<>> /\ task'[c].answer = said
  BY EndTask DEF IInv
<1>2. store \in Stores
  BY DEF IInv, DataOK
<1>3. Answer(cmd, task[c].gathered, View, clock) = said
  BY <1>1, <1>2, CallsHaveKeys, LiveAnswer DEF View
<1>4. clock' = clock /\ store' = StoreAtEnd(cmd, store, clock)
  BY DEF End
<1>5. View' = Live(StoreAtEnd(cmd, View, clock), clock)
  <2>1. CASE cmd \in WriteCommands
    BY <1>2, <1>4, <2>1, LiveAtEnd DEF View
  <2>2. CASE cmd \notin WriteCommands
    <3>1. cmd.op \notin {"SET", "MSET", "EXPIREAT"}
      BY <1>1, <2>2 DEF Calls, Commands, ReadCommands
    <3>2. store' = store /\ StoreAtEnd(cmd, View, clock) = View
      BY <1>4, <3>1 DEF StoreAtEnd
    <3>3. clock \in Nat
      BY MaxClockType DEF IInv, DataOK
    <3>4. Live(View, clock) = View
      BY <1>2, <3>3, LiveLater DEF View
    <3> QED BY <1>4, <3>2, <3>4, ViewKept
  <2> QED BY <2>1, <2>2
<1>6. /\ Call[c] = Running(cmd, task[c].todo, task[c].gathered)
      /\ Call' = [Call EXCEPT ![c] = Answered(said)]
  <2>1. CallOf(task[c]) = Running(cmd, task[c].todo, task[c].gathered)
    BY <1>1, CallPhases
  <2>2. CallOf(task'[c]) = Answered(said)
    BY <1>1, CallPhases
  <2>3. Call[c] = CallOf(task[c]) /\ Call' = [Call EXCEPT ![c] = CallOf(task'[c])]
    BY <1>1, CallUpdate
  <2> QED BY <2>1, <2>2, <2>3, Zenon
<1>7. /\ Call[c].phase = "running" /\ Call[c].todo = <<>> /\ Call[c].cmd = cmd
      /\ Call[c].gathered = task[c].gathered
  BY <1>1, <1>6, CallFields
<1> QED BY <1>3, <1>4, <1>5, <1>6, <1>7, Finishes

(* A task that is told of an error was in no call, and is now answered. *)
LEMMA RefusalSeen ==
    ASSUME NEW c \in Clients, Becomes(c, task'[c]),
           task[c].phase \notin {"running", "answering"}, task'[c].phase = "answering",
           NEW error \in {"Command", "Request", "Io"}, task'[c].answer = Error(error),
           store' = store, clock' = clock
    PROVE  Promise!Next
<1>1. CallOf(task[c]) = Idle /\ CallOf(task'[c]) = Answered(Error(error))
  BY CallPhases
<1>2. Call[c] = Idle /\ Call' = [Call EXCEPT ![c] = Answered(Error(error))]
  BY <1>1, CallUpdate
<1> QED BY <1>2, ViewKept, Refuses

(* A step between two phases outside a call is not seen. *)
LEMMA IdleUnseen ==
    ASSUME NEW c \in Clients, Becomes(c, task'[c]),
           task[c].phase \notin {"running", "answering"},
           task'[c].phase \notin {"running", "answering"},
           store' = store, clock' = clock
    PROVE  Unseen
<1>1. CallOf(task'[c]) = CallOf(task[c])
  BY CallPhases
<1> QED BY <1>1, CallKept, ViewKept DEF Unseen

LEMMA SendSeen ==
    ASSUME IInv, NEW c \in Clients, Send(c)
    PROVE  Promise!Next
<1>1. /\ Becomes(c, task'[c]) /\ task[c].phase = "answering"
      /\ task'[c].phase \in {"closed", "reading"}
  BY SendTask DEF IInv
<1>2. CallOf(task[c]) = Answered(task[c].answer) /\ CallOf(task'[c]) = Idle
  BY <1>1, CallPhases
<1>3. Call[c].phase = "answered" /\ Call' = [Call EXCEPT ![c] = Idle]
  BY <1>1, <1>2, CallUpdate, CallFields
<1> QED BY <1>3, ViewKept, Returns DEF Send

LEMMA TaskStepSeen ==
    ASSUME IInv, NEW c \in Clients, Accept(c) \/ Reading(c) \/ Work(c) \/ Send(c)
    PROVE  Promise!Next \/ Unseen
<1>1. CASE Accept(c)
  BY <1>1, AcceptTask, IdleUnseen DEF Accept, IInv
<1>2. CASE ReadCommand(c)
  <2>1. /\ Becomes(c, task'[c]) /\ task[c].phase = "reading"
        /\ task'[c].phase \in {"parsed", "answering"}
        /\ task'[c].phase = "answering" => task'[c].answer = Error("Command")
        /\ store' = store /\ clock' = clock
    BY <1>2, ReadCommandTask DEF ReadCommand, IInv
  <2>2. CASE task'[c].phase = "parsed"
    BY <2>1, <2>2, IdleUnseen
  <2>3. CASE task'[c].phase = "answering"
    BY <2>1, <2>3, RefusalSeen
  <2> QED BY <2>1, <2>2, <2>3
<1>3. CASE ReadError(c)
  BY <1>3, ReadErrorTask, RefusalSeen DEF ReadError, IInv
<1>4. CASE ReadEnd(c)
  BY <1>4, ReadEndTask, IdleUnseen DEF ReadEnd, IInv
<1>5. CASE AskForLock(c)
  BY <1>5, AskForLockTask, IdleUnseen DEF AskForLock, IInv
<1>6. CASE LogFails(c)
  BY <1>6, LogFailsTask, RefusalSeen DEF LogFails, IInv
<1> QED BY <1>1, <1>2, <1>3, <1>4, <1>5, <1>6, GrantSeen, LogSeen, LookSeen, EndSeen, SendSeen
        DEF Reading, Work

(* Each step of the server is a step of the map or none (serve,
   handle_client_connection, spawn_ttl_cleanup_task). *)
LEMMA StepSeen ==
    ASSUME IInv, [Next]_vars
    PROVE  Promise!Next \/ Unseen
<1>1. store \in Stores /\ clock \in Nat
  BY MaxClockType DEF IInv, DataOK
<1>2. CASE Tick
  <2>1. clock' = clock + 1 /\ store' = store /\ Call' = Call
    BY <1>2 DEF Tick, Call
  <2>2. View' = Live(View, clock')
    BY <1>1, <2>1, LiveLater DEF View
  <2> QED BY <2>1, <2>2, Ticks
<1>3. CASE AcceptFails
  <2>1. task' = [c \in Clients |-> [NewTask EXCEPT !.phase = "gone"]] /\ View' = View /\ clock' = clock
    BY <1>3, ViewKept DEF AcceptFails
  <2>2. CallOf([NewTask EXCEPT !.phase = "gone"]) = Idle
    BY CallPhases DEF NewTask
  <2>3. Call' = [c \in Clients |-> Idle]
    BY <2>1, <2>2 DEF Call
  <2> QED BY <2>1, <2>3, Stops
<1>4. CASE GrantCleaner \/ CleanerWakes
  BY <1>4, ViewKept DEF GrantCleaner, CleanerWakes, Unseen, Call
<1>5. CASE Cleaning
  <2>1. PICK gone \in SUBSET Keys : RemoveExpired(gone)
    BY <1>5 DEF Cleaning
  <2>2. /\ gone \in SUBSET ExpiredKeys(store, clock) /\ store' = RemoveKeys(gone, store)
        /\ clock' = clock /\ task' = task
    BY <2>1 DEF RemoveExpired
  <2>3. View' = View
    BY <1>1, <2>2, LiveCleaned DEF View
  <2> QED BY <2>2, <2>3 DEF Unseen, Call
<1>6. ASSUME NEW c \in Clients, NEW request \in Requests \cup {Malformed}, ClientSends(c, request)
      PROVE  Unseen
  BY <1>6, ViewKept DEF ClientSends, Unseen, Call
<1>7. ASSUME NEW c \in Clients, ClientCloses(c)
      PROVE  Unseen
  BY <1>7, ViewKept DEF ClientCloses, Unseen, Call
<1>8. ASSUME NEW c \in Clients, Accept(c) \/ Reading(c) \/ Work(c) \/ Send(c)
      PROVE  Promise!Next \/ Unseen
  BY <1>8, TaskStepSeen
<1>9. CASE UNCHANGED vars
  BY <1>9, ViewKept DEF vars, Unseen, Call
<1> QED BY <1>2, <1>3, <1>4, <1>5, <1>6, <1>7, <1>8, <1>9 DEF Next

LEMMA InitSeen ==
    ASSUME Init
    PROVE  Promise!Init
<1>1. store \in Stores /\ clock = 0
  BY ConnectionAssumption DEF Init
<1>2. View \in Stores /\ Live(View, clock) = View
  <2>1. View \in Stores
    BY <1>1 DEF View, Live, Stores
  <2> QED BY <1>1, <2>1, LiveLater DEF View
<1>3. CallOf(NewTask) = Idle
  BY CallPhases DEF NewTask
<1>4. [c \in Clients |-> CallOf(task[c])] = [c \in Clients |-> Idle]
  BY <1>3 DEF Init
<1> QED BY <1>1, <1>2, <1>4, SameStores, SameLive, SameCalls DEF Promise!Init, View

(* Behind the lock, the queue and the table with its expired entries, clients
   meet the map of ExpiringMap. *)
THEOREM ServerIsExpiringMap == Spec => ImplementsExpiringMap
<1>1. Init => Promise!Init
  BY InitSeen
<1>2. Init => IInv
  BY IInvInit
<1>3. IInv /\ [Next]_vars => IInv'
  BY IInvNext
<1>4. IInv /\ [Next]_vars
        => [Promise!Next]_<<clock, Live(store, clock), [c \in Clients |-> CallOf(task[c])]>>
  BY StepSeen DEF Unseen, View, Call
<1> QED BY <1>1, <1>2, <1>3, <1>4, PTL DEF Spec, ImplementsExpiringMap, Promise!Spec

-----------------------------------------------------------------------------
(* What the answers to TTL and EXPIRE say.                                   *)

\* A command is only ever answered by its End.
LEMMA EndsAtEnd ==
    ASSUME IInv, [Next]_vars, NEW c \in Clients, Ends(c)
    PROVE  End(c)
<1>1. task[c].phase = "running" /\ task'[c].phase = "answering"
  BY DEF Ends
<1>2. task' # task
  BY <1>1
<1>3. ASSUME NEW d \in Clients, Accept(d) \/ Reading(d) \/ Work(d) \/ Send(d)
      PROVE  End(c)
  <2>1. Becomes(d, task'[d])
    BY <1>3, AcceptTask, ReadCommandTask, ReadErrorTask, ReadEndTask, AskForLockTask,
       GrantTask, LogTask, LogFailsTask, LookTask, EndTask, SendTask DEF IInv, Reading, Work
  <2>2. d = c
    BY <1>1, <2>1 DEF Becomes
  <2>3. ~Accept(c) /\ ~Reading(c) /\ ~AskForLock(c) /\ ~Log(c) /\ ~LogFails(c) /\ ~Send(c)
    BY <1>1 DEF Accept, Reading, ReadCommand, ReadError, ReadEnd, AskForLock, Log,
                LogFails, Send, In
  <2>4. ~Grant(c) /\ ~Look(c)
    BY <1>1, GrantTask, LookTask DEF IInv
  <2> QED BY <1>3, <2>2, <2>3, <2>4 DEF Work
<1>4. ~AcceptFails
  <2> SUFFICES ASSUME AcceptFails PROVE FALSE
    OBVIOUS
  <2> DEFINE t == [NewTask EXCEPT !.phase = "gone"]
  <2>1. t.phase = "gone"
    BY DEF NewTask
  <2>2. task'[c] = t
    BY DEF AcceptFails
  <2> HIDE DEF t
  <2> QED BY <1>1, <2>1, <2>2
<1> QED BY <1>2, <1>3, <1>4
        DEF Next, vars, Tick, GrantCleaner, CleanerWakes, Cleaning, RemoveExpired,
            ClientSends, ClientCloses

(* TTL answers -2 where GET finds nothing, -1 where it finds a key without a
   deadline, and otherwise the deadline itself, up to which GET finds the key. *)
LEMMA TtlTells ==
    ASSUME NEW st \in Stores, NEW key \in Keys, NEW now \in Nat,
           st[key] # None /\ st[key].expires_at # None
               => st[key].expires_at <= MaxTimestamp \div 2
    PROVE  TellsOf(key, ApplyTtl(key, st, now).n, st, now)
<1>1. ASSUME NEW later
      PROVE  ApplyGet(key, st, later) # Null <=> Visible(st, key, later)
  BY DEF ApplyGet, Cstr, Null
<1>2. st[key] # None => st[key] \in StoredValues
  BY DEF Stores
<1>3. CASE ~Visible(st, key, now)
  <2>1. ApplyTtl(key, st, now).n = -2 /\ ApplyGet(key, st, now) = Null
    BY <1>1, <1>3 DEF ApplyTtl, Integer, TtlKeyMissing
  <2>2. ~Persistent(st, key)
    BY <1>3 DEF Visible, IsExpired, Persistent
  <2> QED BY <2>1, <2>2 DEF TellsOf, TtlKeyMissing, TtlKeyNoExpire
<1>4. CASE Visible(st, key, now) /\ st[key].expires_at = None
  <2>1. ApplyTtl(key, st, now).n = -1 /\ ApplyGet(key, st, now) # Null
    BY <1>1, <1>4 DEF ApplyTtl, Integer, TtlKeyNoExpire
  <2>2. Persistent(st, key)
    BY <1>4 DEF Visible, Persistent
  <2> QED BY <2>1, <2>2 DEF TellsOf, TtlKeyMissing, TtlKeyNoExpire
<1>5. CASE Visible(st, key, now) /\ st[key].expires_at # None
  <2>1. PICK at \in Nat : at = st[key].expires_at /\ at <= MaxTimestamp \div 2
    BY <1>2, <1>5, TimestampAssumption DEF Visible, StoredValues, Timestamps
  <2>2. AsI64(at) = at
    <3>1. MaxTimestamp \div 2 \in Int
      BY TimestampAssumption
    <3> QED BY <2>1, <3>1 DEF AsI64
  <2>3. ApplyTtl(key, st, now).n = at /\ ApplyGet(key, st, now) # Null /\ ~Persistent(st, key)
    BY <1>1, <1>5, <2>1, <2>2 DEF ApplyTtl, Integer, Persistent
  <2>4. at > now
    BY <1>5, <2>1 DEF Visible, IsExpired
  <2>5. ASSUME NEW later \in Timestamps
        PROVE  ApplyGet(key, st, later) # Null <=> later < at
    <3>1. later \in Nat
      BY TimestampAssumption DEF Timestamps
    <3>2. Visible(st, key, later) <=> later < at
      BY <1>5, <2>1, <3>1 DEF Visible, IsExpired
    <3> QED BY <1>1, <3>2
  <2>6. at # -2 /\ at # -1
    BY <2>1
  <2> QED BY <2>3, <2>4, <2>5, <2>6 DEF TellsOf, TtlKeyMissing, TtlKeyNoExpire
<1> QED BY <1>3, <1>4, <1>5

(* What TTL answers is what GET would find, now and at any later moment. *)
THEOREM TtlTellsWhatGetFinds == Spec => TtlAgreesWithGet
<1>1. ASSUME IInv, [Next]_vars, NEW c \in Clients, Ends(c), task[c].cmd.op = "TTL",
             store[task[c].cmd.key] # None /\ store[task[c].cmd.key].expires_at # None
                 => store[task[c].cmd.key].expires_at <= MaxTimestamp \div 2
      PROVE  TellsOf(task[c].cmd.key, task'[c].answer.n, store, clock)
  <2>1. /\ task[c].cmd \in Calls
        /\ task'[c].answer = Answer(task[c].cmd, task[c].gathered, store, clock)
    BY <1>1, EndsAtEnd, EndTask DEF IInv
  <2>2. PICK key \in Keys : key = task[c].cmd.key
    BY <1>1, <2>1 DEF Calls, Commands, WriteCommands, ReadCommands
  <2>3. task'[c].answer = ApplyTtl(key, store, clock)
    BY <1>1, <2>1, <2>2 DEF Answer
  <2>4. store \in Stores /\ clock \in Nat
    BY <1>1, MaxClockType DEF IInv, DataOK
  <2>5. TellsOf(key, ApplyTtl(key, store, clock).n, store, clock)
    BY <1>1, <2>2, <2>4, TtlTells
  <2> QED BY <2>2, <2>3, <2>5
<1>2. IInv /\ [Next]_vars =>
        [\A c \in Clients : Ends(c) /\ task[c].cmd.op = "TTL" =>
           LET key  == task[c].cmd.key
               told == task'[c].answer.n
           IN  (store[key] # None /\ store[key].expires_at # None
                    => store[key].expires_at <= MaxTimestamp \div 2)
               => TellsOf(key, told, store, clock)]_vars
  BY <1>1
<1> QED BY <1>2, IInvInit, IInvNext, PTL DEF Spec, TtlAgreesWithGet

(* Where the deadline of EXPIRE comes from: the command of a task was parsed
   from its request, at some moment since the request came. *)
Parsed(t, now) ==
    t.phase \in {"parsed", "waiting", "locked", "running"} =>
        /\ t.request.request \in Requests
        /\ t.request.at \in Nat
        /\ \E then \in 0 .. now :
               t.request.at <= then /\ t.cmd = TryFrom(t.request.request, then)

\* What arrived, arrived before.
Arrived(arrivals, now) ==
    \A i \in 1 .. Len(arrivals) : arrivals[i].at \in Nat /\ arrivals[i].at <= now

TimedOK ==
    /\ \A c \in Clients : Parsed(task[c], clock)
    /\ \A c \in Clients : Arrived(incoming[c], clock)

LEMMA TimedInit == Init => TimedOK
<1> SUFFICES ASSUME Init, NEW c \in Clients
             PROVE  Parsed(task[c], clock) /\ Arrived(incoming[c], clock)
  BY DEF TimedOK
<1>1. task[c].phase = "unconnected"
  BY DEF Init, NewTask
<1>2. incoming[c] = <<>>
  BY DEF Init
<1> QED BY <1>1, <1>2 DEF Parsed, Arrived

\* Time passes, the past stays.
LEMMA TimedLater ==
    ASSUME NEW t, NEW arrivals, NEW now \in Nat, NEW later \in Nat, now <= later
    PROVE  /\ Parsed(t, now) => Parsed(t, later)
           /\ Arrived(arrivals, now) => Arrived(arrivals, later)
BY DEF Parsed, Arrived

\* A task that is at a call is still at the same one.
SameCall(t, u) ==
    u.phase \in {"parsed", "waiting", "locked", "running"} =>
        /\ t.phase \in {"parsed", "waiting", "locked", "running"}
        /\ u.cmd = t.cmd /\ u.request = t.request

LEMMA CallStays ==
    ASSUME IInv, NEW c \in Clients,
           Accept(c) \/ ReadError(c) \/ ReadEnd(c) \/ Work(c) \/ Send(c)
    PROVE  /\ SameCall(task[c], task'[c])
           /\ \A d \in Clients : d # c => task'[d] = task[d]
           /\ incoming' = incoming \/ ReadError(c)
           /\ clock' = clock
<1>1. CASE Accept(c)
  BY <1>1, AcceptTask DEF IInv, Becomes, SameCall, Accept
<1>2. CASE ReadError(c)
  BY <1>2, ReadErrorTask DEF IInv, Becomes, SameCall, ReadError
<1>3. CASE ReadEnd(c)
  BY <1>3, ReadEndTask DEF IInv, Becomes, SameCall, ReadEnd
<1>4. CASE AskForLock(c)
  BY <1>4, AskForLockTask DEF IInv, Becomes, SameCall, AskForLock
<1>5. CASE Grant(c)
  BY <1>5, GrantTask DEF IInv, Becomes, SameCall, Grant
<1>6. CASE Log(c)
  BY <1>6, LogTask DEF IInv, Becomes, SameCall, Log
<1>7. CASE LogFails(c)
  BY <1>7, LogFailsTask DEF IInv, Becomes, SameCall, LogFails
<1>8. CASE Look(c)
  BY <1>8, LookTask DEF IInv, Becomes, SameCall, Look
<1>9. CASE End(c)
  BY <1>9, EndTask DEF IInv, Becomes, SameCall, End
<1>10. CASE Send(c)
  BY <1>10, SendTask DEF IInv, Becomes, SameCall, Send
<1> QED BY <1>1, <1>2, <1>3, <1>4, <1>5, <1>6, <1>7, <1>8, <1>9, <1>10 DEF Work

(* A request is parsed by the clock of the moment in which it is read. *)
LEMMA TimedRead ==
    ASSUME IInv, TimedOK, NEW c \in Clients, ReadCommand(c)
    PROVE  TimedOK'
<1>1. PICK arrivals \in Seq(Arrivals) : arrivals = incoming[c] /\ arrivals # <<>>
  BY DEF IInv, DataOK, ReadCommand
<1>2. PICK now \in Nat : now = clock /\ now \in 0 .. now
  BY MaxClockType DEF IInv, DataOK
<1>3. /\ clock' = clock
      /\ incoming'[c] = Tail(arrivals) /\ \A d \in Clients : d # c => incoming'[d] = incoming[d]
  BY <1>1 DEF IInv, DataOK, ReadCommand
<1>4. PICK first \in Arrivals : first = Head(arrivals) /\ first = arrivals[1]
  BY <1>1
<1>5. Arrived(arrivals, now)
  BY <1>1, <1>2 DEF TimedOK
<1>6. first.at \in Nat /\ first.at <= now
  <2>1. 1 \in 1 .. Len(arrivals)
    BY <1>1
  <2> QED BY <1>4, <1>5, <2>1 DEF Arrived
<1>7. Arrived(Tail(arrivals), now)
  <2> SUFFICES ASSUME NEW i \in 1 .. Len(Tail(arrivals))
               PROVE  Tail(arrivals)[i].at \in Nat /\ Tail(arrivals)[i].at <= now
    BY DEF Arrived
  <2>1. i + 1 \in 1 .. Len(arrivals) /\ Tail(arrivals)[i] = arrivals[i + 1]
    BY <1>1
  <2> QED BY <1>5, <2>1 DEF Arrived
<1>8. first.request \in Requests
  <2>1. first.request # Malformed
    BY <1>1, <1>4 DEF ReadCommand, Request
  <2> QED BY <2>1 DEF Arrivals
<1>9. Parsed(task'[c], now)
  <2>1. task'[c].phase \in {"parsed", "answering"}
    BY ReadCommandTask DEF IInv
  <2>2. CASE task'[c].phase = "parsed"
    <3>1. task'[c].request = first /\ task'[c].cmd = TryFrom(first.request, now)
      BY <1>1, <1>2, <1>4, <2>2, ReadCommandTask DEF IInv, Request
    <3> QED BY <1>2, <1>6, <1>8, <3>1 DEF Parsed
  <2>3. CASE task'[c].phase = "answering"
    BY <2>3 DEF Parsed
  <2> QED BY <2>1, <2>2, <2>3
<1>10. \A d \in Clients : d # c => task'[d] = task[d]
  BY ReadCommandTask DEF IInv, Becomes
<1>11. ASSUME NEW d \in Clients PROVE Parsed(task'[d], clock') /\ Arrived(incoming'[d], clock')
  <2>1. CASE d = c
    BY <1>2, <1>3, <1>7, <1>9, <2>1
  <2>2. CASE d # c
    BY <1>3, <1>10, <2>2 DEF TimedOK
  <2> QED BY <2>1, <2>2
<1> QED BY <1>11 DEF TimedOK

LEMMA TimedNext ==
    ASSUME IInv, TimedOK, [Next]_vars
    PROVE  TimedOK'
<1>1. clock \in Nat
  BY MaxClockType DEF IInv, DataOK
<1>2. CASE Tick
  <2>1. PICK now \in Nat, later \in Nat : now = clock /\ later = clock' /\ now <= later
    BY <1>1, <1>2 DEF Tick
  <2>2. task' = task /\ incoming' = incoming
    BY <1>2 DEF Tick
  <2>3. \A c \in Clients : Parsed(task[c], later) /\ Arrived(incoming[c], later)
    BY <2>1, TimedLater DEF TimedOK
  <2> QED BY <2>1, <2>2, <2>3 DEF TimedOK
<1>3. CASE AcceptFails
  <2> DEFINE t == [NewTask EXCEPT !.phase = "gone"]
  <2>1. t.phase = "gone"
    BY DEF NewTask
  <2>2. \A c \in Clients : task'[c] = t
    BY <1>3 DEF AcceptFails
  <2>3. incoming' = incoming /\ clock' = clock
    BY <1>3 DEF AcceptFails
  <2> HIDE DEF t
  <2>4. \A c \in Clients : Parsed(task'[c], clock')
    BY <2>1, <2>2 DEF Parsed
  <2> QED BY <2>3, <2>4 DEF TimedOK
<1>4. ASSUME NEW c \in Clients, NEW request \in Requests \cup {Malformed}, ClientSends(c, request)
      PROVE  TimedOK'
  <2>1. PICK arrivals \in Seq(Arrivals) : arrivals = incoming[c]
    BY DEF IInv, DataOK
  <2>2. PICK now \in Nat : now = clock
    BY <1>1
  <2>3. PICK new \in Arrivals : new = [request |-> request, at |-> now] /\ new.at = now
    <3> DEFINE a == [request |-> request, at |-> now]
    <3>1. a \in Arrivals /\ a.at = now
      BY DEF Arrivals
    <3> HIDE DEF a
    <3> QED BY <3>1 DEF a
  <2>4. /\ clock' = now /\ task' = task /\ incoming'[c] = Append(arrivals, new)
        /\ \A d \in Clients : d # c => incoming'[d] = incoming[d]
    BY <1>4, <2>1, <2>2, <2>3 DEF ClientSends, IInv, DataOK
  <2>5. Arrived(Append(arrivals, new), now)
    <3>1. Arrived(arrivals, now)
      BY <2>1, <2>2 DEF TimedOK
    <3> SUFFICES ASSUME NEW i \in 1 .. Len(Append(arrivals, new))
                 PROVE  Append(arrivals, new)[i].at \in Nat /\ Append(arrivals, new)[i].at <= now
      BY DEF Arrived
    <3>2. CASE i \in 1 .. Len(arrivals)
      <4>1. Append(arrivals, new)[i] = arrivals[i]
        BY <3>2
      <4> QED BY <3>1, <3>2, <4>1 DEF Arrived
    <3>3. CASE i = Len(arrivals) + 1
      <4>1. Append(arrivals, new)[i] = new
        BY <3>3
      <4> QED BY <2>3, <4>1
    <3>4. Len(Append(arrivals, new)) = Len(arrivals) + 1
      OBVIOUS
    <3> QED BY <3>2, <3>3, <3>4
  <2>6. ASSUME NEW d \in Clients PROVE Parsed(task'[d], clock') /\ Arrived(incoming'[d], clock')
    <3>1. CASE d = c
      BY <2>2, <2>4, <2>5, <3>1 DEF TimedOK
    <3>2. CASE d # c
      BY <2>2, <2>4, <3>2 DEF TimedOK
    <3> QED BY <3>1, <3>2
  <2> QED BY <2>6 DEF TimedOK
<1>5. ASSUME NEW c \in Clients,
             Accept(c) \/ ReadError(c) \/ ReadEnd(c) \/ Work(c) \/ Send(c)
      PROVE  TimedOK'
  <2>1. /\ SameCall(task[c], task'[c])
        /\ \A d \in Clients : d # c => task'[d] = task[d]
        /\ incoming' = incoming \/ ReadError(c)
        /\ clock' = clock
    BY <1>5, CallStays
  <2>2. PICK now, t, u : now = clock /\ t = task[c] /\ u = task'[c]
    OBVIOUS
  <2>3. Parsed(t, now)
    BY <2>2 DEF TimedOK
  <2>4. Parsed(u, now)
    BY <2>1, <2>2, <2>3 DEF Parsed, SameCall
  <2>5. \A d \in Clients : Parsed(task'[d], clock')
    BY <2>1, <2>2, <2>4 DEF TimedOK
  <2>6. \A d \in Clients : Arrived(incoming'[d], clock)
    <3>1. CASE incoming' = incoming
      BY <3>1 DEF TimedOK
    <3>2. CASE ReadError(c)
      <4>1. incoming'[c] = <<>> /\ \A d \in Clients : d # c => incoming'[d] = incoming[d]
        BY <3>2, ReadErrorData DEF IInv
      <4>2. Arrived(<<>>, clock)
        BY DEF Arrived
      <4> QED BY <4>1, <4>2 DEF TimedOK
    <3> QED BY <2>1, <3>1, <3>2
  <2> QED BY <2>1, <2>5, <2>6 DEF TimedOK
<1>6. ASSUME NEW c \in Clients, ReadCommand(c) PROVE TimedOK'
  BY <1>6, TimedRead
<1>7. CASE \/ GrantCleaner \/ CleanerWakes \/ Cleaning \/ UNCHANGED vars
           \/ \E c \in Clients : ClientCloses(c)
  <2>1. task' = task /\ incoming' = incoming /\ clock' = clock
    BY <1>7 DEF GrantCleaner, CleanerWakes, Cleaning, RemoveExpired, ClientCloses, vars
  <2> QED BY <2>1 DEF TimedOK
<1> QED BY <1>2, <1>3, <1>4, <1>5, <1>6, <1>7 DEF Next, Reading

(* EXPIRE parses to the deadline that is its seconds away from the parse. *)
LEMMA ExpireParses ==
    ASSUME NEW request \in Requests, NEW then \in 0 .. MaxClock, request[1] = "EXPIRE",
           NEW cmd \in Calls, cmd = TryFrom(request, then)
    PROVE  /\ NumberOf[request[3]] \in Timestamps
           /\ cmd.op = "EXPIREAT" /\ cmd.key \in Keys
           /\ cmd.at = SaturatingAdd(then, NumberOf[request[3]])
<1>1. PICK S : request \in Seq(S)
  BY RequestAssumption
<1>2. cmd \in Commands /\ cmd.op # "ERROR"
  BY DEF Calls, Commands, WriteCommands, ReadCommands
<1>3. \A error : CommandError(error).op = "ERROR"
  BY DEF CommandError
<1>4. PICK args : args = Tail(request)
  OBVIOUS
<1>5. request # <<>> /\ Head(request) = "EXPIRE"
  <2>1. request # <<>>
    BY <1>2, <1>3 DEF TryFrom
  <2> QED BY <1>1, <2>1
<1>6. cmd = ParseExpire(args, then)
  BY <1>2, <1>3, <1>4, <1>5 DEF TryFrom
<1> DEFINE told == ExpireAt(args[1], SaturatingAdd(then, NumberOf[args[2]]))
<1>7. /\ cmd = told /\ args[2] \in DOMAIN NumberOf
      /\ ~(Len(args) < 2) /\ ~(Len(args) > 2)
  <2> HIDE DEF told
  <2>1. cmd = ParseExpiration(args, told)
    BY <1>6 DEF ParseExpire, told
  <2> QED BY <1>2, <1>3, <2>1 DEF ParseExpiration, Exactly, AtLeast
<1>8. args[2] = request[3]
  <2>1. args \in Seq(S) /\ Len(args) \in Nat
    BY <1>1, <1>4, <1>5
  <2>2. 2 \in 1 .. Len(args)
    BY <1>7, <2>1
  <2> QED BY <1>1, <1>4, <1>5, <2>2
<1>9. cmd.op = "EXPIREAT" /\ cmd.at = SaturatingAdd(then, NumberOf[args[2]])
  BY <1>7 DEF ExpireAt
<1>10. cmd.key \in Keys
  BY <1>2, <1>9 DEF Commands, WriteCommands, ReadCommands
<1>11. NumberOf[args[2]] \in Timestamps
  BY <1>7, NumberAssumption
<1> QED BY <1>8, <1>9, <1>10, <1>11

(* Answered with 1, EXPIREAT has left its deadline. *)
LEMMA ExpireLeaves ==
    ASSUME NEW st \in Stores, NEW key \in Keys, NEW at \in Timestamps, NEW now,
           ExpireAtAnswer(key, st, now) = Integer(1)
    PROVE  ApplyExpireAt(key, at, st, now)[key].expires_at = at
<1> DEFINE swept == EjectIfExpired(st, key, now)
<1>1. swept[key] # None
  BY DEF ExpireAtAnswer, Integer
<1>2. swept \in Stores
  <2>1. swept = st \/ swept = [st EXCEPT ![key] = None]
    BY DEF EjectIfExpired
  <2> QED BY <2>1 DEF Stores
<1>3. ApplyExpireAt(key, at, st, now) = [swept EXCEPT ![key].expires_at = at]
  BY <1>1 DEF ApplyExpireAt
<1> HIDE DEF swept
<1>4. swept[key] \in StoredValues
  BY <1>1, <1>2 DEF Stores
<1>5. [swept[key] EXCEPT !.expires_at = at].expires_at = at
  BY <1>4 DEF StoredValues
<1> QED BY <1>2, <1>3, <1>5 DEF Stores

(* The deadline that an EXPIRE leaves is its seconds away from a moment
   between the arrival of the request and the answer. *)
THEOREM ExpireCountsFromTheRequest == Spec => ExpireWindow
<1>1. ASSUME IInv, TimedOK, [Next]_vars, NEW c \in Clients, Ends(c),
             task[c].request.request[1] = "EXPIRE", task'[c].answer = Integer(1)
      PROVE  LET cmd  == task[c].cmd
                 secs == NumberOf[task[c].request.request[3]]
             IN  /\ SaturatingAdd(task[c].request.at, secs) <= store'[cmd.key].expires_at
                 /\ store'[cmd.key].expires_at <= SaturatingAdd(clock, secs)
  <2>1. End(c)
    BY <1>1, EndsAtEnd
  <2>2. /\ task[c].phase = "running" /\ task[c].cmd \in Calls
        /\ task'[c].answer = Answer(task[c].cmd, task[c].gathered, store, clock)
    BY <1>1, <2>1, EndTask DEF IInv
  <2>3. store \in Stores /\ clock \in 0 .. MaxClock /\ clock \in Nat
    BY <1>1, MaxClockType DEF IInv, DataOK
  <2>4. PICK cmd \in Calls : cmd = task[c].cmd
    BY <2>2
  <2>5. PICK request \in Requests, at \in Nat, then \in 0 .. MaxClock :
            /\ request = task[c].request.request /\ at = task[c].request.at
            /\ cmd = TryFrom(request, then) /\ at <= then /\ then <= clock
    <3>1. Parsed(task[c], clock)
      BY <1>1 DEF TimedOK
    <3> QED BY <2>2, <2>3, <2>4, <3>1, MaxClockType DEF Parsed
  <2>6. PICK secs \in Timestamps : secs = NumberOf[request[3]]
    BY <1>1, <2>5, ExpireParses
  <2>7. /\ cmd.op = "EXPIREAT" /\ cmd.key \in Keys
        /\ cmd.at = SaturatingAdd(then, secs)
    BY <1>1, <2>5, <2>6, ExpireParses
  <2>8. secs \in Nat /\ then \in Nat /\ MaxTimestamp \in Nat
    BY <2>5, TimestampAssumption, MaxClockType DEF Timestamps
  <2>9. PICK key \in Keys, deadline \in Timestamps : key = cmd.key /\ deadline = cmd.at
    BY <2>7, <2>8 DEF SaturatingAdd, Timestamps
  <2>10. store' = ApplyExpireAt(key, deadline, store, clock)
    BY <2>1, <2>4, <2>7, <2>9 DEF End, StoreAtEnd, ApplyWrite
  <2>11. ExpireAtAnswer(key, store, clock) = Integer(1)
    BY <1>1, <2>2, <2>4, <2>7, <2>9 DEF Answer
  <2>12. store'[key].expires_at = deadline
    BY <2>3, <2>10, <2>11, ExpireLeaves
  <2>13. SaturatingAdd(at, secs) <= deadline /\ deadline <= SaturatingAdd(clock, secs)
    BY <2>3, <2>5, <2>7, <2>8, <2>9 DEF SaturatingAdd
  <2> QED BY <2>4, <2>5, <2>6, <2>9, <2>12, <2>13
<1>2. IInv /\ TimedOK /\ [Next]_vars =>
        [\A c \in Clients : Ends(c) =>
           LET cmd     == task[c].cmd
               request == task[c].request
           IN  request.request[1] = "EXPIRE" /\ task'[c].answer = Integer(1) =>
                   /\ SaturatingAdd(request.at, NumberOf[request.request[3]])
                          <= store'[cmd.key].expires_at
                   /\ store'[cmd.key].expires_at
                          <= SaturatingAdd(clock, NumberOf[request.request[3]])]_vars
  BY <1>1
<1> QED BY <1>2, IInvInit, IInvNext, TimedInit, TimedNext, PTL DEF Spec, ExpireWindow
=============================================================================
