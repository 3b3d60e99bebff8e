----------------------------- MODULE Connections -----------------------------
(***************************************************************************)
(* The running server as its clients meet it (server.rs): one task per     *)
(* connection that reads a request, parses it, waits for the RwLock, runs  *)
(* the command and answers; the cleanup task, which takes the same lock;   *)
(* and the accept loop, whose end is the end of all of them.               *)
(*                                                                         *)
(* The lock is tokio's: those who wait stand in one queue, readers share.  *)
(* The bytes of a request arrive as a whole here (RequestDecoder cuts      *)
(* them), a request that does not decode arrives as Malformed.  The log is *)
(* only there as an append that works or fails (ServerState has it).       *)
(***************************************************************************)
EXTENDS CommandParsing, CommandAnswers

CONSTANTS
    Clients,
    Attentive,        \* the clients that take their answers
    Cleaner,          \* the cleanup task
    Requests,         \* the requests clients send
    Malformed,        \* input that is no request
    InitialStores,    \* what the replay may have left
    MaxRequests,      \* bound: requests per client
    MaxClock          \* bound: the clock stops here

ASSUME ConnectionAssumption ==
    /\ Cleaner \notin Clients
    /\ Attentive \subseteq Clients
    /\ InitialStores \subseteq Stores
    /\ MaxRequests \in Nat
    /\ MaxClock \in Timestamps
    /\ IsFiniteSet(Keys)

\* Requests are lists of arguments, made of the keys, values and lists of this
\* instance.
ASSUME RequestAssumption ==
    \A request \in Requests :
        /\ request \in Seq({request[i] : i \in DOMAIN request})
        /\ \A now \in 0 .. MaxClock :
               TryFrom(request, now).op = "ERROR" \/ TryFrom(request, now) \in Commands

VARIABLES
    clock,
    store,       \* ServerState.key_store
    server,      \* the accept loop: "serving" or "stopped"
    queue,       \* the tasks waiting for the lock
    holding,     \* the tasks that have it
    task,        \* the tasks of the connections
    cleaner,     \* the cleanup task
    incoming,    \* what has arrived on each connection and was not read yet
    open,        \* ghost: whether the client may still send
    sent,        \* ghost: how many requests it has sent
    answered     \* ghost: how many responses were sent to it

vars == <<clock, store, server, queue, holding, task, cleaner, incoming, open, sent, answered>>

Phases == {"unconnected", "reading", "parsed", "waiting", "locked", "running",
           "answering", "closed", "gone"}

\* A task: its phase, the request and command it is at, the looks it still has
\* to take, what they gave so far, and its answer.
NewTask ==
    [phase |-> "unconnected", request |-> None, cmd |-> None, todo |-> <<>>,
     gathered |-> <<>>, answer |-> None, last |-> FALSE]

Init ==
    /\ clock = 0
    /\ store \in InitialStores
    /\ server = "serving"
    /\ queue = <<>>
    /\ holding = {}
    /\ task = [c \in Clients |-> NewTask]
    /\ cleaner = [phase |-> "sleeping", since |-> 0]
    /\ incoming = [c \in Clients |-> <<>>]
    /\ open = [c \in Clients |-> TRUE]
    /\ sent = [c \in Clients |-> 0]
    /\ answered = [c \in Clients |-> 0]

In(c, phase) == server = "serving" /\ task[c].phase = phase

Tick ==
    /\ clock < MaxClock
    /\ clock' = clock + 1
    /\ UNCHANGED <<store, server, queue, holding, task, cleaner, incoming, open, sent, answered>>

-----------------------------------------------------------------------------
(* The clients.                                                             *)

\* The server has not read the last of the connection: after an error in the
\* reader or the end of the task, nothing takes notice of what a client sends.
Listening(c) == task[c].phase \notin {"unconnected", "closed", "gone"} /\ ~task[c].last

ClientSends(c, request) ==
    /\ Listening(c)
    /\ open[c]
    /\ sent[c] < MaxRequests
    /\ incoming' = [incoming EXCEPT ![c] = Append(@, [request |-> request, at |-> clock])]
    /\ sent' = [sent EXCEPT ![c] = @ + 1]
    /\ UNCHANGED <<clock, store, server, queue, holding, task, cleaner, open, answered>>

ClientCloses(c) ==
    /\ Listening(c)
    /\ open[c]
    /\ open' = [open EXCEPT ![c] = FALSE]
    /\ UNCHANGED <<clock, store, server, queue, holding, task, cleaner, incoming, sent, answered>>

-----------------------------------------------------------------------------
(* The accept loop.                                                         *)

Accept(c) ==
    /\ In(c, "unconnected")
    /\ task' = [task EXCEPT ![c].phase = "reading"]
    /\ UNCHANGED <<clock, store, server, queue, holding, cleaner, incoming, open, sent, answered>>

\* serve returns, main with it, and the runtime drops every task.
AcceptFails ==
    /\ server = "serving"
    /\ server' = "stopped"
    /\ task' = [c \in Clients |-> [NewTask EXCEPT !.phase = "gone"]]
    /\ cleaner' = [cleaner EXCEPT !.phase = "gone"]
    /\ queue' = <<>>
    /\ holding' = {}
    /\ UNCHANGED <<clock, store, incoming, open, sent, answered>>

-----------------------------------------------------------------------------
(* handle_client_connection: reading and parsing.                           *)

Request(c) == Head(incoming[c]).request

\* The response to be sent next; after the last one the task returns.
Answering(t, answer, last) ==
    [t EXCEPT !.phase = "answering", !.answer = answer, !.last = last]

\* Mutant: a request that is no command is passed over.
ReadCommandSilently(c) ==
    /\ In(c, "reading")
    /\ incoming[c] # <<>>
    /\ Request(c) # Malformed
    /\ incoming' = [incoming EXCEPT ![c] = Tail(@)]
    /\ LET cmd == TryFrom(Request(c), clock)
       IN  task' = [task EXCEPT ![c] =
               IF cmd.op = "ERROR"
               THEN @
               ELSE [@ EXCEPT !.phase = "parsed", !.cmd = cmd, !.request = Head(incoming[c])]]
    /\ UNCHANGED <<clock, store, server, queue, holding, cleaner, open, sent, answered>>

\* A request has come: it is parsed at once, by the clock of this moment.
ReadCommand(c) ==
    /\ In(c, "reading")
    /\ incoming[c] # <<>>
    /\ Request(c) # Malformed
    /\ incoming' = [incoming EXCEPT ![c] = Tail(@)]
    /\ LET cmd == TryFrom(Request(c), clock)
       IN  task' = [task EXCEPT ![c] =
               IF cmd.op = "ERROR"
               THEN Answering(@, Error("Command"), FALSE)
               ELSE [@ EXCEPT !.phase = "parsed", !.cmd = cmd, !.request = Head(incoming[c])]]
    /\ UNCHANGED <<clock, store, server, queue, holding, cleaner, open, sent, answered>>

\* The reader returns an error: bytes that are no request, an end of input
\* inside one, or a read that fails, which any read may.  It is the last that
\* is read of the connection.
ReadError(c) ==
    /\ In(c, "reading")
    /\ incoming' = [incoming EXCEPT ![c] = <<>>]
    /\ task' = [task EXCEPT ![c] = Answering(@, Error("Request"), TRUE)]
    /\ UNCHANGED <<clock, store, server, queue, holding, cleaner, open, sent, answered>>

\* The client has closed between two requests.
ReadEnd(c) ==
    /\ In(c, "reading")
    /\ incoming[c] = <<>>
    /\ ~open[c]
    /\ task' = [task EXCEPT ![c].phase = "closed"]
    /\ UNCHANGED <<clock, store, server, queue, holding, cleaner, incoming, open, sent, answered>>

-----------------------------------------------------------------------------
(* The lock.                                                                *)

IsWriter(t) == IF t = Cleaner THEN TRUE ELSE IsWriteOp(task[t].cmd)

\* ss.read() or ss.write().
AskForLock(c) ==
    /\ In(c, "parsed")
    /\ queue' = Append(queue, c)
    /\ task' = [task EXCEPT ![c].phase = "waiting"]
    /\ UNCHANGED <<clock, store, server, holding, cleaner, incoming, open, sent, answered>>

\* Readers run together, a writer runs alone.
Admissible(t) ==
    \A u \in holding : ~IsWriter(t) /\ ~IsWriter(u)

\* The first in the queue gets the lock.
Pass(t) ==
    /\ server = "serving"
    /\ queue # <<>>
    /\ t = Head(queue)
    /\ Admissible(t)
    /\ queue' = Tail(queue)
    /\ holding' = holding \cup {t}

Grant(c) ==
    /\ Pass(c)
    /\ \E todo \in TodoLists(task[c].cmd) :
           task' = [task EXCEPT
               ![c].phase = IF IsWriteOp(task[c].cmd) THEN "locked" ELSE "running",
               ![c].todo = todo]
    /\ UNCHANGED <<clock, store, server, cleaner, incoming, open, sent, answered>>

GrantCleaner ==
    /\ Pass(Cleaner)
    /\ cleaner' = [phase |-> "scanning", since |-> clock]
    /\ UNCHANGED <<clock, store, server, task, incoming, open, sent, answered>>

-----------------------------------------------------------------------------
(* ServerState::read and ServerState::write, under the lock.                *)

\* The command is in the log.
Log(c) ==
    /\ In(c, "locked")
    /\ task' = [task EXCEPT ![c].phase = "running"]
    /\ UNCHANGED <<clock, store, server, queue, holding, cleaner, incoming, open, sent, answered>>

\* The append fails: nothing is applied.
LogFails(c) ==
    /\ In(c, "locked")
    /\ task' = [task EXCEPT ![c] = Answering(@, Error("Io"), FALSE)]
    /\ holding' = holding \ {c}
    /\ UNCHANGED <<clock, store, server, queue, cleaner, incoming, open, sent, answered>>

\* Mutant: the lock is given up and taken again between two keys.
LookUnlocking(c) ==
    /\ In(c, "running")
    /\ task[c].todo # <<>>
    /\ LET cmd == task[c].cmd
           key == Head(task[c].todo)
       IN  /\ task' = [task EXCEPT ![c].todo = Tail(@),
                                   ![c].gathered = @ \o Gathered(cmd, key, store, clock)]
           /\ store' = StoreAfterLook(cmd, key, store)
    /\ holding' = holding \ {c}
    /\ UNCHANGED <<clock, server, queue, cleaner, incoming, open, sent, answered>>

\* The next key of MGET, GETALL or DEL, by the clock of this moment.
Look(c) ==
    /\ In(c, "running")
    /\ task[c].todo # <<>>
    /\ LET cmd == task[c].cmd
           key == Head(task[c].todo)
       IN  /\ task' = [task EXCEPT ![c].todo = Tail(@),
                                   ![c].gathered = @ \o Gathered(cmd, key, store, clock)]
           /\ store' = StoreAfterLook(cmd, key, store)
    /\ UNCHANGED <<clock, server, queue, holding, cleaner, incoming, open, sent, answered>>

\* Mutant: the guard lives until the response is sent.
EndHolding(c) ==
    /\ In(c, "running")
    /\ task[c].todo = <<>>
    /\ LET cmd == task[c].cmd
       IN  /\ task' = [task EXCEPT ![c] =
                           Answering(@, Answer(cmd, @.gathered, store, clock), FALSE)]
           /\ store' = StoreAtEnd(cmd, store, clock)
    /\ UNCHANGED <<clock, server, queue, holding, cleaner, incoming, open, sent, answered>>

\* The command is done; the guard is dropped before the response is sent.
End(c) ==
    /\ In(c, "running")
    /\ task[c].todo = <<>>
    /\ LET cmd == task[c].cmd
       IN  /\ task' = [task EXCEPT ![c] =
                           Answering(@, Answer(cmd, @.gathered, store, clock), FALSE)]
           /\ store' = StoreAtEnd(cmd, store, clock)
    /\ holding' = holding \ {c}
    /\ UNCHANGED <<clock, server, queue, cleaner, incoming, open, sent, answered>>

\* send_response has ended, well or not: a client that reads its answers lets
\* it end well, one that is gone lets it fail, one that does neither keeps the
\* task here.
Send(c) ==
    /\ In(c, "answering")
    /\ task' = [task EXCEPT ![c] =
           [NewTask EXCEPT !.phase = IF task[c].last THEN "closed" ELSE "reading"]]
    /\ holding' = holding \ {c}
    /\ answered' = [answered EXCEPT ![c] = @ + 1]
    /\ UNCHANGED <<clock, store, server, queue, cleaner, incoming, open, sent>>

-----------------------------------------------------------------------------
(* The cleanup task.                                                        *)

CleanerWakes ==
    /\ cleaner.phase = "sleeping"
    /\ cleaner' = [cleaner EXCEPT !.phase = "waiting"]
    /\ queue' = Append(queue, Cleaner)
    /\ UNCHANGED <<clock, store, server, holding, task, incoming, open, sent, answered>>

\* remove_expired: each key was looked at some time since the lock was taken.
RemoveExpired(gone) ==
    /\ cleaner.phase = "scanning"
    /\ ExpiredKeys(store, cleaner.since) \subseteq gone
    /\ gone \subseteq ExpiredKeys(store, clock)
    /\ store' = RemoveKeys(gone, store)
    /\ cleaner' = [phase |-> "sleeping", since |-> 0]
    /\ holding' = holding \ {Cleaner}
    /\ UNCHANGED <<clock, server, queue, task, incoming, open, sent, answered>>

-----------------------------------------------------------------------------
\* What a task does by itself, once its turn has come.
Work(c) == AskForLock(c) \/ Grant(c) \/ Log(c) \/ LogFails(c) \/ Look(c) \/ End(c)

Reading(c) == ReadCommand(c) \/ ReadError(c) \/ ReadEnd(c)

\* The read of the task comes back: bytes have arrived, or their end.
HasInput(c) == incoming[c] # <<>> \/ ~open[c]

Cleaning == \E gone \in SUBSET Keys : RemoveExpired(gone)

Next ==
    \/ Tick
    \/ AcceptFails
    \/ GrantCleaner
    \/ CleanerWakes
    \/ Cleaning
    \/ \E c \in Clients :
           \/ \E request \in Requests \cup {Malformed} : ClientSends(c, request)
           \/ ClientCloses(c)
           \/ Accept(c)
           \/ Reading(c)
           \/ Work(c)
           \/ Send(c)

Spec == Init /\ [][Next]_vars

\* Tasks run when they can.  No client owes anybody a request, no read need
\* fail, and only the attentive clients can be relied on to take their answers.
Fairness ==
    /\ WF_vars(GrantCleaner)
    /\ WF_vars(Cleaning)
    /\ \A c \in Clients : WF_vars(Work(c)) /\ WF_vars(HasInput(c) /\ Reading(c))
    /\ \A c \in Attentive : WF_vars(Send(c))

LiveSpec == Spec /\ Fairness

-----------------------------------------------------------------------------
(* Properties.                                                              *)

(* Types, and the discipline of the lock: whoever holds it is in a phase that
   needs it, a writer holds it alone, and nobody waits twice. *)
TypeOK ==
    /\ clock \in 0 .. MaxClock
    /\ store \in Stores
    /\ server \in {"serving", "stopped"}
    /\ \A c \in Clients : task[c].phase \in Phases
    /\ cleaner.phase \in {"sleeping", "waiting", "scanning", "gone"}
    /\ \A c \in Clients : c \in holding <=> task[c].phase \in {"locked", "running"}
    /\ Cleaner \in holding <=> cleaner.phase = "scanning"
    /\ \A t, u \in holding : t # u => ~IsWriter(t)
    /\ \A i, j \in DOMAIN queue : i # j => queue[i] # queue[j]
    /\ sent \in [Clients -> 0 .. MaxRequests]

CallOf(t) ==
    CASE t.phase = "running"   -> Running(t.cmd, t.todo, t.gathered)
      [] t.phase = "answering" -> Answered(t.answer)
      [] OTHER                 -> Idle

\* The commands in the clients' requests.
Calls == {TryFrom(request, now) : request \in Requests, now \in 0 .. MaxClock} \cap Commands

Promise == INSTANCE ExpiringMap WITH
    view <- Live(store, clock),
    call <- [c \in Clients |-> CallOf(task[c])]

(* Behind the lock, the queue and the table with its expired entries, clients
   meet a map in which a key is gone at the second of its deadline: every
   answer is what that map gives at some moment between the request and the
   answer, writes have it for themselves, a refused or unlogged command leaves
   it alone, and the cleanup is never seen (handle_client_connection,
   ServerState::read and write, remove_expired). *)
ImplementsExpiringMap == Promise!Spec

\* The command of task c ends in this step.
Ends(c) == task[c].phase = "running" /\ task'[c].phase = "answering"

(* An EXPIRE of s seconds that is answered with 1 leaves a deadline s seconds
   after some moment between the arrival of the request and the answer, no
   earlier and no later, although it is computed before the lock is waited
   for, and at the latest time there is where the sum has no room
   (parse_expire). *)
ExpireWindow ==
    [][\A c \in Clients : Ends(c) =>
           LET cmd     == task[c].cmd
               request == task[c].request
           IN  request.request[1] = "EXPIRE" /\ task'[c].answer = Integer(1) =>
                   /\ SaturatingAdd(request.at, NumberOf[request.request[3]])
                          <= store'[cmd.key].expires_at
                   /\ store'[cmd.key].expires_at
                          <= SaturatingAdd(clock, NumberOf[request.request[3]])]_vars

(* Whoever waits for the lock gets it, whether or not the clients take their
   answers and however often the cleanup comes back: no task keeps the lock
   over a wait of its own (handle_client_connection, spawn_ttl_cleanup_task). *)
NobodyStarves ==
    \A c \in Clients : task[c].phase = "waiting" ~> task[c].phase # "waiting"

(* A client that takes its answers gets one for every request, whatever other
   clients do, unless its connection or the server comes to its end
   (handle_client_connection). *)
EveryRequestAnswered ==
    \A c \in Attentive, n \in 1 .. MaxRequests :
        sent[c] >= n ~> answered[c] >= n \/ task[c].phase \in {"closed", "gone"}

\* What TTL should tell of a key: whether GET finds it, and until when.
TellsOf(key, told, st, now) ==
    /\ told = TtlKeyMissing <=> ApplyGet(key, st, now) = Null
    /\ told = TtlKeyNoExpire <=> Persistent(st, key)
    /\ told \notin {TtlKeyMissing, TtlKeyNoExpire} =>
           /\ told > now
           /\ \A later \in Timestamps : ApplyGet(key, st, later) # Null <=> later < told

(* TTL and GET tell the same story, whatever expired entries the table still
   has: TTL answers -2 where GET would find nothing, -1 where GET finds a key
   that has no deadline, and otherwise the moment, still to come, up to which
   GET finds the key: its deadline itself, not the seconds left.  This holds of
   deadlines that are an i64; beyond, the answer runs into the markers
   (apply_ttl, apply_get). *)
TtlAgreesWithGet ==
    [][\A c \in Clients : Ends(c) /\ task[c].cmd.op = "TTL" =>
           LET key  == task[c].cmd.key
               told == task'[c].answer.n
           IN  (store[key] # None /\ store[key].expires_at # None
                    => store[key].expires_at <= MaxTimestamp \div 2)
               => TellsOf(key, told, store, clock)]_vars
=============================================================================
