----------------------------- MODULE ExpiringMap -----------------------------
(***************************************************************************)
(* What the running server promises its clients: a map in which a key is   *)
(* gone at the second of its deadline.  There is no table with expired     *)
(* entries here, no cleanup, no lock and no queue.                         *)
(*                                                                         *)
(* A call that writes has the map for itself.  A call that reads several   *)
(* keys reads all of them from the same map, but each by the clock of its  *)
(* own moment: keys may vanish between two looks, and nothing else can     *)
(* change.                                                                 *)
(***************************************************************************)
EXTENDS CommandAnswers

CONSTANTS
    Clients,
    Calls        \* the commands clients may call

VARIABLES
    clock,
    view,        \* what is there, for anyone who looks now
    call         \* the call of each client

Init ==
    /\ clock = 0
    /\ view \in Stores
    /\ view = Live(view, clock)
    /\ call = [c \in Clients |-> Idle]

Writes(cmd) == cmd.op \in {"SET", "MSET", "DEL", "EXPIREAT"}

\* Time passes, and keys with it.
Tick ==
    /\ clock' = clock + 1
    /\ view' = Live(view, clock')
    /\ UNCHANGED call

\* A call takes hold of the map.
Begin(c, cmd) ==
    /\ call[c] = Idle
    /\ \A d \in Clients : call[d].phase = "running" =>
           ~Writes(cmd) /\ ~Writes(call[d].cmd)
    /\ \E todo \in TodoLists(cmd) : call' = [call EXCEPT ![c] = Running(cmd, todo, <<>>)]
    /\ UNCHANGED <<clock, view>>

\* A call looks at its next key.
Look(c) ==
    /\ call[c].phase = "running"
    /\ call[c].todo # <<>>
    /\ LET cmd == call[c].cmd
           key == Head(call[c].todo)
       IN  /\ call' = [call EXCEPT ![c].todo = Tail(@),
                                   ![c].gathered = @ \o Gathered(cmd, key, view, clock)]
           /\ view' = StoreAfterLook(cmd, key, view)
    /\ UNCHANGED clock

\* A call ends, with the answer the map gives it.
End(c) ==
    /\ call[c].phase = "running"
    /\ call[c].todo = <<>>
    /\ LET cmd == call[c].cmd
       IN  /\ call' = [call EXCEPT ![c] = Answered(Answer(cmd, call[c].gathered, view, clock))]
           /\ view' = Live(StoreAtEnd(cmd, view, clock), clock)
    /\ UNCHANGED clock

\* A call that is refused changes nothing.
Refuse(c) ==
    /\ call[c] = Idle
    /\ \E error \in {"Command", "Request", "Io"} :
           call' = [call EXCEPT ![c] = Answered(Error(error))]
    /\ UNCHANGED <<clock, view>>

\* The answer is on its way.
Return(c) ==
    /\ call[c].phase = "answered"
    /\ call' = [call EXCEPT ![c] = Idle]
    /\ UNCHANGED <<clock, view>>

\* The service stops: nobody is answered any more.
Stop ==
    /\ call' = [c \in Clients |-> Idle]
    /\ UNCHANGED <<clock, view>>

Next ==
    \/ Tick
    \/ \E c \in Clients :
           \/ \E cmd \in Calls : Begin(c, cmd)
           \/ Look(c)
           \/ End(c)
           \/ Refuse(c)
           \/ Return(c)
    \/ Stop

Spec == Init /\ [][Next]_<<clock, view, call>>
=============================================================================
