------------------------------- MODULE KeyMap -------------------------------
(***************************************************************************)
(* What KeyStore promises its callers: a map, called one operation at a    *)
(* time, whose every operation answers with what the key held before.      *)
(* get_mut stands together with the assignment its caller makes through    *)
(* it.                                                                     *)
(***************************************************************************)
CONSTANTS Keys, Values, None

VARIABLES
    map,         \* the value of every key, None where it has none
    op,          \* the operation in progress, None between operations
    result       \* what the last operation answered

vars == <<map, op, result>>

Operations ==
         [kind : {"insert", "get_mut"}, key : Keys, value : Values]
    \cup [kind : {"get", "del"}, key : Keys]

Init ==
    /\ map = [key \in Keys |-> None]
    /\ op = None
    /\ result = None

Call ==
    /\ op = None
    /\ op' \in Operations
    /\ UNCHANGED <<map, result>>

\* What an operation makes of the value it finds.
NewValueOf(o, found) ==
    CASE o.kind = "insert"  -> o.value
      [] o.kind = "get_mut" -> IF found = None THEN None ELSE o.value
      [] o.kind = "get"     -> found
      [] o.kind = "del"     -> None

Return ==
    /\ op # None
    /\ result' = map[op.key]
    /\ map' = [map EXCEPT ![op.key] = NewValueOf(op, @)]
    /\ op' = None

Next == Call \/ Return

Spec == Init /\ [][Next]_vars
=============================================================================
