------------------------------ MODULE Responses ------------------------------
(* The server's answers: the enum Response of response.rs. *)

Ok == [kind |-> "Ok"]
Error(msg) == [kind |-> "Error", msg |-> msg]
Cstr(bytes) == [kind |-> "Cstr", bytes |-> bytes]
Null == [kind |-> "Null"]
Integer(n) == [kind |-> "Integer", n |-> n]
Array(responses) == [kind |-> "Array", responses |-> responses]
=============================================================================
