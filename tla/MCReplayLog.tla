----------------------------- MODULE MCReplayLog -----------------------------
(* Logs of commands with short arguments, and with a longer value.          *)
EXTENDS ReplayLog, TLC

Letter == 97

Bytes(n) == [i \in 1 .. n |-> Letter]

MCKeys == {"k", "j"}

MCValues == {"v", "long"}

MCNumberOf == "0" :> 0 @@ "1" :> 1 @@ "2" :> 2

\* A key that looks like the end of a line, a value of ten bytes, and one as
\* long as a record of DEL without its last CRLF.
MCBytesOf ==
    "SET" :> <<83, 69, 84>> @@ "MSET" :> <<77, 83, 69, 84>>
        @@ "DEL" :> <<68, 69, 76>>
        @@ "EXPIRE" :> <<69, 88, 80, 73, 82, 69>>
        @@ "EXPIREAT" :> <<69, 88, 80, 73, 82, 69, 65, 84>>
        @@ "k" :> <<107>> @@ "j" :> <<LF>>
        @@ "v" :> <<118>> @@ "long" :> Bytes(18)
        @@ "0" :> <<48>> @@ "1" :> <<49>> @@ "2" :> <<50>>

MCEntryLists == {<< <<"k", "v">>, <<"j", "v">> >>}

MCKeyLists == {<<"k">>, <<"k", "j">>}

\* One byte is the limit: torn before a value of two bytes, a SET takes the "*3"
\* of another torn record for it.
MCShort ==
    {[op |-> "SET", key |-> "k", value |-> "v"],
     [op |-> "MSET", entries |-> << <<"k", "v">>, <<"j", "v">> >>],
     [op |-> "DEL", keys |-> <<"k", "j">>],
     [op |-> "EXPIREAT", key |-> "k", at |-> 1]}

MCLong ==
    {[op |-> "SET", key |-> "k", value |-> "long"], [op |-> "DEL", keys |-> <<"k">>]}
=============================================================================
