---------------------------- MODULE MCConnections ----------------------------
(* Two keys, two values, two clients and what they ask of the server.       *)
EXTENDS Connections, TLC

CONSTANTS c1, c2

MCKeys == {"k", "j"}

MCValues == {"v", "w"}

\* The numbers clients write; "9" stands for a number too long to add to.
MCNumberOf == "0" :> 0 @@ "1" :> 1 @@ "9" :> MaxTimestamp

MCNotUtf8 == {"?"}

MCEntryLists == {<< <<"k", "w">>, <<"j", "w">> >>}

MCKeyLists == {<<"k", "j">>, <<"j", "j">>}

\* j lives until 1, k for ever.
MCStores ==
    {[key \in MCKeys |-> [bytes |-> "v", expires_at |-> IF key = "j" THEN 1 ELSE None]]}

MCRequests ==
    {<<"MGET", "k", "j">>, <<"GETALL">>, <<"DEL", "k", "j">>, <<"MSET", "k", "w", "j", "w">>,
     <<"EXPIRE", "j", "1">>, <<"EXPIRE", "j", "9">>, <<"EXPIRE", "j", "?">>,
     <<"TTL", "j">>}
=============================================================================
