---------------------------- MODULE MCServerState ----------------------------
(* Small instances of ServerState: MSET and DEL get the argument lists that *)
(* differ in kind: one key, several keys, the same key twice.               *)
EXTENDS ServerState, TLC

CONSTANTS k1, k2, v1, v2

MCEntryLists == {<< <<k1, v1>>, <<k2, v1>> >>}

MCKeyLists == {<<k1>>, <<k1, k2>>}

MCOneKeyEntryLists == {<< <<k1, v2>>, <<k1, v1>> >>}

MCOneKeyLists == {<<k1>>, <<k1, k1>>}

MCNoLists == {}
=============================================================================
