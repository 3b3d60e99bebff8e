------------------------------ MODULE ReplayLog ------------------------------
(***************************************************************************)
(* The append-only file, byte by byte: what append puts into it, what an   *)
(* append that does not finish leaves, and what the decoder and the parser *)
(* make of it at the next start (append_only_file.rs, request.rs,          *)
(* restore_keystore in server.rs).                                         *)
(*                                                                         *)
(* ServerState takes a log as a list of commands and torn records, and a   *)
(* torn record as the end of any replay; here is what that rests on, and   *)
(* where it ends.                                                          *)
(***************************************************************************)
EXTENDS CommandParsing, RequestDecoder

CONSTANTS
    BytesOf,          \* the bytes of each argument: names, keys, values, numbers
    Unknown,          \* an argument that nobody sent
    Logged,           \* the commands clients have the server log
    Now,              \* the time of the replay; no logged command depends on it
    MaxAppends,       \* bound: appends, finished or not
    MaxTears          \* bound: appends that leave a part of their bytes

-----------------------------------------------------------------------------
(* Arguments and their bytes.                                               *)

ArgumentOf(bytes) ==
    IF \E text \in DOMAIN BytesOf : BytesOf[text] = bytes
    THEN CHOOSE text \in DOMAIN BytesOf : BytesOf[text] = bytes
    ELSE Unknown

\* Command::to_request.
Cstrs(cmd) ==
    LET request == ToRequest(cmd)
    IN  [i \in DOMAIN request |-> BytesOf[request[i]]]

\* Command::to_bytes.
ToBytes(cmd) == RequestBytes(Cstrs(cmd))

\* Mutant: a deadline that has passed is refused.
FromCstrsTimely(cstrs) ==
    LET cmd == TryFrom([i \in DOMAIN cstrs |-> ArgumentOf(cstrs[i])], Now)
    IN  IF cmd.op = "EXPIREAT" /\ cmd.at <= Now THEN CommandError("InvalidExpiration") ELSE cmd

\* Command::try_from on what the reader returned.
FromCstrs(cstrs) == TryFrom([i \in DOMAIN cstrs |-> ArgumentOf(cstrs[i])], Now)

\* Two arguments are the same if their bytes are, and what is logged has come
\* in through a decoder with the same limits.
ASSUME LogAssumption ==
    /\ Unknown \notin DOMAIN BytesOf
    /\ \A s, t \in DOMAIN BytesOf : BytesOf[s] = BytesOf[t] => s = t
    /\ \A cmd \in Logged :
           /\ IsWriteOp(cmd) /\ IsSpelled(cmd)
           /\ ToRequest(cmd) \in Seq(DOMAIN BytesOf)
           /\ Cstrs(cmd) \in Requests
    /\ {MaxAppends, MaxTears} \subseteq Nat

\* The log of commands none of which is torn, as the reader meets it.
ScriptOf(cmds) ==
    [sent |-> [i \in DOMAIN cmds |-> Cstrs(cmds[i])],
     count |-> None, args |-> <<>>, rest |-> <<>>, verdict |-> EndOfInput]

\* The header of a request and its first k arguments.
Begun(request, k) == Opening(Len(request), SubSeq(request, 1, k))

\* The same log with the first n bytes of one more request behind it: a part of
\* its header, or its header, some arguments and a part of the next one.
TornScriptOf(cmds, request, n) ==
    LET torn == [ScriptOf(cmds) EXCEPT !.verdict = Failed("UnexpectedEof")]
        part == SubSeq(RequestBytes(request), 1, n)
        k    == CHOOSE k \in 0 .. Len(request) - 1 :
                    Len(Begun(request, k)) <= n /\ n < Len(Begun(request, k + 1))
    IN  IF n < Len(Begun(request, 0))
        THEN [torn EXCEPT !.rest = part]
        ELSE [torn EXCEPT !.count = Len(request),
                          !.args = SubSeq(request, 1, k),
                          !.rest = From(part, Len(Begun(request, k)))]

-----------------------------------------------------------------------------
VARIABLES
    phase,           \* "serving", "down", "restoring" or "failed"
    applied,         \* the commands that made the store of this process
    acknowledged,    \* ghost: the commands whose append succeeded
    tears,           \* ghost: how many appends left a part of their bytes
    behind,          \* ghost: there was an append behind such a part
    appends          \* ghost: how many appends there were

\* Of RequestDecoder's variables, stream is the append-only file, script what
\* lies in it as long as nothing is behind a torn record, and the others are
\* the RequestReader of the replay.
reader == <<pos, decoder, pc, results>>
log == <<script, stream, acknowledged, tears, behind, appends>>
logVars == <<log, phase, applied, reader>>

\* RequestReader::new on the file content from its start.
NewReader ==
    /\ pos' = 0
    /\ buffer' = <<>>
    /\ cursor' = 0
    /\ expected_arg_count' = None
    /\ args' = <<>>
    /\ poisoned' = FALSE
    /\ pc' = "decode"
    /\ results' = <<>>

LogInit ==
    /\ script = ScriptOf(<<>>)
    /\ stream = <<>>
    /\ phase = "serving"
    /\ applied = <<>>
    /\ acknowledged = <<>>
    /\ tears = 0
    /\ behind = FALSE
    /\ appends = 0
    /\ pos = 0
    /\ buffer = <<>>
    /\ cursor = 0
    /\ expected_arg_count = None
    /\ args = <<>>
    /\ poisoned = FALSE
    /\ pc = "decode"
    /\ results = <<>>

-----------------------------------------------------------------------------
(* The running server.                                                      *)

Appending ==
    /\ phase = "serving"
    /\ appends < MaxAppends
    /\ appends' = appends + 1
    /\ behind' = (tears > 0)

\* The append succeeds: the command is applied and acknowledged.
LogCommand(cmd) ==
    /\ Appending
    /\ stream' = stream \o ToBytes(cmd)
    /\ applied' = Append(applied, cmd)
    /\ acknowledged' = Append(acknowledged, cmd)
    /\ script' = IF tears = 0 THEN ScriptOf(acknowledged') ELSE script
    /\ UNCHANGED <<phase, tears, reader>>

\* The first n bytes of an append are in the file, and no more will follow.
Tear(cmd, n) ==
    /\ Appending
    /\ tears < MaxTears
    /\ n \in 1 .. Len(ToBytes(cmd)) - 1
    /\ stream' = stream \o SubSeq(ToBytes(cmd), 1, n)
    /\ script' = IF tears = 0 THEN TornScriptOf(acknowledged, Cstrs(cmd), n) ELSE script
    /\ tears' = tears + 1
    /\ UNCHANGED <<applied, acknowledged, reader>>

\* Mutant: the command is applied all the same.
AppendFailsApplied(cmd, n) ==
    /\ Appending
    /\ tears < MaxTears
    /\ n \in 1 .. Len(ToBytes(cmd)) - 1
    /\ stream' = stream \o SubSeq(ToBytes(cmd), 1, n)
    /\ script' = IF tears = 0 THEN TornScriptOf(acknowledged, Cstrs(cmd), n) ELSE script
    /\ tears' = tears + 1
    /\ applied' = Append(applied, cmd)
    /\ UNCHANGED <<phase, acknowledged, reader>>

\* write_all fails: the client gets an error, the server goes on.
AppendFails(cmd, n) == Tear(cmd, n) /\ UNCHANGED phase

\* The process dies while it appends.
KillInAppend(cmd, n) == Tear(cmd, n) /\ phase' = "down"

\* Or at any other moment, in the middle of a replay too.
Kill ==
    /\ phase \in {"serving", "restoring"}
    /\ phase' = "down"
    /\ applied' = <<>>
    /\ NewReader
    /\ UNCHANGED log

-----------------------------------------------------------------------------
(* from_wal and restore_keystore.                                           *)

\* A start that failed may be tried again, on the same file.
Start ==
    /\ phase \in {"down", "failed"}
    /\ phase' = "restoring"
    /\ applied' = <<>>
    /\ NewReader
    /\ UNCHANGED log

\* A read from a file gives what there is, up to a chunk.
ReadFile == \E n \in 1 .. ReadChunkSize :
    /\ n = Min({ReadChunkSize, Len(stream) - pos})
    /\ Read(n)

ReadNext ==
    /\ phase = "restoring"
    /\ \/ DecodeArrayHeader
       \/ DecodeArgument
       \/ TakeRequest
       \/ ReadFile
       \/ ReadEof
       \/ ReadFails
    /\ UNCHANGED <<phase, applied, acknowledged, tears, behind, appends>>

Returned(kind) ==
    /\ phase = "restoring"
    /\ pc = "returned"
    /\ LastResult.kind = kind

\* A request: it becomes a command, and that is applied.
ReplayRequest ==
    /\ Returned("request")
    /\ LET cmd == FromCstrs(LastResult.cstrs)
       IN  /\ IsWriteOp(cmd)
           /\ applied' = Append(applied, cmd)
    /\ pc' = "decode"
    /\ UNCHANGED <<log, phase, pos, decoder, results>>

\* Mutant: an error in the file counts as its end.
ReplayFailsAsEnd ==
    /\ \/ Returned("error")
       \/ /\ Returned("request")
          /\ ~IsWriteOp(FromCstrs(LastResult.cstrs))
    /\ phase' = "serving"
    /\ UNCHANGED <<log, applied, reader>>

\* The reader or the parser returns an error, or apply_write is handed a
\* command that only reads and panics: the server does not start.
ReplayFails ==
    /\ \/ Returned("error")
       \/ /\ Returned("request")
          /\ ~IsWriteOp(FromCstrs(LastResult.cstrs))
    /\ phase' = "failed"
    /\ UNCHANGED <<log, applied, reader>>

\* The end of the file.
ReplayDone ==
    /\ Returned("end")
    /\ phase' = "serving"
    /\ UNCHANGED <<log, applied, reader>>

-----------------------------------------------------------------------------
LogNext ==
    \/ \E cmd \in Logged :
           \/ LogCommand(cmd)
           \/ \E n \in 1 .. Len(ToBytes(cmd)) - 1 :
                  AppendFails(cmd, n) \/ KillInAppend(cmd, n)
    \/ Kill
    \/ Start
    \/ ReadNext
    \/ ReplayRequest
    \/ ReplayFails
    \/ ReplayDone

LogSpec == LogInit /\ [][LogNext]_logVars

-----------------------------------------------------------------------------
(* Properties.                                                              *)

(* The store of a serving process is made of the acknowledged commands, all
   of them, in their order, with the arguments they had: what to_bytes puts
   in the file is what the reader and try_from take out of it, over every
   restart. *)
AppliedIsAcknowledged == phase = "serving" => applied = acknowledged

(* A server that does not start has a reason: a torn record in its file, or a
   read that failed.  Nothing that the server itself has logged, whole, is
   refused when it is read back, however late (restore_keystore, try_from). *)
RefusedForAReason ==
    phase = "failed" => tears # 0 \/ LastResult = Failed("Io")

(* A replay of a file that ends in a torn record never comes to a good end: the
   kill or the failed write that tore it is noticed, whatever the arguments
   (validate_eof; the test errors_on_truncated_aof_request). *)
TornTailRefused ==
    [][phase = "restoring" /\ phase' = "serving" => tears = 0 \/ behind]_logVars

(* Nor does one of a file with a torn record anywhere, whatever was appended
   behind it. *)
TornLogRefused ==
    [][phase = "restoring" /\ phase' = "serving" => tears = 0]_logVars
=============================================================================
