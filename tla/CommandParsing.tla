--------------------------- MODULE CommandParsing ---------------------------
(***************************************************************************)
(* From a request, a list of arguments, to a command, and from a command   *)
(* back to the request under which it is logged (command.rs).  An argument *)
(* is opaque, but for two things: whether it is utf-8 text, and the number *)
(* it spells.                                                              *)
(***************************************************************************)
EXTENDS Commands, Integers, SequencesExt

CONSTANTS
    NumberOf,     \* the arguments that parse as a number, and which
    NotUtf8       \* the arguments that are not utf-8

ASSUME NumberAssumption ==
    /\ NumberOf \in [DOMAIN NumberOf -> Timestamps]
    /\ DOMAIN NumberOf \cap NotUtf8 = {}

CommandNames ==
    {"GET", "SET", "MGET", "MSET", "DEL", "GETALL", "EXPIRE", "EXPIREAT", "TTL"}

ASSUME NameAssumption == CommandNames \cap NotUtf8 = {}

-----------------------------------------------------------------------------
(* The commands that only read.                                            *)

ReadCommands ==
         [op : {"GET", "TTL"}, key : Keys]
    \cup [op : {"MGET"}, keys : KeyLists]
    \cup [op : {"GETALL"}]

Commands == WriteCommands \cup ReadCommands

IsWriteOp(cmd) == cmd.op \in {"DEL", "SET", "MSET", "EXPIREAT"}

CommandError(error) == [op |-> "ERROR", error |-> error]

-----------------------------------------------------------------------------
(* The parsers, by the number of arguments they take.                      *)

AtLeast(n, args, parsed) ==
    IF Len(args) < n THEN CommandError("TooFewArguments") ELSE parsed

Exactly(n, args, parsed) ==
    AtLeast(n, args, IF Len(args) > n THEN CommandError("TooManyArguments") ELSE parsed)

ParseGet(args) == Exactly(1, args, [op |-> "GET", key |-> args[1]])

ParseTtl(args) == Exactly(1, args, [op |-> "TTL", key |-> args[1]])

ParseSet(args) == Exactly(2, args, [op |-> "SET", key |-> args[1], value |-> args[2]])

ParseMGet(args) == AtLeast(1, args, [op |-> "MGET", keys |-> args])

ParseDel(args) == AtLeast(1, args, [op |-> "DEL", keys |-> args])

ParseGetAll(args) == Exactly(0, args, [op |-> "GETALL"])

Pairs(args) == [i \in 1 .. Len(args) \div 2 |-> <<args[2 * i - 1], args[2 * i]>>]

ParseMSet(args) ==
    AtLeast(2, args,
        IF Len(args) % 2 # 0
        THEN CommandError("UnevenArgumentLength")
        ELSE [op |-> "MSET", entries |-> Pairs(args)])

\* An expiration is a key and a number of seconds.
ParseExpiration(args, cmd) ==
    Exactly(2, args,
        IF args[2] \in NotUtf8 THEN CommandError("InvalidUtf8")
        ELSE IF args[2] \notin DOMAIN NumberOf THEN CommandError("InvalidExpiration")
        ELSE cmd)

ExpireAt(key, at) == [op |-> "EXPIREAT", key |-> key, at |-> at]

ParseExpireAt(args) == ParseExpiration(args, ExpireAt(args[1], NumberOf[args[2]]))

\* u64::saturating_add.
SaturatingAdd(m, n) == IF m + n > MaxTimestamp THEN MaxTimestamp ELSE m + n

\* Mutant: the seconds are taken for the deadline.
ParseExpireAbsolute(args, now) ==
    ParseExpiration(args, ExpireAt(args[1], NumberOf[args[2]]))

\* The deadline is counted from the moment of the parse.
ParseExpire(args, now) ==
    ParseExpiration(args, ExpireAt(args[1], SaturatingAdd(now, NumberOf[args[2]])))

\* TryFrom<Request> for Command.
TryFrom(request, now) ==
    LET name == Head(request)
        args == Tail(request)
    IN  IF request = <<>> THEN CommandError("TooFewArguments")
        ELSE IF name \in NotUtf8 THEN CommandError("InvalidUtf8")
        ELSE CASE name = "GET"      -> ParseGet(args)
               [] name = "SET"      -> ParseSet(args)
               [] name = "MGET"     -> ParseMGet(args)
               [] name = "MSET"     -> ParseMSet(args)
               [] name = "DEL"      -> ParseDel(args)
               [] name = "GETALL"   -> ParseGetAll(args)
               [] name = "EXPIRE"   -> ParseExpire(args, now)
               [] name = "EXPIREAT" -> ParseExpireAt(args)
               [] name = "TTL"      -> ParseTtl(args)
               [] OTHER             -> CommandError("UnrecognizedCommand")

-----------------------------------------------------------------------------
(* Command::to_bytes, up to the bytes of a request.                        *)

\* The commands that some request spells; try_from returns no other.
IsSpelled(cmd) ==
    /\ cmd \in Commands
    /\ cmd.op \in {"MGET", "DEL"} => cmd.keys # <<>>
    /\ cmd.op = "MSET" => cmd.entries # <<>>
    /\ cmd.op = "EXPIREAT" => \E text \in DOMAIN NumberOf : NumberOf[text] = cmd.at

TextOf(n) == CHOOSE text \in DOMAIN NumberOf : NumberOf[text] = n

ToRequest(cmd) ==
    <<cmd.op>> \o
        CASE cmd.op \in {"GET", "TTL"}  -> <<cmd.key>>
          [] cmd.op = "SET"             -> <<cmd.key, cmd.value>>
          [] cmd.op \in {"MGET", "DEL"} -> cmd.keys
          [] cmd.op = "MSET"            -> FlattenSeq(cmd.entries)
          [] cmd.op = "GETALL"          -> <<>>
          [] cmd.op = "EXPIREAT"        -> <<cmd.key, TextOf(cmd.at)>>
=============================================================================
