--------------------------- MODULE ResponseDecoder ---------------------------
(***************************************************************************)
(* Responses on the wire and the client's ResponseReader (response.rs).    *)
(* Unlike requests, responses nest, and the decoder keeps no place inside  *)
(* one: whenever more bytes have come it parses the whole buffer again     *)
(* from its start, and takes nothing out of it until a response is         *)
(* complete.                                                               *)
(*                                                                         *)
(* As in RequestDecoder, what the peer sends is a script of responses and  *)
(* a tail with its verdict.                                                *)
(***************************************************************************)
EXTENDS Resp, Responses

CONSTANTS
    MaxCStringLength,  \* MAX_COMPLEX_STRING_LENGTH
    MaxCapacity,       \* the longest Vec the allocator grants
    MaxI64,            \* i64::MAX
    ReadChunkSize,     \* READ_CHUNK_SIZE
    MaxDepth,          \* the nested calls of parse_response that fit the stack
    MaxCalls,          \* bound: read_next is called at most this often
    Utf8,              \* the byte sequences that str::from_utf8 takes
    Messages,          \* what the server's errors say
    Scripts            \* [sent |-> responses, tail |-> bytes, verdict |-> result]

ASSUME SizeAssumption ==
    /\ {MaxDepth, MaxCalls, MaxI64} \subseteq Nat
    /\ {MaxCStringLength, MaxCapacity} \subseteq 0 .. MaxI64
    /\ ReadChunkSize \in Nat \ {0}

\* Response::Error holds a String.
ASSUME MessageAssumption == Messages \subseteq Utf8 \cap Seq(Byte)

VARIABLES
    script,      \* ghost: what the server sends
    stream,      \* its bytes
    pos,         \* how many of them have been read
    buffer,      \* ResponseDecoder.buffer
    poisoned,    \* ResponseDecoder.poisoned
    pc,          \* where read_next is: "decode", "read", "returned", "dead"
    results      \* what its calls have returned so far

vars == <<script, stream, pos, buffer, poisoned, pc, results>>

-----------------------------------------------------------------------------
(* Responses, and their bytes.                                              *)

I64 == -(MaxI64 + 1) .. MaxI64

CStrings == {bytes \in Seq(Byte) : Len(bytes) <= MaxCStringLength}

Leaves ==
    {Ok, Null} \cup [kind : {"Error"}, msg : Messages]
        \cup [kind : {"Cstr"}, bytes : CStrings]
        \cup [kind : {"Integer"}, n : I64]

\* Those that hold no array, and arrays of inner ones.
ResponsesOver(inner) ==
    Leaves \cup
    [kind : {"Array"}, responses : {rs \in Seq(inner) : Len(rs) <= MaxCapacity}]

\* The responses that hold arrays within arrays at most depth - 1 times.
ResponsesUpTo[depth \in Nat] ==
    IF depth = 0 THEN {} ELSE ResponsesOver(ResponsesUpTo[depth - 1])

OkBody == <<79, 75>>

PrefixBytes == {SStrByte, ErrorByte, CStringByte, IntegerByte, ArrayByte}

\* One after the other; encoding has the bytes of each.
Written(responses, encoding) ==
    FlattenSeq([i \in DOMAIN responses |-> encoding[responses[i]]])

\* Response::to_bytes, which calls itself for the elements of an array.  The
\* message of an error goes out as it is.
BytesWith(response, encoding) ==
    CASE response.kind = "Ok"      -> LineBytes(SStrByte, OkBody)
      [] response.kind = "Error"   -> LineBytes(ErrorByte, response.msg)
      [] response.kind = "Cstr"    -> CStringBytes(response.bytes)
      [] response.kind = "Null"    -> LineBytes(CStringByte, SignedDecimal(-1))
      [] response.kind = "Integer" -> LineBytes(IntegerByte, SignedDecimal(response.n))
      [] response.kind = "Array"   ->
             LineBytes(ArrayByte, Decimal[Len(response.responses)])
                 \o Written(response.responses, encoding)

BytesUpTo[depth \in Nat] ==
    IF depth = 0
    THEN <<>>
    ELSE [response \in ResponsesUpTo[depth] |-> BytesWith(response, BytesUpTo[depth - 1])]

ResponseBytes(response) == BytesUpTo[MaxDepth][response]

StreamBytes(responses) == Written(responses, BytesUpTo[MaxDepth])

-----------------------------------------------------------------------------
(* The parser.                                                              *)

Panicked == [kind |-> "panic"]

\* One nested call too many: the stack is used up and the process is killed.
Overflowed == [kind |-> "overflow"]

\* str::parse::<i64>: a number that is too wide is refused.
I64Value(bytes) == SignedValue(bytes)

IsI64(bytes) == IsSigned(bytes) /\ I64Value(bytes) \in I64

\* The line responses: its body is what follows the prefix byte.
ParseSStr(line) ==
    IF Tail(line.data) # OkBody
    THEN Failed("UnexpectedSstr")
    ELSE Parsed(Ok, line.num_bytes_parsed)

ParseError(line) ==
    IF Tail(line.data) \notin Utf8
    THEN Failed("InvalidUtf8")
    ELSE Parsed(Error(Tail(line.data)), line.num_bytes_parsed)

ParseInteger(line) ==
    IF ~IsI64(Tail(line.data))
    THEN Failed("InvalidInt")
    ELSE Parsed(Integer(I64Value(Tail(line.data))), line.num_bytes_parsed)

\* Mutant: an empty string is a null.
ParseCStrEmptyNull(bytes, header) ==
    LET len      == I64Value(Tail(header.data))
        data_end == header.num_bytes_parsed + len
    IN  IF ~IsI64(Tail(header.data)) THEN Failed("InvalidInt")
        ELSE IF len = -1 THEN Parsed(Null, header.num_bytes_parsed)
        ELSE IF len < 0 THEN Failed("InvalidCStringLength")
        ELSE IF len > MaxCStringLength THEN Failed("CStringTooLong")
        ELSE IF data_end + 2 > Len(bytes) THEN Incomplete
        ELSE IF SubSeq(bytes, data_end + 1, data_end + 2) # CRLF THEN Failed("MissingCrlf")
        ELSE IF len = 0 THEN Parsed(Null, data_end + 2)
        ELSE Parsed(Cstr(SubSeq(bytes, header.num_bytes_parsed + 1, data_end)), data_end + 2)

ParseCStr(bytes, header) ==
    LET len      == I64Value(Tail(header.data))
        data_end == header.num_bytes_parsed + len
    IN  IF ~IsI64(Tail(header.data)) THEN Failed("InvalidInt")
        ELSE IF len = -1 THEN Parsed(Null, header.num_bytes_parsed)
        ELSE IF len < 0 THEN Failed("InvalidCStringLength")
        ELSE IF len > MaxCStringLength THEN Failed("CStringTooLong")
        ELSE IF data_end + 2 > Len(bytes) THEN Incomplete
        ELSE IF SubSeq(bytes, data_end + 1, data_end + 2) # CRLF THEN Failed("MissingCrlf")
        ELSE Parsed(Cstr(SubSeq(bytes, header.num_bytes_parsed + 1, data_end)), data_end + 2)

\* One turn of parse_array's loop: parse is what a nested call returns.
WithNext(bytes, before, parse) ==
    LET element == parse[From(bytes, before.num_bytes_parsed)]
    IN  IF before.kind # "parsed" THEN before
        ELSE IF element.kind # "parsed" THEN element
        ELSE Parsed(Append(before.data, element.data),
                    before.num_bytes_parsed + element.num_bytes_parsed)

\* The loop: len elements behind the first taken bytes.
ParseElements(bytes, len, taken, parse) ==
    LET elements[n \in 0 .. len] ==
            IF n = 0 THEN Parsed(<<>>, taken) ELSE WithNext(bytes, elements[n - 1], parse)
    IN  elements[len]

\* A vector for the declared number of elements is allocated before the first
\* of them is looked at.
ParseArray(bytes, header, parse) ==
    LET len      == I64Value(Tail(header.data))
        elements == ParseElements(bytes, len, header.num_bytes_parsed, parse)
    IN  IF ~IsI64(Tail(header.data)) THEN Failed("InvalidInt")
        ELSE IF len < 0 THEN Failed("InvalidArrayLength")
        ELSE IF len > MaxCapacity THEN Panicked
        ELSE IF elements.kind # "parsed" THEN elements
        ELSE Parsed(Array(elements.data), elements.num_bytes_parsed)

\* What follows a prefix byte, once its line is there.
ParseLineOf(bytes, line, parse) ==
    CASE Head(bytes) = SStrByte    -> ParseSStr(line)
      [] Head(bytes) = ErrorByte   -> ParseError(line)
      [] Head(bytes) = CStringByte -> ParseCStr(bytes, line)
      [] Head(bytes) = IntegerByte -> ParseInteger(line)
      [] Head(bytes) = ArrayByte   -> ParseArray(bytes, line, parse)

\* parse_response: the prefix byte is judged at once, the rest needs its line.
ParseWith(bytes, parse) ==
    IF bytes = <<>> THEN Incomplete
    ELSE IF Head(bytes) \notin PrefixBytes THEN Failed("UnexpectedPrefix")
    ELSE IF ParseLine(bytes) = Incomplete THEN Incomplete
    ELSE ParseLineOf(bytes, ParseLine(bytes), parse)

\* parse_response with the stack for depth nested calls of it.
ParseUpTo[depth \in Nat] ==
    IF depth = 0
    THEN [bytes \in Seq(Byte) |-> Overflowed]
    ELSE [bytes \in Seq(Byte) |-> ParseWith(bytes, ParseUpTo[depth - 1])]

ParseResponse(bytes) == ParseUpTo[MaxDepth][bytes]

-----------------------------------------------------------------------------
EndOfInput == [kind |-> "end"]

\* What the tail of a script comes to when nothing follows it.
VerdictOn(tail) ==
    IF ParseResponse(tail) # Incomplete THEN ParseResponse(tail)
    ELSE IF tail = <<>> THEN EndOfInput
    ELSE Failed("UnexpectedEof")

ASSUME ScriptAssumption ==
    \A s \in Scripts :
        /\ s.sent \in Seq(ResponsesUpTo[MaxDepth])
        /\ s.tail \in Seq(Byte)
        /\ ParseResponse(s.tail).kind # "parsed"
        /\ s.verdict = VerdictOn(s.tail)

Init ==
    /\ script \in Scripts
    /\ stream = StreamBytes(script.sent) \o script.tail
    /\ pos = 0
    /\ buffer = <<>>
    /\ poisoned = FALSE
    /\ pc = "decode"
    /\ results = <<>>

Response(data) == [kind |-> "response", data |-> data]

Return(result) == pc' = "returned" /\ results' = Append(results, result)

\* decode_next returns a response, whose bytes leave the buffer.
Deliver(parsed) ==
    /\ parsed.kind = "parsed"
    /\ buffer' = From(buffer, parsed.num_bytes_parsed)
    /\ Return(Response(parsed.data))
    /\ UNCHANGED <<script, stream, pos, poisoned>>

\* Mutant: an incomplete response gives up the bytes looked at.
WaitForMoreForgetting(parsed) ==
    /\ parsed = Incomplete
    /\ buffer' = IF ParseLine(buffer) = Incomplete THEN buffer ELSE <<>>
    /\ pc' = "read"
    /\ UNCHANGED <<script, stream, pos, poisoned, results>>

WaitForMore(parsed) ==
    /\ parsed = Incomplete
    /\ pc' = "read"
    /\ UNCHANGED <<script, stream, pos, buffer, poisoned, results>>

\* Mutant: the error does not poison the decoder.
RefuseOnce(parsed) ==
    /\ parsed.kind = "error"
    /\ Return(parsed)
    /\ buffer' = From(buffer, IF ParseLine(buffer) = Incomplete
                              THEN 1
                              ELSE ParseLine(buffer).num_bytes_parsed)
    /\ UNCHANGED <<script, stream, pos, poisoned>>

Refuse(parsed) ==
    /\ parsed.kind = "error"
    /\ Return(parsed)
    /\ poisoned' = TRUE
    /\ UNCHANGED <<script, stream, pos, buffer>>

\* The allocation of a vector panics, or the stack is used up: no result, and
\* the caller is gone.
Panic(parsed) ==
    /\ parsed \in {Panicked, Overflowed}
    /\ results' = Append(results, parsed)
    /\ pc' = "dead"
    /\ UNCHANGED <<script, stream, pos, buffer, poisoned>>

\* decode_next.
DecodeNext ==
    /\ pc = "decode"
    /\ ~poisoned
    /\ \E parsed \in {ParseResponse(buffer)} :
           Deliver(parsed) \/ WaitForMore(parsed) \/ Refuse(parsed) \/ Panic(parsed)

RefusePoisoned ==
    /\ pc = "decode"
    /\ poisoned
    /\ Return(Failed("Poisoned"))
    /\ UNCHANGED <<script, stream, pos, buffer, poisoned>>

Read(n) ==
    /\ pc = "read"
    /\ n \in 1 .. ReadChunkSize
    /\ pos + n <= Len(stream)
    /\ buffer' = buffer \o SubSeq(stream, pos + 1, pos + n)
    /\ pos' = pos + n
    /\ pc' = "decode"
    /\ UNCHANGED <<script, stream, poisoned, results>>

\* The server has closed: validate_eof.
ReadEof ==
    /\ pc = "read"
    /\ pos = Len(stream)
    /\ Return(IF buffer # <<>> THEN Failed("UnexpectedEof") ELSE EndOfInput)
    /\ UNCHANGED <<script, stream, pos, buffer, poisoned>>

ReadFails ==
    /\ pc = "read"
    /\ Return(Failed("Io"))
    /\ UNCHANGED <<script, stream, pos, buffer, poisoned>>

\* Mutant: a caller reads first and decodes then.
CallReading ==
    /\ pc = "returned"
    /\ Len(results) < MaxCalls
    /\ results[Len(results)] # EndOfInput
    /\ pc' = "read"
    /\ UNCHANGED <<script, stream, pos, buffer, poisoned, results>>

\* The next call of read_next.
Call ==
    /\ pc = "returned"
    /\ Len(results) < MaxCalls
    /\ results[Len(results)] # EndOfInput
    /\ pc' = "decode"
    /\ UNCHANGED <<script, stream, pos, buffer, poisoned, results>>

Next ==
    \/ DecodeNext
    \/ RefusePoisoned
    \/ \E n \in 1 .. ReadChunkSize : Read(n)
    \/ ReadEof
    \/ ReadFails
    \/ Call

Spec == Init /\ [][Next]_vars

-----------------------------------------------------------------------------
(* Properties.                                                              *)

\* The responses among what read_next has returned.
ResponsesIn(returned) ==
    LET taken[i \in 0 .. Len(returned)] ==
            IF i = 0 THEN <<>>
            ELSE IF returned[i].kind = "response" THEN Append(taken[i - 1], returned[i].data)
            ELSE taken[i - 1]
    IN  taken[Len(returned)]

Delivered == ResponsesIn(results)

(* Types, and the bytes read so far are those of the responses delivered
   followed by the buffer: a response parsed in part has taken nothing. *)
BytesKept ==
    /\ pos \in 0 .. Len(stream)
    /\ poisoned \in BOOLEAN
    /\ pc \in {"decode", "read", "returned", "dead"}
    /\ StreamBytes(Delivered) \o buffer = SubSeq(stream, 1, pos)

(* However the stream is cut, through nested arrays and their elements too,
   the responses come out as they were sent and the stream ends with the
   verdict on its tail (parse_response, parse_array, decode_next). *)
DecodesWhatWasSent ==
    /\ IsPrefix(Delivered, script.sent)
    /\ \A i \in DOMAIN results :
           results[i].kind \in {"end", "error", "panic", "overflow"} =>
               \/ results[i] = Failed("Io")
               \/ results[i] = script.verdict /\ Len(Delivered) = Len(script.sent)
               \/ poisoned /\ results[i] = Failed("Poisoned")

(* After an error in the bytes no answer is taken from what lies behind it,
   where it could pass for the answer to another request. *)
PoisonLasts ==
    [][(\E i \in DOMAIN results :
            results[i].kind = "error" /\ results[i] \notin {Failed("Io"), Failed("UnexpectedEof")})
       => Delivered' = Delivered]_vars

(* Nobody waits for input while a whole response lies in the buffer. *)
NoWaitOnWholeResponse ==
    pc = "read" => \A i \in 1 .. Len(script.sent) :
        pos >= Len(StreamBytes(SubSeq(script.sent, 1, i))) => Len(Delivered) >= i

(* What the helper assert_round_trips of the tests says of every response:
   its bytes decode to it again. *)
ResponsesRoundTrip == IsPrefix(Delivered, script.sent)
=============================================================================
