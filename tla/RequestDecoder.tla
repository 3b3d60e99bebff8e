--------------------------- MODULE RequestDecoder ---------------------------
(***************************************************************************)
(* RequestReader and its RequestDecoder (request.rs): how a stream of      *)
(* bytes, cut by the reads wherever it pleases the socket or the file,     *)
(* becomes requests.  The decoder keeps its place between reads: a request *)
(* whose header and first arguments are there waits, with them, for the    *)
(* rest.                                                                   *)
(*                                                                         *)
(* The rounds of decode_buffered are actions of their own.  A caller of    *)
(* read_next calls again after each request, and may try again after an    *)
(* error (the server does not, the poisoned flag is there for those who    *)
(* do).                                                                    *)
(*                                                                         *)
(* What the peer sends is a script: requests; perhaps the header and the   *)
(* first arguments of one more; then bytes that are no whole header or     *)
(* argument; and the result with which that must end.                      *)
(***************************************************************************)
EXTENDS Resp, Option

CONSTANTS
    MaxArrayLength,    \* MAX_ARRAY_LENGTH
    MaxCStringLength,  \* MAX_COMPLEX_STRING_LENGTH
    ReadChunkSize,     \* READ_CHUNK_SIZE
    MaxCalls,          \* bound: read_next is called at most this often
    Scripts            \* [sent |-> requests, count |-> number of arguments or None,
                       \*  args |-> the first of them, rest |-> bytes, verdict |-> result]

ASSUME SizeAssumption ==
    /\ {MaxArrayLength, MaxCStringLength} \subseteq Nat
    /\ ReadChunkSize \in Nat \ {0}
    /\ MaxCalls \in Nat
    /\ None \notin Nat

VARIABLES
    script,      \* ghost: what the peer sends
    stream,      \* its bytes
    pos,         \* how many of them have been read
    buffer,      \* RequestDecoder.buffer
    cursor,      \* RequestDecoder.cursor
    expected_arg_count,
    args,
    poisoned,
    pc,          \* where read_next is: "decode", "read", or "returned"
    results      \* what its calls have returned so far

decoder == <<buffer, cursor, expected_arg_count, args, poisoned>>
vars == <<script, stream, pos, decoder, pc, results>>

-----------------------------------------------------------------------------
(* Request::to_bytes.                                                       *)

\* The header of a request of that many arguments, and the first of them.
Opening(count, cstrs) ==
    LineBytes(ArrayByte, Decimal[count])
        \o FlattenSeq([i \in DOMAIN cstrs |-> CStringBytes(cstrs[i])])

RequestBytes(request) == Opening(Len(request), request)

StreamBytes(requests) ==
    FlattenSeq([i \in DOMAIN requests |-> RequestBytes(requests[i])])

TailBytes(s) == IF s.count = None THEN s.rest ELSE Opening(s.count, s.args) \o s.rest

-----------------------------------------------------------------------------
Init ==
    /\ script \in Scripts
    /\ stream = StreamBytes(script.sent) \o TailBytes(script)
    /\ pos = 0
    /\ buffer = <<>>
    /\ cursor = 0
    /\ expected_arg_count = None
    /\ args = <<>>
    /\ poisoned = FALSE
    /\ pc = "decode"
    /\ results = <<>>

EndOfInput == [kind |-> "end"]

Request(cstrs) == [kind |-> "request", cstrs |-> cstrs]

\* read_next returns result.
Return(result) == pc' = "returned" /\ results' = Append(results, result)

-----------------------------------------------------------------------------
(* The decoder.                                                             *)

\* The length in a header.  Bytes that are no utf-8 are InvalidInt here, and a
\* number too wide for a usize is one that is too long: the decoder is poisoned
\* by either, only the name of the error is another.
ParseHeader(bytes, header_byte, max_header_len, expected_error, too_long_error) ==
    LET header == ParseLine(bytes)
    IN  IF header = Incomplete THEN Incomplete
        ELSE IF header.data = <<>> THEN Failed("MissingFirstByte")
        ELSE IF Head(header.data) # header_byte THEN Failed(expected_error)
        ELSE IF ~IsUsize(Tail(header.data)) THEN Failed("InvalidInt")
        ELSE IF UsizeValue(Tail(header.data)) > max_header_len THEN Failed(too_long_error)
        ELSE Parsed(UsizeValue(Tail(header.data)), header.num_bytes_parsed)

\* One complex string at the start of bytes.
ParseCStr(bytes) ==
    LET header     == ParseHeader(bytes, CStringByte, MaxCStringLength,
                                  "ExpectedCString", "CStringTooLong")
        data_start == header.num_bytes_parsed
        data_end   == data_start + header.data
    IN  IF header.kind # "parsed" THEN header
        ELSE IF data_end + 2 > Len(bytes) THEN Incomplete
        ELSE IF SubSeq(bytes, data_end + 1, data_end + 2) # CRLF THEN Failed("MissingCrlf")
        ELSE Parsed(SubSeq(bytes, data_start + 1, data_end), data_end + 2)

CStrings == {bytes \in Seq(Byte) : Len(bytes) <= MaxCStringLength}

Requests == {cstrs \in Seq(CStrings) : Len(cstrs) <= MaxArrayLength}

\* What there is to see at the place where a script stops.
RestParsed(s) ==
    IF s.count = None
    THEN ParseHeader(s.rest, ArrayByte, MaxArrayLength, "ExpectedArray", "ArrayTooLong")
    ELSE ParseCStr(s.rest)

IsScript(s) ==
    /\ s.sent \in Seq(Requests)
    /\ s.rest \in Seq(Byte)
    /\ s.count # None => /\ s.count \in 1 .. MaxArrayLength
                         /\ s.args \in Seq(CStrings)
                         /\ Len(s.args) < s.count
    /\ RestParsed(s).kind # "parsed"
    /\ s.verdict = IF RestParsed(s) # Incomplete THEN RestParsed(s)
                   ELSE IF TailBytes(s) = <<>> THEN EndOfInput
                   ELSE Failed("UnexpectedEof")

ASSUME ScriptAssumption == \A s \in Scripts : IsScript(s)

\* A parsing step that gave no data: read_next goes on to read, or returns
\* the error, after which the decoder refuses to be used.
NoData(parsed) ==
    /\ parsed.kind # "parsed"
    /\ IF parsed = Incomplete
       THEN pc' = "read" /\ UNCHANGED <<poisoned, results>>
       ELSE poisoned' = TRUE /\ Return(parsed)
    /\ UNCHANGED <<script, stream, pos, buffer, cursor, expected_arg_count, args>>

Decoding == pc = "decode" /\ ~poisoned

ArrayHeader ==
    ParseHeader(buffer, ArrayByte, MaxArrayLength, "ExpectedArray", "ArrayTooLong")

\* decode_buffered at the start of a request.
DecodeArrayHeader ==
    /\ Decoding
    /\ expected_arg_count = None
    /\ \/ NoData(ArrayHeader)
       \/ /\ ArrayHeader.kind = "parsed"
          /\ expected_arg_count' = ArrayHeader.data
          /\ cursor' = ArrayHeader.num_bytes_parsed
          /\ UNCHANGED <<script, stream, pos, buffer, args, poisoned, pc, results>>

CStr ==
    IF cursor >= Len(buffer) THEN Incomplete ELSE ParseCStr(From(buffer, cursor))

\* Mutant: a request that has to wait is parsed anew from its first argument.
DecodeArgumentRestarting ==
    /\ Decoding
    /\ expected_arg_count # None
    /\ Len(args) < expected_arg_count
    /\ \/ /\ CStr = Incomplete
          /\ pc' = "read"
          /\ cursor' = ArrayHeader.num_bytes_parsed
          /\ UNCHANGED <<script, stream, pos, buffer, expected_arg_count, args,
                         poisoned, results>>
       \/ CStr # Incomplete /\ NoData(CStr)
       \/ /\ CStr.kind = "parsed"
          /\ args' = Append(args, CStr.data)
          /\ cursor' = cursor + CStr.num_bytes_parsed
          /\ UNCHANGED <<script, stream, pos, buffer, expected_arg_count, poisoned,
                         pc, results>>

\* One round of decode_buffered's loop: the next argument.
DecodeArgument ==
    /\ Decoding
    /\ expected_arg_count # None
    /\ Len(args) < expected_arg_count
    /\ \/ NoData(CStr)
       \/ /\ CStr.kind = "parsed"
          /\ args' = Append(args, CStr.data)
          /\ cursor' = cursor + CStr.num_bytes_parsed
          /\ UNCHANGED <<script, stream, pos, buffer, expected_arg_count, poisoned,
                         pc, results>>

\* Mutant: the whole buffer is dropped with the request.
TakeRequestClearing ==
    /\ Decoding
    /\ expected_arg_count # None
    /\ Len(args) = expected_arg_count
    /\ buffer' = <<>>
    /\ cursor' = 0
    /\ expected_arg_count' = None
    /\ args' = <<>>
    /\ Return(Request(args))
    /\ UNCHANGED <<script, stream, pos, poisoned>>

\* Mutant: the cursor stays where it was.
TakeRequestNotRewinding ==
    /\ Decoding
    /\ expected_arg_count # None
    /\ Len(args) = expected_arg_count
    /\ buffer' = From(buffer, cursor)
    /\ expected_arg_count' = None
    /\ args' = <<>>
    /\ Return(Request(args))
    /\ UNCHANGED <<script, stream, pos, cursor, poisoned>>

\* take_request: the request is complete, its bytes leave the buffer.
TakeRequest ==
    /\ Decoding
    /\ expected_arg_count # None
    /\ Len(args) = expected_arg_count
    /\ buffer' = From(buffer, cursor)
    /\ cursor' = 0
    /\ expected_arg_count' = None
    /\ args' = <<>>
    /\ Return(Request(args))
    /\ UNCHANGED <<script, stream, pos, poisoned>>

\* Mutant: the flag is not looked at.
RefusePoisonedNever ==
    /\ pc = "decode"
    /\ poisoned
    /\ poisoned' = FALSE
    /\ UNCHANGED <<script, stream, pos, buffer, cursor, expected_arg_count, args, pc, results>>

\* decode_next on a poisoned decoder.
RefusePoisoned ==
    /\ pc = "decode"
    /\ poisoned
    /\ Return(Failed("Poisoned"))
    /\ UNCHANGED <<script, stream, pos, decoder>>

-----------------------------------------------------------------------------
(* The reader.                                                              *)

\* A read returns what has arrived, at least one byte and at most a chunk.
Read(n) ==
    /\ pc = "read"
    /\ n \in 1 .. ReadChunkSize
    /\ pos + n <= Len(stream)
    /\ buffer' = buffer \o SubSeq(stream, pos + 1, pos + n)
    /\ pos' = pos + n
    /\ pc' = "decode"
    /\ UNCHANGED <<script, stream, cursor, expected_arg_count, args, poisoned, results>>

\* The peer has closed: validate_eof.
ReadEof ==
    /\ pc = "read"
    /\ pos = Len(stream)
    /\ Return(IF buffer # <<>> THEN Failed("UnexpectedEof") ELSE EndOfInput)
    /\ UNCHANGED <<script, stream, pos, decoder>>

\* The read itself fails; the decoder is as it was.
ReadFails ==
    /\ pc = "read"
    /\ Return(Failed("Io"))
    /\ UNCHANGED <<script, stream, pos, decoder>>

LastResult == results[Len(results)]

\* Mutant: a caller reads first and decodes then.
CallReading ==
    /\ pc = "returned"
    /\ Len(results) < MaxCalls
    /\ LastResult # EndOfInput
    /\ pc' = "read"
    /\ UNCHANGED <<script, stream, pos, decoder, results>>

\* The next call of read_next.
Call ==
    /\ pc = "returned"
    /\ Len(results) < MaxCalls
    /\ LastResult # EndOfInput
    /\ pc' = "decode"
    /\ UNCHANGED <<script, stream, pos, decoder, results>>

Next ==
    \/ DecodeArrayHeader
    \/ DecodeArgument
    \/ TakeRequest
    \/ RefusePoisoned
    \/ \E n \in 1 .. ReadChunkSize : Read(n)
    \/ ReadEof
    \/ ReadFails
    \/ Call

Spec == Init /\ [][Next]_vars

-----------------------------------------------------------------------------
(* Properties.                                                              *)

TypeOK ==
    /\ pos \in 0 .. Len(stream)
    /\ buffer \in Seq(Byte)
    /\ cursor \in 0 .. Len(buffer)
    /\ expected_arg_count \in 0 .. MaxArrayLength \cup {None}
    /\ args \in Seq(Seq(Byte))
    /\ expected_arg_count = None => args = <<>> /\ cursor = 0
    /\ expected_arg_count # None => Len(args) <= expected_arg_count
    /\ poisoned \in BOOLEAN
    /\ pc \in {"decode", "read", "returned"}

\* The requests among what read_next has returned.
RequestsIn(returned) ==
    LET taken[i \in 0 .. Len(returned)] ==
            IF i = 0 THEN <<>>
            ELSE IF returned[i].kind = "request" THEN Append(taken[i - 1], returned[i].cstrs)
            ELSE taken[i - 1]
    IN  taken[Len(returned)]

Delivered == RequestsIn(results)

(* The decoder's place: the bytes read so far are those of the requests
   delivered, followed by the buffer; and the buffer up to the cursor is the
   header and the arguments taken from the present request.  No cut, and no
   failed read in between, makes it lose or repeat a byte (decode_buffered,
   take_request, read_next). *)
PlaceKept ==
    /\ StreamBytes(Delivered) \o buffer = SubSeq(stream, 1, pos)
    /\ expected_arg_count # None =>
           SubSeq(buffer, 1, cursor) = Opening(expected_arg_count, args)

(* However the stream is cut, the requests come out as they were sent, none
   twice, none invented, and the stream ends as it must: an end only where
   nothing is left over, and the tail's own error otherwise (decode_next,
   validate_eof). *)
DecodesWhatWasSent ==
    /\ IsPrefix(Delivered, script.sent)
    /\ \A i \in DOMAIN results :
           results[i].kind \in {"end", "error"} =>
               \/ results[i] = Failed("Io")
               \/ results[i] = script.verdict /\ Len(Delivered) = Len(script.sent)
               \/ poisoned /\ results[i] = Failed("Poisoned")

(* After an error in the bytes nothing comes out any more but the refusal,
   even if complete requests lie behind the error (the poisoned flag). *)
PoisonLasts ==
    [][poisoned => poisoned' /\ \A i \in DOMAIN results' \ DOMAIN results :
           results'[i] = Failed("Poisoned")]_vars

\* The bytes read hold request i, whole.
Arrived(i) == pos >= Len(StreamBytes(SubSeq(script.sent, 1, i)))

(* A request whose last byte has been read comes out although the peer sends
   nothing more: nobody waits for input while a whole request lies in the
   buffer (read_next decodes what is buffered before it reads). *)
NoWaitOnWholeRequest ==
    pc = "read" => \A i \in 1 .. Len(script.sent) : Arrived(i) => Len(Delivered) >= i
=============================================================================
