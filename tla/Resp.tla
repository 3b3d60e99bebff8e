-------------------------------- MODULE Resp --------------------------------
(***************************************************************************)
(* The bytes of the protocol, as both decoders and both encoders use them  *)
(* (util.rs and the constants of request.rs and response.rs).  A byte is   *)
(* its code, so that digits are numbers and nothing else is.               *)
(***************************************************************************)
EXTENDS Integers, SequencesExt

Byte == 0 .. 255

CR == 13
LF == 10
CRLF == <<CR, LF>>

Plus == 43
Minus == 45
ArrayByte == 42
CStringByte == 36
SStrByte == Plus
ErrorByte == Minus
IntegerByte == 58

-----------------------------------------------------------------------------
(* What a parsing function returns: nothing yet, an error, or data together *)
(* with the number of bytes it took.                                        *)

Incomplete == [kind |-> "incomplete"]

Failed(error) == [kind |-> "error", error |-> error]

Parsed(data, num_bytes_parsed) ==
    [kind |-> "parsed", data |-> data, num_bytes_parsed |-> num_bytes_parsed]

-----------------------------------------------------------------------------
(* Lines.                                                                   *)

From(bytes, start) == SubSeq(bytes, start + 1, Len(bytes))

CrlfPositions(bytes) ==
    {i \in 0 .. Len(bytes) - 2 : bytes[i + 1] = CR /\ bytes[i + 2] = LF}

\* The first line of bytes, if its CRLF is there.
ParseLine(bytes) ==
    IF CrlfPositions(bytes) = {}
    THEN Incomplete
    ELSE LET crlf_pos == Min(CrlfPositions(bytes))
         IN  Parsed(SubSeq(bytes, 1, crlf_pos), crlf_pos + 2)

-----------------------------------------------------------------------------
(* Numbers in decimal.  What is no number to str::parse is none here; the   *)
(* errors do not tell an invalid utf-8 sequence from one without a number.  *)

Digit == 48 .. 57

IsDecimal(bytes) == bytes # <<>> /\ \A i \in DOMAIN bytes : bytes[i] \in Digit

DecimalValue(bytes) ==
    LET value[i \in 0 .. Len(bytes)] ==
            IF i = 0 THEN 0 ELSE 10 * value[i - 1] + (bytes[i] - 48)
    IN  value[Len(bytes)]

Unsigned(bytes) ==
    IF bytes # <<>> /\ Head(bytes) = Plus THEN Tail(bytes) ELSE bytes

IsUsize(bytes) == IsDecimal(Unsigned(bytes))

UsizeValue(bytes) == DecimalValue(Unsigned(bytes))

IsNegative(bytes) == bytes # <<>> /\ Head(bytes) = Minus

IsSigned(bytes) ==
    IF IsNegative(bytes) THEN IsDecimal(Tail(bytes)) ELSE IsUsize(bytes)

SignedValue(bytes) ==
    IF IsNegative(bytes) THEN -DecimalValue(Tail(bytes)) ELSE UsizeValue(bytes)

\* to_string of a number.
Decimal[n \in Nat] ==
    IF n < 10 THEN <<48 + n>> ELSE Append(Decimal[n \div 10], 48 + (n % 10))

SignedDecimal(n) == IF n < 0 THEN <<Minus>> \o Decimal[-n] ELSE Decimal[n]

-----------------------------------------------------------------------------
(* One line with its prefix byte, and a complex string.                     *)

LineBytes(prefix, body) == <<prefix>> \o body \o CRLF

CStringBytes(data) == LineBytes(CStringByte, Decimal[Len(data)]) \o data \o CRLF
=============================================================================
