-------------------------- MODULE MCResponseDecoder --------------------------
(* Scripts for ResponseDecoder: every kind of answer the server gives, the   *)
(* nested ones of MGET and GETALL, and tails of each kind.                   *)
EXTENDS ResponseDecoder

a == 97
Invalid == 255

MCUtf8 == Seq(0 .. 127)

MCMessages == {<<a, CR>>}

MCResponses ==
    {Ok, Error(<<a, CR>>), Cstr(<<>>), Cstr(<<a, CR, LF, SStrByte>>), Null, Integer(-(MaxI64 + 1)), Integer(MaxI64),
     Array(<<>>),
     Array(<<Null, Cstr(<<CR, LF>>)>>),
     Array(<<Array(<<Cstr(<<a>>), Cstr(<<>>)>>), Array(<<Null>>)>>)}

MCSentLists == {<<>>} \cup {<<r>> : r \in MCResponses} \cup {<<q, r>> : q, r \in MCResponses}

\* count arrays, each the only element of the one before.
Nested(count) == FlattenSeq([i \in 1 .. count |-> LineBytes(ArrayByte, Decimal[1])])

Whole == ResponseBytes(Array(<<Cstr(<<a>>), Array(<<Integer(-1)>>)>>))

\* Every proper beginning of a response.
CutTails ==
    {[bytes |-> SubSeq(Whole, 1, i), verdict |-> Failed("UnexpectedEof")] :
        i \in 1 .. Len(Whole) - 1}

Header(n) == LineBytes(ArrayByte, SignedDecimal(n))

BadTails ==
    {[bytes |-> <<a>>, verdict |-> Failed("UnexpectedPrefix")],
     [bytes |-> LineBytes(SStrByte, <<a>>), verdict |-> Failed("UnexpectedSstr")],
     [bytes |-> LineBytes(ErrorByte, <<Invalid>>), verdict |-> Failed("InvalidUtf8")],
     [bytes |-> LineBytes(IntegerByte, <<>>), verdict |-> Failed("InvalidInt")],
     [bytes |-> LineBytes(IntegerByte, SignedDecimal(-(MaxI64 + 2))), verdict |-> Failed("InvalidInt")],
     [bytes |-> LineBytes(CStringByte, Decimal[MaxI64 + 1]), verdict |-> Failed("InvalidInt")],
     [bytes |-> Header(MaxI64 + 1), verdict |-> Failed("InvalidInt")],
     [bytes |-> LineBytes(CStringByte, SignedDecimal(-2)), verdict |-> Failed("InvalidCStringLength")],
     [bytes |-> LineBytes(CStringByte, Decimal[MaxCStringLength + 1]),
      verdict |-> Failed("CStringTooLong")],
     [bytes |-> LineBytes(CStringByte, Decimal[1]) \o <<a, a, CR, LF>>,
      verdict |-> Failed("MissingCrlf")],
     [bytes |-> Header(-1), verdict |-> Failed("InvalidArrayLength")],
     [bytes |-> Header(MaxCapacity + 1), verdict |-> Panicked],
     [bytes |-> Header(2) \o Header(1) \o CRLF, verdict |-> Failed("UnexpectedPrefix")],
     [bytes |-> Nested(MaxDepth), verdict |-> Overflowed]}

\* Complete responses behind what is wrong.
BehindTails ==
    {[bytes |-> t.bytes \o Whole, verdict |-> t.verdict] : t \in BadTails}

NoTail == [bytes |-> <<>>, verdict |-> EndOfInput]

Script(sent, t) == [sent |-> sent, tail |-> t.bytes, verdict |-> t.verdict]

MCScripts ==
    {Script(sent, NoTail) : sent \in MCSentLists}
        \cup {Script(<<r>>, t) : r \in MCResponses, t \in CutTails \cup BehindTails}
        \cup {Script(<<>>, t) : t \in CutTails \cup BadTails \cup BehindTails}

\* An error message may quote what the client had sent.
MCQuotingMessages ==
    {<<a>> \o quoted :
        quoted \in {<<CR>>, <<a, CR, LF, a>>, CRLF \o LineBytes(SStrByte, OkBody)}}

MCQuotingScripts == {Script(<<Error(msg), Ok>>, NoTail) : msg \in MCQuotingMessages}
=============================================================================
