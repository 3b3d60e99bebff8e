-------------------------- MODULE MCRequestDecoder --------------------------
(* Scripts for RequestDecoder: requests with empty, numeric and CRLF-laden   *)
(* arguments, one behind the other, then a tail of each kind.                *)
EXTENDS RequestDecoder

a == 97
d5 == 53
Invalid == 255

MCRequests == {<<>>, <<<<>>>>, <<<<a>>, <<CR, LF>>>>, <<<<a, CR>>, <<>>, <<CStringByte, d5, CR, LF, a>>>>}

MCSentLists == {<<>>} \cup {<<r>> : r \in MCRequests} \cup {<<q, r>> : q, r \in MCRequests}

Final == <<<<a, CR>>, <<a>>>>

Whole == RequestBytes(Final)

TailAt(rest, verdict) == [count |-> None, args |-> <<>>, rest |-> rest, verdict |-> verdict]

TailIn(count, cstrs, rest, verdict) ==
    [count |-> count, args |-> cstrs, rest |-> rest, verdict |-> verdict]

Header(n) == LineBytes(ArrayByte, Decimal[n])

Cuts(bytes) == {SubSeq(bytes, 1, i) : i \in 0 .. Len(bytes) - 1}

\* Every proper beginning of a request.
CutTails ==
    {TailAt(cut, Failed("UnexpectedEof")) : cut \in Cuts(Header(Len(Final))) \ {<<>>}}
        \cup UNION {{TailIn(Len(Final), SubSeq(Final, 1, i - 1), cut, Failed("UnexpectedEof")) :
                         cut \in Cuts(CStringBytes(Final[i]))} : i \in DOMAIN Final}

Line(bytes) == bytes \o CRLF

\* What is wrong from the first byte on, or within the first request, and
\* what comes behind it does not count.
BadTails ==
    {TailAt(CRLF, Failed("MissingFirstByte")),
     TailAt(Line(<<CStringByte, d5>>), Failed("ExpectedArray")),
     TailAt(Line(<<ArrayByte>>), Failed("InvalidInt")),
     TailAt(Line(<<ArrayByte, Minus, d5>>), Failed("InvalidInt")),
     TailAt(Line(<<ArrayByte, Invalid>>), Failed("InvalidInt")),
     TailAt(Header(MaxArrayLength + 1), Failed("ArrayTooLong")),
     TailIn(1, <<>>, Header(1), Failed("ExpectedCString")),
     TailIn(2, <<<<a>>>>, CRLF, Failed("MissingFirstByte")),
     TailIn(1, <<>>, LineBytes(CStringByte, Decimal[MaxCStringLength + 1]),
            Failed("CStringTooLong")),
     TailIn(1, <<>>, LineBytes(CStringByte, Decimal[1]) \o <<a, a, CR, LF>>,
            Failed("MissingCrlf")),
     TailIn(1, <<>>, LineBytes(CStringByte, Decimal[2]) \o <<a, CR, LF>>,
            Failed("UnexpectedEof"))}

BehindTails ==
    {TailAt(Line(<<ArrayByte, Minus, d5>>) \o Whole, Failed("InvalidInt")),
     TailIn(1, <<>>, Whole, Failed("ExpectedCString")),
     TailIn(1, <<>>, LineBytes(CStringByte, Decimal[1]) \o Whole, Failed("MissingCrlf"))}

NoTail == TailAt(<<>>, EndOfInput)

Script(sent, t) ==
    [sent |-> sent, count |-> t.count, args |-> t.args, rest |-> t.rest, verdict |-> t.verdict]

MCScripts ==
    {Script(sent, t) : sent \in MCSentLists, t \in {NoTail} \cup BadTails \cup BehindTails}
        \cup {Script(<<r>>, t) : r \in MCRequests, t \in CutTails}
        \cup {Script(<<q, r>>, t) : q, r \in MCRequests, t \in CutTails}
=============================================================================
