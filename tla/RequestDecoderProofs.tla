------------------------ MODULE RequestDecoderProofs ------------------------
(* The bytes of whole requests come out of the reader as the requests they   *)
(* were, however the reads cut them, and what is no request ends as it must: *)
(* for every script, every limit and every size of the reads.                *)
EXTENDS RequestDecoder, RespProofs

-----------------------------------------------------------------------------
(* Headers.                                                                  *)

Errors == {"MissingFirstByte", "InvalidInt", "ExpectedArray", "ArrayTooLong",
           "ExpectedCString", "CStringTooLong", "MissingCrlf", "UnexpectedEof",
           "Poisoned", "Io"}

LEMMA ResultKinds ==
    /\ Incomplete.kind = "incomplete"
    /\ \A error : Failed(error).kind = "error" /\ Failed(error).error = error
    /\ \A data, num : /\ Parsed(data, num).kind = "parsed"
                      /\ Parsed(data, num).data = data
                      /\ Parsed(data, num).num_bytes_parsed = num
BY DEF Incomplete, Failed, Parsed

\* What ParseHeader makes of a line.
HeaderOf(body, num, prefix, max, wrong, long) ==
    IF body = <<>> THEN Failed("MissingFirstByte")
    ELSE IF Head(body) # prefix THEN Failed(wrong)
    ELSE IF ~IsUsize(Tail(body)) THEN Failed("InvalidInt")
    ELSE IF UsizeValue(Tail(body)) > max THEN Failed(long)
    ELSE Parsed(UsizeValue(Tail(body)), num)

LEMMA HeaderOfLine ==
    ASSUME NEW prefix, NEW max, NEW wrong, NEW long, NEW bytes, NEW body, NEW num,
           ParseLine(bytes) = Parsed(body, num)
    PROVE  ParseHeader(bytes, prefix, max, wrong, long) =
               HeaderOf(body, num, prefix, max, wrong, long)
<1> DEFINE line == ParseLine(bytes)
<1>1. line # Incomplete /\ line.data = body /\ line.num_bytes_parsed = num
  BY ResultKinds
<1>2. ParseHeader(bytes, prefix, max, wrong, long) =
          IF line = Incomplete THEN Incomplete
          ELSE IF line.data = <<>> THEN Failed("MissingFirstByte")
          ELSE IF Head(line.data) # prefix THEN Failed(wrong)
          ELSE IF ~IsUsize(Tail(line.data)) THEN Failed("InvalidInt")
          ELSE IF UsizeValue(Tail(line.data)) > max THEN Failed(long)
          ELSE Parsed(UsizeValue(Tail(line.data)), line.num_bytes_parsed)
  BY DEF ParseHeader
<1> HIDE DEF line
<1> QED BY <1>1, <1>2 DEF HeaderOf

(* A header with a number within the limit is read as that number. *)
LEMMA HeaderComes ==
    ASSUME NEW prefix \in Byte, prefix # CR, NEW max \in Nat, NEW n \in 0 .. max,
           NEW wrong, NEW long, NEW bytes \in Seq(Byte),
           Begins(LineBytes(prefix, Decimal[n]), bytes)
    PROVE  ParseHeader(bytes, prefix, max, wrong, long) =
               Parsed(n, Len(LineBytes(prefix, Decimal[n])))
<1>1. n \in Nat /\ ~(n > max)
  OBVIOUS
<1>2. PICK body \in Seq(Byte) :
          /\ body # <<>> /\ Head(body) = prefix /\ Tail(body) = Decimal[n]
          /\ \A i \in 1 .. Len(body) : body[i] # CR
          /\ LineBytes(prefix, Decimal[n]) = body \o CRLF
          /\ Len(LineBytes(prefix, Decimal[n])) = Len(body) + 2
  BY <1>1, NumberLine
<1>3. ParseLine(bytes) = Parsed(body, Len(body) + 2)
  BY <1>2, LineComes
<1>4. IsUsize(Tail(body)) /\ UsizeValue(Tail(body)) = n
  BY <1>1, <1>2, NumberReads
<1>5. ParseHeader(bytes, prefix, max, wrong, long) =
          HeaderOf(body, Len(body) + 2, prefix, max, wrong, long)
  BY <1>3, HeaderOfLine, Zenon
<1> QED BY <1>1, <1>2, <1>4, <1>5 DEF HeaderOf

(* A part of it is waited with. *)
LEMMA HeaderWaits ==
    ASSUME NEW prefix \in Byte, prefix # CR, NEW n \in Nat,
           NEW max, NEW wrong, NEW long, NEW bytes \in Seq(Byte),
           Begins(bytes, LineBytes(prefix, Decimal[n])),
           Len(bytes) < Len(LineBytes(prefix, Decimal[n]))
    PROVE  ParseHeader(bytes, prefix, max, wrong, long) = Incomplete
<1>1. PICK body \in Seq(Byte) :
          /\ \A i \in 1 .. Len(body) : body[i] # CR
          /\ LineBytes(prefix, Decimal[n]) = body \o CRLF
          /\ Len(LineBytes(prefix, Decimal[n])) = Len(body) + 2
  BY NumberLine
<1>2. ParseLine(bytes) = Incomplete
  BY <1>1, LineWaits
<1> QED BY <1>2 DEF ParseHeader

LEMMA HeaderStays ==
    ASSUME NEW prefix, NEW max, NEW wrong, NEW long,
           NEW bytes \in Seq(Byte), NEW more \in Seq(Byte), Begins(bytes, more),
           ParseHeader(bytes, prefix, max, wrong, long) # Incomplete
    PROVE  ParseHeader(more, prefix, max, wrong, long) =
               ParseHeader(bytes, prefix, max, wrong, long)
<1>1. ParseLine(bytes) # Incomplete
  BY DEF ParseHeader
<1>2. ParseLine(more) = ParseLine(bytes)
  BY <1>1, LineStays
<1> QED BY <1>2 DEF ParseHeader

\* Whatever the bytes, a header is missing, wrong or within its bytes.
LEMMA HeaderResult ==
    ASSUME NEW prefix, NEW max \in Nat, NEW wrong \in Errors, NEW long \in Errors,
           NEW bytes \in Seq(Byte)
    PROVE  LET header == ParseHeader(bytes, prefix, max, wrong, long)
           IN  \/ header = Incomplete
               \/ \E error \in Errors : header = Failed(error)
               \/ \E n \in 0 .. max, num \in 1 .. Len(bytes) : header = Parsed(n, num)
<1>1. CASE ParseLine(bytes) = Incomplete
  BY <1>1 DEF ParseHeader
<1>2. CASE ParseLine(bytes) # Incomplete
  <2>1. PICK p : IsLineEnd(bytes, p)
    BY <1>2, LineCases
  <2>2. /\ p \in Nat /\ p + 2 <= Len(bytes) /\ Len(bytes) \in Nat
        /\ ParseLine(bytes) = Parsed(SubSeq(bytes, 1, p), p + 2)
    BY <2>1, LineEnd, LenProperties
  <2>3. PICK body \in Seq(Byte) : body = SubSeq(bytes, 1, p)
    <3>1. p \in Int /\ 1 \in Int /\ \A i \in 1 .. p : bytes[i] \in Byte
      BY <2>2, ElementOfSeq
    <3>2. SubSeq(bytes, 1, p) \in Seq(Byte)
      BY <3>1, SubSeqProperties
    <3> QED BY <3>2
  <2> DEFINE header == ParseHeader(bytes, prefix, max, wrong, long)
             n == UsizeValue(Tail(body))
  <2>4. header = IF body = <<>> THEN Failed("MissingFirstByte")
                 ELSE IF Head(body) # prefix THEN Failed(wrong)
                 ELSE IF ~IsUsize(Tail(body)) THEN Failed("InvalidInt")
                 ELSE IF n > max THEN Failed(long)
                 ELSE Parsed(n, p + 2)
    <3>1. ParseLine(bytes) = Parsed(body, p + 2)
      BY <2>2, <2>3
    <3>2. ParseHeader(bytes, prefix, max, wrong, long) =
              HeaderOf(body, p + 2, prefix, max, wrong, long)
      BY <3>1, HeaderOfLine, Zenon
    <3> QED BY <3>2 DEF HeaderOf
  <2>5. "MissingFirstByte" \in Errors /\ "InvalidInt" \in Errors
    BY DEF Errors
  <2>6. body # <<>> /\ IsUsize(Tail(body)) => n \in Nat
    BY HeadTailProperties, UsizeType
  <2>7. p + 2 \in 1 .. Len(bytes)
    BY <2>2
  <2> HIDE DEF header, n
  <2>8. \/ \E error \in Errors : header = Failed(error)
        \/ \E m \in 0 .. max, num \in 1 .. Len(bytes) : header = Parsed(m, num)
    <3>1. CASE body = <<>>
      BY <2>4, <2>5, <3>1
    <3>2. CASE body # <<>> /\ Head(body) # prefix
      BY <2>4, <2>5, <3>2
    <3>3. CASE body # <<>> /\ Head(body) = prefix /\ ~IsUsize(Tail(body))
      BY <2>4, <2>5, <3>3
    <3>4. CASE body # <<>> /\ Head(body) = prefix /\ IsUsize(Tail(body))
      <4>1. n \in Nat
        BY <2>6, <3>4
      <4>2. CASE n > max
        BY <2>4, <2>5, <3>4, <4>2
      <4>3. CASE ~(n > max)
        <5>1. header = Parsed(n, p + 2)
          BY <2>4, <3>4, <4>3
        <5>2. n \in 0 .. max
          BY <4>1, <4>3
        <5> QED BY <2>7, <5>1, <5>2
      <4> QED BY <4>2, <4>3
    <3> QED BY <3>1, <3>2, <3>3, <3>4
  <2> QED BY <2>8 DEF header
<1> QED BY <1>1, <1>2

-----------------------------------------------------------------------------
(* Complex strings.                                                          *)

\* What ParseCStr makes of a header.
CStrOf(bytes, len, num) ==
    IF num + len + 2 > Len(bytes) THEN Incomplete
    ELSE IF SubSeq(bytes, num + len + 1, num + len + 2) # CRLF THEN Failed("MissingCrlf")
    ELSE Parsed(SubSeq(bytes, num + 1, num + len), num + len + 2)

CStrHeader(bytes) ==
    ParseHeader(bytes, CStringByte, MaxCStringLength, "ExpectedCString", "CStringTooLong")

LEMMA CStrOfHeader ==
    ASSUME NEW bytes, NEW len, NEW num, CStrHeader(bytes) = Parsed(len, num)
    PROVE  ParseCStr(bytes) = CStrOf(bytes, len, num)
<1> DEFINE header == CStrHeader(bytes)
<1>1. header.kind = "parsed" /\ header.data = len /\ header.num_bytes_parsed = num
  BY ResultKinds
<1>2. ParseCStr(bytes) =
          IF header.kind # "parsed" THEN header
          ELSE CStrOf(bytes, header.data, header.num_bytes_parsed)
  BY DEF ParseCStr, CStrOf, CStrHeader
<1> HIDE DEF header
<1> QED BY <1>1, <1>2

LEMMA CStrOfNoHeader ==
    ASSUME NEW bytes, CStrHeader(bytes).kind # "parsed"
    PROVE  ParseCStr(bytes) = CStrHeader(bytes)
BY DEF ParseCStr, CStrHeader

LEMMA CStringParts ==
    ASSUME NEW data \in CStrings
    PROVE  \E line \in Seq(Byte), rest \in Seq(Byte) :
               /\ line = LineBytes(CStringByte, Decimal[Len(data)])
               /\ rest = data \o CRLF
               /\ CStringBytes(data) = line \o rest
               /\ CStringBytes(data) \in Seq(Byte)
               /\ Len(rest) = Len(data) + 2
               /\ Len(CStringBytes(data)) = Len(line) + Len(data) + 2
               /\ \A i \in 1 .. Len(data) : rest[i] = data[i]
               /\ rest[Len(data) + 1] = CR
               /\ rest[Len(data) + 2] = LF
<1>1. data \in Seq(Byte)
  BY DEF CStrings
<1>2. PICK n \in Nat : n = Len(data)
  BY <1>1, LenProperties
<1>3. PICK line \in Seq(Byte) : line = LineBytes(CStringByte, Decimal[Len(data)])
  BY <1>1, CStringType
<1>4. PICK rest \in Seq(Byte) : rest = data \o CRLF
  BY <1>1, CStringType
<1>5. PICK crlf \in Seq(Byte) : crlf = CRLF /\ Len(crlf) = 2
  BY CrlfType
<1>6. /\ Len(rest) = n + 2
      /\ \A i \in 1 .. n + 2 : rest[i] = IF i <= n THEN data[i] ELSE crlf[i - n]
  <2>1. /\ Len(data \o crlf) = Len(data) + Len(crlf)
        /\ \A i \in 1 .. Len(data) + Len(crlf) : (data \o crlf)[i] =
               IF i <= Len(data) THEN data[i] ELSE crlf[i - Len(data)]
    BY <1>1, ConcatProperties
  <2>2. rest = data \o crlf
    BY <1>4, <1>5
  <2>3. Len(data) + Len(crlf) = n + 2
    BY <1>2, <1>5
  <2> QED BY <1>2, <2>1, <2>2, <2>3
<1>7. \A i \in 1 .. n : rest[i] = data[i]
  <2>1. \A i \in 1 .. n : i \in 1 .. n + 2 /\ i <= n
    OBVIOUS
  <2> QED BY <1>6, <2>1
<1>8. rest[n + 1] = CR /\ rest[n + 2] = LF
  <2>1. /\ n + 1 \in 1 .. n + 2 /\ ~(n + 1 <= n) /\ (n + 1) - n = 1
        /\ n + 2 \in 1 .. n + 2 /\ ~(n + 2 <= n) /\ (n + 2) - n = 2
    OBVIOUS
  <2> QED BY <1>5, <1>6, <2>1, CrlfType
<1>9. /\ CStringBytes(data) = line \o rest
      /\ CStringBytes(data) \in Seq(Byte)
      /\ Len(CStringBytes(data)) = Len(line) + Len(data) + 2
  BY <1>1, <1>3, <1>4, CStringType
<1> QED BY <1>2, <1>3, <1>4, <1>6, <1>7, <1>8, <1>9

(* The bytes of a complex string within the limit are read as that string, *)
(* whatever follows them.                                                  *)
LEMMA CStrComes ==
    ASSUME NEW data \in CStrings, NEW bytes \in Seq(Byte),
           Begins(CStringBytes(data), bytes)
    PROVE  ParseCStr(bytes) = Parsed(data, Len(CStringBytes(data)))
<1>1. data \in Seq(Byte) /\ Len(data) <= MaxCStringLength /\ MaxCStringLength \in Nat
  BY SizeAssumption DEF CStrings
<1>2. PICK n \in Nat : n = Len(data)
  BY <1>1, LenProperties
<1>3. PICK line \in Seq(Byte), rest \in Seq(Byte) :
          /\ line = LineBytes(CStringByte, Decimal[n])
          /\ CStringBytes(data) = line \o rest
          /\ Len(rest) = n + 2
          /\ Len(CStringBytes(data)) = Len(line) + n + 2
          /\ \A i \in 1 .. n : rest[i] = data[i]
          /\ rest[n + 1] = CR
          /\ rest[n + 2] = LF
  BY <1>2, CStringParts
<1>4. PICK L \in Nat : L = Len(line)
  BY LenProperties
<1>5. /\ Len(bytes) \in Nat
      /\ L + n + 2 <= Len(bytes)
      /\ Begins(line, bytes)
      /\ \A i \in 1 .. n + 2 : bytes[L + i] = rest[i]
  <2>1. Begins(line \o rest, bytes)
    BY <1>3
  <2>2. /\ Len(bytes) \in Nat
        /\ Len(line) + Len(rest) <= Len(bytes)
        /\ Begins(line, bytes)
        /\ \A i \in 1 .. Len(rest) : bytes[Len(line) + i] = rest[i]
    BY <2>1, BehindBeginning
  <2> QED BY <1>3, <1>4, <2>2
<1>6. CStrHeader(bytes) = Parsed(n, L)
  <2>1. CStringByte \in Byte /\ CStringByte # CR
    BY DEF CStringByte, Byte, CR
  <2>2. n \in 0 .. MaxCStringLength
    BY <1>1, <1>2
  <2>3. Begins(LineBytes(CStringByte, Decimal[n]), bytes)
    BY <1>3, <1>5
  <2>4. CStrHeader(bytes) = Parsed(n, Len(LineBytes(CStringByte, Decimal[n])))
    BY <1>1, <2>1, <2>2, <2>3, HeaderComes DEF CStrHeader
  <2> QED BY <1>3, <1>4, <2>4
<1>7. ParseCStr(bytes) = CStrOf(bytes, n, L)
  BY <1>6, CStrOfHeader
<1>8. SubSeq(bytes, L + n + 1, L + n + 2) = CRLF
  <2>1. PICK a \in Nat, b \in Nat : a = L + n /\ b = L + n + 2
    OBVIOUS
  <2>2. CRLF \in Seq(Byte) /\ b = a + Len(CRLF) /\ b <= Len(bytes)
    BY <1>5, <2>1, CrlfType
  <2>3. ASSUME NEW i \in 1 .. Len(CRLF)
        PROVE  bytes[a + i] = CRLF[i]
    <3>1. i = 1 \/ i = 2
      BY CrlfType
    <3>2. bytes[L + (n + i)] = rest[n + i]
      <4>1. n + i \in 1 .. n + 2
        BY <3>1
      <4> QED BY <1>5, <4>1
    <3>3. L + (n + i) = a + i
      BY <2>1, <3>1
    <3> QED BY <1>3, <3>1, <3>2, <3>3, CrlfType
  <2>4. SubSeq(bytes, a + 1, b) = CRLF
    BY <2>2, <2>3, SliceIs
  <2> QED BY <2>1, <2>4
<1>9. SubSeq(bytes, L + 1, L + n) = data
  <2>1. PICK b \in Nat : b = L + n
    OBVIOUS
  <2>2. b = L + Len(data) /\ b <= Len(bytes)
    BY <1>2, <1>5, <2>1
  <2>3. \A i \in 1 .. Len(data) : bytes[L + i] = data[i]
    <3>1. \A i \in 1 .. n : i \in 1 .. n + 2
      OBVIOUS
    <3> QED BY <1>2, <1>3, <1>5, <3>1
  <2>4. SubSeq(bytes, L + 1, b) = data
    BY <1>1, <2>2, <2>3, SliceIs
  <2> QED BY <2>1, <2>4
<1>10. ~(L + n + 2 > Len(bytes))
  BY <1>5
<1> QED BY <1>3, <1>4, <1>7, <1>8, <1>9, <1>10 DEF CStrOf

(* A part of them is waited with. *)
LEMMA CStrWaits ==
    ASSUME NEW data \in CStrings, NEW bytes \in Seq(Byte),
           Begins(bytes, CStringBytes(data)), Len(bytes) < Len(CStringBytes(data))
    PROVE  ParseCStr(bytes) = Incomplete
<1>1. data \in Seq(Byte) /\ Len(data) <= MaxCStringLength /\ MaxCStringLength \in Nat
  BY SizeAssumption DEF CStrings
<1>2. PICK n \in Nat : n = Len(data)
  BY <1>1, LenProperties
<1>3. PICK line \in Seq(Byte), rest \in Seq(Byte) :
          /\ line = LineBytes(CStringByte, Decimal[n])
          /\ CStringBytes(data) = line \o rest
          /\ Len(CStringBytes(data)) = Len(line) + n + 2
  BY <1>2, CStringParts
<1>4. Begins(bytes, line \o rest)
  BY <1>3
<1>5. CStringByte \in Byte /\ CStringByte # CR
  BY DEF CStringByte, Byte, CR
<1>6. PICK L \in Nat, m \in Nat : L = Len(line) /\ m = Len(bytes)
  BY LenProperties
<1>7. CASE m < L
  <2>1. Begins(bytes, line)
    BY <1>4, <1>6, <1>7, BeginsShort
  <2>2. Begins(bytes, LineBytes(CStringByte, Decimal[n]))
    BY <1>3, <2>1
  <2>3. Len(bytes) < Len(LineBytes(CStringByte, Decimal[n]))
    BY <1>3, <1>6, <1>7
  <2>4. CStrHeader(bytes) = Incomplete
    BY <1>5, <2>2, <2>3, HeaderWaits DEF CStrHeader
  <2>5. CStrHeader(bytes).kind # "parsed"
    BY <2>4, ResultKinds
  <2> QED BY <2>4, <2>5, CStrOfNoHeader
<1>8. CASE ~(m < L)
  <2>1. Begins(line, bytes)
    BY <1>4, <1>6, <1>8, BeginsLong
  <2>2. Begins(LineBytes(CStringByte, Decimal[n]), bytes)
    BY <1>3, <2>1
  <2>3. n \in 0 .. MaxCStringLength
    BY <1>1, <1>2
  <2>4. CStrHeader(bytes) = Parsed(n, Len(LineBytes(CStringByte, Decimal[n])))
    BY <1>1, <1>5, <2>2, <2>3, HeaderComes DEF CStrHeader
  <2>5. CStrHeader(bytes) = Parsed(n, L)
    BY <1>3, <1>6, <2>4
  <2>6. ParseCStr(bytes) = CStrOf(bytes, n, L)
    BY <2>5, CStrOfHeader
  <2>7. L + n + 2 > Len(bytes)
    BY <1>3, <1>6
  <2> QED BY <2>6, <2>7 DEF CStrOf
<1> QED BY <1>7, <1>8

\* Whatever the bytes, a complex string is missing, wrong or within them.
LEMMA CStrResult ==
    ASSUME NEW bytes \in Seq(Byte)
    PROVE  \/ ParseCStr(bytes) = Incomplete
           \/ \E error \in Errors : ParseCStr(bytes) = Failed(error)
           \/ \E data \in Seq(Byte), num \in 1 .. Len(bytes) :
                  ParseCStr(bytes) = Parsed(data, num)
<1> DEFINE header == CStrHeader(bytes)
<1>1. Len(bytes) \in Nat /\ MaxCStringLength \in Nat
  BY LenProperties, SizeAssumption
<1>2. \/ header = Incomplete
      \/ \E error \in Errors : header = Failed(error)
      \/ \E n \in 0 .. MaxCStringLength, num \in 1 .. Len(bytes) : header = Parsed(n, num)
  <2>1. "ExpectedCString" \in Errors /\ "CStringTooLong" \in Errors
    BY DEF Errors
  <2> QED BY <1>1, <2>1, HeaderResult DEF CStrHeader
<1>3. CASE header = Incomplete
  BY <1>3, ResultKinds, CStrOfNoHeader
<1>4. CASE \E error \in Errors : header = Failed(error)
  <2>1. PICK error \in Errors : header = Failed(error)
    BY <1>4
  <2>2. header.kind # "parsed"
    BY <2>1, ResultKinds
  <2> QED BY <2>1, <2>2, CStrOfNoHeader
<1>5. CASE \E n \in 0 .. MaxCStringLength, num \in 1 .. Len(bytes) : header = Parsed(n, num)
  <2>1. PICK n \in 0 .. MaxCStringLength, num \in 1 .. Len(bytes) : header = Parsed(n, num)
    BY <1>5
  <2>2. ParseCStr(bytes) = CStrOf(bytes, n, num)
    BY <2>1, CStrOfHeader
  <2>3. CASE num + n + 2 > Len(bytes)
    BY <2>2, <2>3 DEF CStrOf
  <2>4. CASE ~(num + n + 2 > Len(bytes))
    <3>1. PICK b \in Nat : b = num + n
      BY <1>1
    <3>2. num \in Nat /\ num <= b /\ b <= Len(bytes)
      BY <1>1, <2>4, <3>1
    <3>3. SubSeq(bytes, num + 1, b) \in Seq(Byte)
      BY <3>2, SliceProperties
    <3>4. num + n + 2 \in 1 .. Len(bytes)
      BY <1>1, <2>4
    <3>5. "MissingCrlf" \in Errors
      BY DEF Errors
    <3>6. \/ ParseCStr(bytes) = Failed("MissingCrlf")
          \/ ParseCStr(bytes) = Parsed(SubSeq(bytes, num + 1, num + n), num + n + 2)
      BY <2>2, <2>4 DEF CStrOf
    <3> QED BY <3>1, <3>3, <3>4, <3>5, <3>6
  <2> QED BY <2>3, <2>4
<1> QED BY <1>2, <1>3, <1>4, <1>5

(* What a part of the bytes is enough for does not change with the rest. *)
LEMMA CStrStays ==
    ASSUME NEW bytes \in Seq(Byte), NEW more \in Seq(Byte), Begins(bytes, more),
           ParseCStr(bytes) # Incomplete
    PROVE  ParseCStr(more) = ParseCStr(bytes)
<1>1. Len(bytes) \in Nat /\ Len(more) \in Nat /\ MaxCStringLength \in Nat
  BY LenProperties, SizeAssumption
<1>2. CStrHeader(bytes) # Incomplete
  <2> SUFFICES ASSUME CStrHeader(bytes) = Incomplete PROVE FALSE
    OBVIOUS
  <2>1. CStrHeader(bytes).kind # "parsed"
    BY ResultKinds
  <2> QED BY <2>1, CStrOfNoHeader
<1>3. CStrHeader(more) = CStrHeader(bytes)
  BY <1>2, HeaderStays DEF CStrHeader
<1>4. CASE CStrHeader(bytes).kind # "parsed"
  <2>1. ParseCStr(bytes) = CStrHeader(bytes) /\ ParseCStr(more) = CStrHeader(more)
    BY <1>3, <1>4, CStrOfNoHeader
  <2> QED BY <1>3, <2>1
<1>5. CASE CStrHeader(bytes).kind = "parsed"
  <2>1. PICK n \in 0 .. MaxCStringLength, num \in 1 .. Len(bytes) :
            CStrHeader(bytes) = Parsed(n, num)
    <3>1. "ExpectedCString" \in Errors /\ "CStringTooLong" \in Errors
      BY DEF Errors
    <3>2. \/ CStrHeader(bytes) = Incomplete
          \/ \E error \in Errors : CStrHeader(bytes) = Failed(error)
          \/ \E n \in 0 .. MaxCStringLength, num \in 1 .. Len(bytes) :
                 CStrHeader(bytes) = Parsed(n, num)
      BY <1>1, <3>1, HeaderResult DEF CStrHeader
    <3> QED BY <1>2, <1>5, <3>2, ResultKinds
  <2>2. ParseCStr(bytes) = CStrOf(bytes, n, num) /\ ParseCStr(more) = CStrOf(more, n, num)
    BY <1>3, <2>1, CStrOfHeader
  <2>3. num + n + 2 <= Len(bytes)
    <3>1. num + n + 2 \in Int
      BY <1>1
    <3> QED BY <1>1, <2>2, <3>1 DEF CStrOf
  <2>4. Len(bytes) <= Len(more) /\ \A i \in 1 .. Len(bytes) : more[i] = bytes[i]
    BY DEF Begins
  <2>5. ASSUME NEW a \in Nat, NEW b \in Nat, a <= b, b <= Len(bytes)
        PROVE  SubSeq(more, a + 1, b) = SubSeq(bytes, a + 1, b)
    <3>1. PICK r \in Seq(Byte) : /\ r = SubSeq(bytes, a + 1, b)
                                 /\ Len(r) = b - a
                                 /\ \A i \in 1 .. b - a : r[i] = bytes[a + i]
      <4>1. /\ SubSeq(bytes, a + 1, b) \in Seq(Byte)
            /\ Len(SubSeq(bytes, a + 1, b)) = b - a
            /\ \A i \in 1 .. b - a : SubSeq(bytes, a + 1, b)[i] = bytes[a + i]
        BY <2>5, SliceProperties
      <4> QED BY <4>1
    <3>2. b = a + Len(r) /\ b <= Len(more)
      BY <1>1, <2>4, <2>5, <3>1
    <3>3. ASSUME NEW i \in 1 .. Len(r)
          PROVE  more[a + i] = r[i]
      <4>1. a + i \in 1 .. Len(bytes) /\ i \in 1 .. b - a
        BY <1>1, <2>5, <3>1
      <4> QED BY <2>4, <3>1, <4>1
    <3>4. SubSeq(more, a + 1, b) = r
      BY <3>2, <3>3, SliceIs
    <3> QED BY <3>1, <3>4
  <2>6. PICK a \in Nat, b \in Nat : a = num + n /\ b = num + n + 2
    BY <1>1
  <2>7. SubSeq(more, a + 1, b) = SubSeq(bytes, a + 1, b)
    <3>1. a <= b /\ b <= Len(bytes)
      BY <1>1, <2>3, <2>6
    <3> QED BY <2>5, <3>1
  <2>8. SubSeq(more, num + 1, a) = SubSeq(bytes, num + 1, a)
    <3>1. num \in Nat /\ num <= a /\ a <= Len(bytes)
      BY <1>1, <2>3, <2>6
    <3> QED BY <2>5, <3>1
  <2>9. ~(num + n + 2 > Len(bytes)) /\ ~(num + n + 2 > Len(more))
    BY <1>1, <2>3, <2>4
  <2> QED BY <2>2, <2>6, <2>7, <2>8, <2>9 DEF CStrOf
<1> QED BY <1>4, <1>5

-----------------------------------------------------------------------------
(* The openings of requests, and whole requests.                             *)

LEMMA CStringsType ==
    /\ \A data \in CStrings : CStringBytes(data) \in Seq(Byte)
    /\ Seq(CStrings) \subseteq Seq(Seq(Byte))
    /\ \A request \in Requests : /\ request \in Seq(CStrings)
                                 /\ Len(request) \in 0 .. MaxArrayLength
<1>1. CStrings \subseteq Seq(Byte)
  BY DEF CStrings
<1>2. ASSUME NEW data \in CStrings
      PROVE  CStringBytes(data) \in Seq(Byte)
  <2>1. data \in Seq(Byte)
    BY <1>1
  <2> QED BY <2>1, CStringType
<1>3. ASSUME NEW request \in Requests
      PROVE  request \in Seq(CStrings) /\ Len(request) \in 0 .. MaxArrayLength
  <2>1. request \in Seq(CStrings) /\ Len(request) <= MaxArrayLength
    BY DEF Requests
  <2>2. Len(request) \in Nat /\ MaxArrayLength \in Nat
    BY <2>1, LenProperties, SizeAssumption
  <2> QED BY <2>1, <2>2
<1> QED BY <1>1, <1>2, <1>3, SeqMonotonic

ArgumentBytes(cstrs) == [i \in DOMAIN cstrs |-> CStringBytes(cstrs[i])]

LEMMA ArgumentsAppend ==
    ASSUME NEW cstrs \in Seq(CStrings), NEW data \in CStrings
    PROVE  /\ ArgumentBytes(cstrs) \in Seq(Seq(Byte))
           /\ ArgumentBytes(Append(cstrs, data)) =
                  Append(ArgumentBytes(cstrs), CStringBytes(data))
<1>1. PICK n \in Nat : n = Len(cstrs) /\ DOMAIN cstrs = 1 .. n
  BY LenProperties
<1>2. \A i \in 1 .. n : CStringBytes(cstrs[i]) \in Seq(Byte)
  BY <1>1, ElementOfSeq, CStringsType
<1>3. PICK a \in Seq(Seq(Byte)) : a = ArgumentBytes(cstrs)
  <2>1. ArgumentBytes(cstrs) = [i \in 1 .. n |-> CStringBytes(cstrs[i])]
    BY <1>1 DEF ArgumentBytes
  <2>2. [i \in 1 .. n |-> CStringBytes(cstrs[i])] \in Seq(Seq(Byte))
    BY <1>2
  <2> QED BY <2>1, <2>2
<1>4. Len(a) = n /\ \A i \in 1 .. n : a[i] = CStringBytes(cstrs[i])
  <2>1. a = [i \in 1 .. n |-> CStringBytes(cstrs[i])]
    BY <1>1, <1>3 DEF ArgumentBytes
  <2> QED BY <1>1, <2>1
<1>5. PICK longer \in Seq(CStrings) : longer = Append(cstrs, data)
  BY AppendProperties
<1>6. /\ Len(longer) = n + 1 /\ DOMAIN longer = 1 .. n + 1
      /\ longer[n + 1] = data /\ \A i \in 1 .. n : longer[i] = cstrs[i]
  BY <1>1, <1>5, AppendProperties, LenProperties
<1>7. \A i \in 1 .. n + 1 : CStringBytes(longer[i]) \in Seq(Byte)
  BY <1>5, <1>6, ElementOfSeq, CStringsType
<1>8. PICK b \in Seq(Seq(Byte)) : b = ArgumentBytes(longer)
  <2>1. ArgumentBytes(longer) = [i \in 1 .. n + 1 |-> CStringBytes(longer[i])]
    BY <1>6 DEF ArgumentBytes
  <2>2. [i \in 1 .. n + 1 |-> CStringBytes(longer[i])] \in Seq(Seq(Byte))
    BY <1>7
  <2> QED BY <2>1, <2>2
<1>9. Len(b) = n + 1 /\ \A i \in 1 .. n + 1 : b[i] = CStringBytes(longer[i])
  <2>1. b = [i \in 1 .. n + 1 |-> CStringBytes(longer[i])]
    BY <1>6, <1>8 DEF ArgumentBytes
  <2> QED BY <2>1
<1>10. PICK x \in Seq(Byte) : x = CStringBytes(data)
  BY CStringsType
<1>11. PICK c \in Seq(Seq(Byte)) : /\ c = Append(a, x)
                                   /\ Len(c) = n + 1
                                   /\ c[n + 1] = x
                                   /\ \A i \in 1 .. n : c[i] = a[i]
  <2>1. PICK c \in Seq(Seq(Byte)) : c = Append(a, x)
    BY AppendProperties
  <2>2. Len(c) = n + 1 /\ c[n + 1] = x /\ \A i \in 1 .. n : c[i] = a[i]
    BY <1>4, <2>1, AppendProperties
  <2> QED BY <2>1, <2>2
<1>12. ASSUME NEW i \in 1 .. n + 1
       PROVE  b[i] = c[i]
  <2>1. CASE i = n + 1
    BY <1>6, <1>9, <1>10, <1>11, <2>1
  <2>2. CASE i # n + 1
    <3>1. i \in 1 .. n
      BY <2>2
    <3> QED BY <1>4, <1>6, <1>9, <1>11, <3>1
  <2> QED BY <2>1, <2>2
<1>13. b = c
  BY <1>9, <1>11, <1>12, SeqEqual
<1> QED BY <1>3, <1>5, <1>8, <1>10, <1>11, <1>13

LEMMA OpeningType ==
    ASSUME NEW count \in Nat, NEW cstrs \in Seq(CStrings)
    PROVE  /\ Opening(count, cstrs) \in Seq(Byte)
           /\ LineBytes(ArrayByte, Decimal[count]) \in Seq(Byte)
           /\ FlattenSeq(ArgumentBytes(cstrs)) \in Seq(Byte)
           /\ Opening(count, cstrs) =
                  LineBytes(ArrayByte, Decimal[count]) \o FlattenSeq(ArgumentBytes(cstrs))
<1>1. PICK line \in Seq(Byte) : line = LineBytes(ArrayByte, Decimal[count])
  <2>1. ArrayByte \in Byte
    BY DEF ArrayByte, Byte
  <2>2. Decimal[count] \in Seq(Byte)
    BY NumberReads
  <2> QED BY <2>1, <2>2, LineType
<1>2. ArgumentBytes(cstrs) \in Seq(Seq(Byte))
  <2>1. CASE cstrs = <<>>
    <3>1. ArgumentBytes(cstrs) = <<>>
      BY <2>1 DEF ArgumentBytes
    <3> QED BY <3>1
  <2>2. CASE cstrs # <<>>
    <3>1. PICK data : data \in CStrings
      BY <2>2, HeadTailProperties
    <3> QED BY <3>1, ArgumentsAppend
  <2> QED BY <2>1, <2>2
<1>3. PICK rest \in Seq(Byte) : rest = FlattenSeq(ArgumentBytes(cstrs))
  BY <1>2, FlattenType
<1>4. line \o rest \in Seq(Byte)
  BY ConcatProperties
<1>5. Opening(count, cstrs) = line \o rest
  BY <1>1, <1>3 DEF Opening, ArgumentBytes
<1> QED BY <1>1, <1>3, <1>4, <1>5

LEMMA OpeningEmpty ==
    ASSUME NEW count \in Nat
    PROVE  Opening(count, <<>>) = LineBytes(ArrayByte, Decimal[count])
<1>1. <<>> \in Seq(CStrings) /\ ArgumentBytes(<<>>) = <<>>
  BY DEF ArgumentBytes
<1>2. PICK line \in Seq(Byte) : /\ line = LineBytes(ArrayByte, Decimal[count])
                                /\ Opening(count, <<>>) = line \o <<>>
  BY <1>1, OpeningType, FlattenEmpty
<1>3. line \o <<>> = line
  BY ConcatEmptySeq
<1> QED BY <1>2, <1>3

LEMMA BytesAssociative ==
    ASSUME NEW a \in Seq(Byte), NEW b \in Seq(Byte), NEW c \in Seq(Byte)
    PROVE  a \o (b \o c) = (a \o b) \o c
BY ConcatAssociative

\* One argument more puts its bytes behind the opening.
LEMMA OpeningAppend ==
    ASSUME NEW count \in Nat, NEW cstrs \in Seq(CStrings), NEW data \in CStrings
    PROVE  /\ Append(cstrs, data) \in Seq(CStrings)
           /\ Opening(count, cstrs) \in Seq(Byte)
           /\ CStringBytes(data) \in Seq(Byte)
           /\ Opening(count, Append(cstrs, data)) =
                  Opening(count, cstrs) \o CStringBytes(data)
<1>1. PICK longer \in Seq(CStrings) : longer = Append(cstrs, data)
  BY AppendProperties
<1>2. PICK x \in Seq(Byte) : x = CStringBytes(data)
  BY CStringsType
<1>3. PICK line \in Seq(Byte), rest \in Seq(Byte) :
          /\ line = LineBytes(ArrayByte, Decimal[count])
          /\ rest = FlattenSeq(ArgumentBytes(cstrs))
          /\ Opening(count, cstrs) = line \o rest
          /\ Opening(count, cstrs) \in Seq(Byte)
  BY OpeningType
<1>4. Opening(count, longer) = line \o FlattenSeq(ArgumentBytes(longer))
  BY <1>3, OpeningType
<1>5. FlattenSeq(ArgumentBytes(longer)) = rest \o x
  <2>1. PICK a \in Seq(Seq(Byte)) :
            a = ArgumentBytes(cstrs) /\ ArgumentBytes(longer) = Append(a, x)
    BY <1>1, <1>2, ArgumentsAppend
  <2>2. FlattenSeq(Append(a, x)) = FlattenSeq(a) \o x
    BY FlattenAppend
  <2>3. FlattenSeq(a) = rest
    BY <1>3, <2>1
  <2>4. FlattenSeq(ArgumentBytes(longer)) = FlattenSeq(Append(a, x))
    BY <2>1
  <2> QED BY <2>2, <2>3, <2>4
<1>6. line \o (rest \o x) = (line \o rest) \o x
  BY BytesAssociative, Zenon
<1>7. Opening(count, longer) = Opening(count, cstrs) \o x
  <2>1. Opening(count, longer) = line \o (rest \o x)
    BY <1>4, <1>5
  <2> QED BY <1>3, <1>6, <2>1
<1> QED BY <1>1, <1>2, <1>3, <1>7

\* The first arguments of a request open the bytes of all of them.
LEMMA OpeningGrows ==
    ASSUME NEW count \in Nat, NEW some \in Seq(CStrings), NEW all \in Seq(CStrings),
           Begins(some, all)
    PROVE  Begins(Opening(count, some), Opening(count, all))
<1> DEFINE P == {e \in Seq(CStrings) : Begins(Opening(count, some), Opening(count, e))}
<1>1. PICK first \in Seq(Byte) : first = Opening(count, some)
  BY OpeningType
<1>2. some \in P
  BY <1>1, BeginsSelf
<1>3. ASSUME NEW e \in Seq(CStrings), e \in P, Begins(e, all), Len(e) < Len(all)
      PROVE  Append(e, all[Len(e) + 1]) \in P
  <2>1. PICK data \in CStrings : data = all[Len(e) + 1]
    BY <1>3, BeginsAppend
  <2>2. PICK x \in Seq(Byte), y \in Seq(Byte) :
            /\ x = Opening(count, e)
            /\ y = CStringBytes(data)
            /\ Opening(count, Append(e, data)) = x \o y
            /\ Append(e, data) \in Seq(CStrings)
    BY OpeningAppend
  <2>3. Begins(first, x) /\ Begins(x, x \o y) /\ x \o y \in Seq(Byte)
    BY <1>1, <1>3, <2>2, BeginsConcat, ConcatProperties
  <2>4. Begins(first, x \o y)
    BY <2>3, BeginsTransitive
  <2> QED BY <1>1, <2>1, <2>2, <2>4
<1> HIDE DEF P
<1>4. all \in P
  BY <1>2, <1>3, BeginningGrows
<1> QED BY <1>4 DEF P

LEMMA RequestType ==
    ASSUME NEW request \in Requests
    PROVE  RequestBytes(request) \in Seq(Byte)
<1>1. request \in Seq(CStrings) /\ Len(request) \in Nat
  BY CStringsType, LenProperties
<1> QED BY <1>1, OpeningType DEF RequestBytes

-----------------------------------------------------------------------------
(* Streams.                                                                  *)

RequestsBytes(requests) == [i \in DOMAIN requests |-> RequestBytes(requests[i])]

LEMMA RequestsAppend ==
    ASSUME NEW requests \in Seq(Requests), NEW request \in Requests
    PROVE  /\ RequestsBytes(requests) \in Seq(Seq(Byte))
           /\ RequestsBytes(Append(requests, request)) =
                  Append(RequestsBytes(requests), RequestBytes(request))
<1>1. PICK n \in Nat : n = Len(requests) /\ DOMAIN requests = 1 .. n
  BY LenProperties
<1>2. \A i \in 1 .. n : RequestBytes(requests[i]) \in Seq(Byte)
  BY <1>1, ElementOfSeq, RequestType
<1>3. PICK a \in Seq(Seq(Byte)) : a = RequestsBytes(requests)
  <2>1. RequestsBytes(requests) = [i \in 1 .. n |-> RequestBytes(requests[i])]
    BY <1>1 DEF RequestsBytes
  <2>2. [i \in 1 .. n |-> RequestBytes(requests[i])] \in Seq(Seq(Byte))
    BY <1>2
  <2> QED BY <2>1, <2>2
<1>4. Len(a) = n /\ \A i \in 1 .. n : a[i] = RequestBytes(requests[i])
  <2>1. a = [i \in 1 .. n |-> RequestBytes(requests[i])]
    BY <1>1, <1>3 DEF RequestsBytes
  <2> QED BY <1>1, <2>1
<1>5. PICK longer \in Seq(Requests) : longer = Append(requests, request)
  BY AppendProperties
<1>6. /\ Len(longer) = n + 1 /\ DOMAIN longer = 1 .. n + 1
      /\ longer[n + 1] = request /\ \A i \in 1 .. n : longer[i] = requests[i]
  BY <1>1, <1>5, AppendProperties, LenProperties
<1>7. \A i \in 1 .. n + 1 : RequestBytes(longer[i]) \in Seq(Byte)
  BY <1>5, <1>6, ElementOfSeq, RequestType
<1>8. PICK b \in Seq(Seq(Byte)) : b = RequestsBytes(longer)
  <2>1. RequestsBytes(longer) = [i \in 1 .. n + 1 |-> RequestBytes(longer[i])]
    BY <1>6 DEF RequestsBytes
  <2>2. [i \in 1 .. n + 1 |-> RequestBytes(longer[i])] \in Seq(Seq(Byte))
    BY <1>7
  <2> QED BY <2>1, <2>2
<1>9. Len(b) = n + 1 /\ \A i \in 1 .. n + 1 : b[i] = RequestBytes(longer[i])
  <2>1. b = [i \in 1 .. n + 1 |-> RequestBytes(longer[i])]
    BY <1>6, <1>8 DEF RequestsBytes
  <2> QED BY <2>1
<1>10. PICK x \in Seq(Byte) : x = RequestBytes(request)
  BY RequestType
<1>11. PICK c \in Seq(Seq(Byte)) : /\ c = Append(a, x)
                                   /\ Len(c) = n + 1
                                   /\ c[n + 1] = x
                                   /\ \A i \in 1 .. n : c[i] = a[i]
  <2>1. PICK c \in Seq(Seq(Byte)) : c = Append(a, x)
    BY AppendProperties
  <2>2. Len(c) = n + 1 /\ c[n + 1] = x /\ \A i \in 1 .. n : c[i] = a[i]
    BY <1>4, <2>1, AppendProperties
  <2> QED BY <2>1, <2>2
<1>12. ASSUME NEW i \in 1 .. n + 1
       PROVE  b[i] = c[i]
  <2>1. CASE i = n + 1
    BY <1>6, <1>9, <1>10, <1>11, <2>1
  <2>2. CASE i # n + 1
    <3>1. i \in 1 .. n
      BY <2>2
    <3> QED BY <1>4, <1>6, <1>9, <1>11, <3>1
  <2> QED BY <2>1, <2>2
<1>13. b = c
  BY <1>9, <1>11, <1>12, SeqEqual
<1> QED BY <1>3, <1>5, <1>8, <1>10, <1>11, <1>13

LEMMA StreamEmpty == StreamBytes(<<>>) = <<>>
<1>1. RequestsBytes(<<>>) = <<>>
  BY DEF RequestsBytes
<1> QED BY <1>1, FlattenEmpty DEF StreamBytes, RequestsBytes

LEMMA StreamType ==
    ASSUME NEW requests \in Seq(Requests)
    PROVE  StreamBytes(requests) \in Seq(Byte)
<1>1. CASE requests = <<>>
  <2>1. <<>> \in Seq(Byte)
    OBVIOUS
  <2> QED BY <1>1, <2>1, StreamEmpty
<1>2. CASE requests # <<>>
  <2>1. PICK request : request \in Requests
    BY <1>2, HeadTailProperties
  <2>2. RequestsBytes(requests) \in Seq(Seq(Byte))
    BY <2>1, RequestsAppend
  <2>3. FlattenSeq(RequestsBytes(requests)) \in Seq(Byte)
    BY <2>2, FlattenType
  <2> QED BY <2>3 DEF StreamBytes, RequestsBytes
<1> QED BY <1>1, <1>2

\* One request more puts its bytes behind the stream.
LEMMA StreamAppend ==
    ASSUME NEW requests \in Seq(Requests), NEW request \in Requests
    PROVE  /\ Append(requests, request) \in Seq(Requests)
           /\ StreamBytes(requests) \in Seq(Byte)
           /\ RequestBytes(request) \in Seq(Byte)
           /\ StreamBytes(Append(requests, request)) =
                  StreamBytes(requests) \o RequestBytes(request)
<1>1. PICK longer \in Seq(Requests) : longer = Append(requests, request)
  BY AppendProperties
<1>2. PICK x \in Seq(Byte) : x = RequestBytes(request)
  BY RequestType
<1>3. PICK a \in Seq(Seq(Byte)) :
          a = RequestsBytes(requests) /\ RequestsBytes(longer) = Append(a, x)
  BY <1>1, <1>2, RequestsAppend
<1>4. FlattenSeq(Append(a, x)) = FlattenSeq(a) \o x
  BY FlattenAppend
<1>5. StreamBytes(requests) = FlattenSeq(a) /\ StreamBytes(longer) = FlattenSeq(Append(a, x))
  BY <1>3 DEF StreamBytes, RequestsBytes
<1>6. StreamBytes(requests) \in Seq(Byte)
  BY StreamType
<1> QED BY <1>1, <1>2, <1>4, <1>5, <1>6

\* The first requests of a stream begin its bytes.
LEMMA StreamGrows ==
    ASSUME NEW some \in Seq(Requests), NEW all \in Seq(Requests), Begins(some, all)
    PROVE  Begins(StreamBytes(some), StreamBytes(all))
<1> DEFINE P == {e \in Seq(Requests) : Begins(StreamBytes(some), StreamBytes(e))}
<1>1. PICK first \in Seq(Byte) : first = StreamBytes(some)
  BY StreamType
<1>2. some \in P
  BY <1>1, BeginsSelf
<1>3. ASSUME NEW e \in Seq(Requests), e \in P, Begins(e, all), Len(e) < Len(all)
      PROVE  Append(e, all[Len(e) + 1]) \in P
  <2>1. PICK request \in Requests : request = all[Len(e) + 1]
    BY <1>3, BeginsAppend
  <2>2. PICK x \in Seq(Byte), y \in Seq(Byte) :
            /\ x = StreamBytes(e)
            /\ y = RequestBytes(request)
            /\ StreamBytes(Append(e, request)) = x \o y
            /\ Append(e, request) \in Seq(Requests)
    BY StreamAppend
  <2>3. Begins(first, x) /\ Begins(x, x \o y) /\ x \o y \in Seq(Byte)
    BY <1>1, <1>3, <2>2, BeginsConcat, ConcatProperties
  <2>4. Begins(first, x \o y)
    BY <2>3, BeginsTransitive
  <2> QED BY <1>1, <2>1, <2>2, <2>4
<1> HIDE DEF P
<1>4. all \in P
  BY <1>2, <1>3, BeginningGrows
<1> QED BY <1>4 DEF P

-----------------------------------------------------------------------------
(* What read_next has returned.                                              *)

Results ==
    {EndOfInput} \cup {Failed(error) : error \in Errors}
        \cup {Request(cstrs) : cstrs \in Requests}

LEMMA ResultTypes ==
    /\ EndOfInput \in Results /\ EndOfInput.kind # "request"
    /\ \A error \in Errors : Failed(error) \in Results /\ Failed(error).kind # "request"
    /\ \A cstrs \in Requests : /\ Request(cstrs) \in Results
                               /\ Request(cstrs).kind = "request"
                               /\ Request(cstrs).cstrs = cstrs
    /\ \A result \in Results : result.kind = "request" => result.cstrs \in Requests
<1>1. EndOfInput.kind = "end"
  BY DEF EndOfInput
<1>2. \A cstrs : Request(cstrs).kind = "request" /\ Request(cstrs).cstrs = cstrs
  BY DEF Request
<1> QED BY <1>1, <1>2, ResultKinds DEF Results

\* The requests up to each result.
Takes(rs) ==
    [i \in 1 .. Len(rs) |->
        [v \in Seq(Requests) |->
            IF rs[i].kind = "request" THEN Append(v, rs[i].cstrs) ELSE v]]

LEMMA TakesAt ==
    ASSUME NEW rs \in Seq(Results), NEW i \in 1 .. Len(rs), NEW v \in Seq(Requests)
    PROVE  /\ Takes(rs)[i][v] =
                  IF rs[i].kind = "request" THEN Append(v, rs[i].cstrs) ELSE v
           /\ Takes(rs)[i][v] \in Seq(Requests)
<1>1. rs[i] \in Results
  BY ElementOfSeq
<1>2. rs[i].kind = "request" => Append(v, rs[i].cstrs) \in Seq(Requests)
  <2> SUFFICES ASSUME rs[i].kind = "request" PROVE Append(v, rs[i].cstrs) \in Seq(Requests)
    OBVIOUS
  <2>1. rs[i].cstrs \in Requests
    BY <1>1, ResultTypes
  <2> QED BY <2>1, AppendProperties
<1>3. Takes(rs)[i][v] = IF rs[i].kind = "request" THEN Append(v, rs[i].cstrs) ELSE v
  BY DEF Takes
<1> QED BY <1>2, <1>3

\* RequestsIn, result by result.
LEMMA RequestsUnroll ==
    ASSUME NEW rs \in Seq(Results)
    PROVE  \E taken \in [0 .. Len(rs) -> Seq(Requests)] :
               /\ Unrolls(taken, <<>>, Takes(rs), Len(rs))
               /\ RequestsIn(rs) = taken[Len(rs)]
<1>1. PICK n \in Nat : n = Len(rs)
  BY LenProperties
<1> DEFINE Is(f) == f = [i \in 0 .. n |->
                            IF i = 0 THEN <<>>
                            ELSE IF rs[i].kind = "request" THEN Append(f[i - 1], rs[i].cstrs)
                            ELSE f[i - 1]]
           chosen == CHOOSE f : Is(f)
<1>2. Takes(rs) \in [1 .. n -> [Seq(Requests) -> Seq(Requests)]]
  <2>1. \A i \in 1 .. n, v \in Seq(Requests) : Takes(rs)[i][v] \in Seq(Requests)
    BY <1>1, TakesAt
  <2>2. Takes(rs) = [i \in 1 .. n |-> Takes(rs)[i]]
    BY <1>1 DEF Takes
  <2>3. \A i \in 1 .. n : Takes(rs)[i] = [v \in Seq(Requests) |-> Takes(rs)[i][v]]
    BY <1>1 DEF Takes
  <2>4. \A i \in 1 .. n : Takes(rs)[i] \in [Seq(Requests) -> Seq(Requests)]
    BY <2>1, <2>3
  <2> QED BY <2>2, <2>4
<1>3. PICK f \in [0 .. n -> Seq(Requests)] : Unrolls(f, <<>>, Takes(rs), n)
  <2>1. <<>> \in Seq(Requests)
    OBVIOUS
  <2> QED BY <1>2, <2>1, UnrollsExists, Zenon
<1>4. \A i \in 1 .. n :
          f[i] = IF rs[i].kind = "request" THEN Append(f[i - 1], rs[i].cstrs) ELSE f[i - 1]
  <2> SUFFICES ASSUME NEW i \in 1 .. n
               PROVE  f[i] = IF rs[i].kind = "request" THEN Append(f[i - 1], rs[i].cstrs)
                             ELSE f[i - 1]
    OBVIOUS
  <2>1. f[i - 1] \in Seq(Requests)
    OBVIOUS
  <2>2. f[i] = Takes(rs)[i][f[i - 1]]
    BY <1>3 DEF Unrolls
  <2> QED BY <1>1, <2>1, <2>2, TakesAt
<1>5. f[0] = <<>>
  BY <1>3 DEF Unrolls
<1>6. Is(f)
  <2> DEFINE F == [i \in 0 .. n |->
                      IF i = 0 THEN <<>>
                      ELSE IF rs[i].kind = "request" THEN Append(f[i - 1], rs[i].cstrs)
                      ELSE f[i - 1]]
  <2>1. ASSUME NEW i \in 0 .. n
        PROVE  f[i] = F[i]
    <3>1. CASE i = 0
      BY <1>5, <3>1
    <3>2. CASE i # 0
      <4>1. i \in 1 .. n
        BY <3>2
      <4>2. F[i] = IF rs[i].kind = "request" THEN Append(f[i - 1], rs[i].cstrs) ELSE f[i - 1]
        BY <3>2
      <4> QED BY <1>4, <4>1, <4>2
    <3> QED BY <3>1, <3>2
  <2>2. DOMAIN F = 0 .. n /\ F = [i \in 0 .. n |-> F[i]]
    OBVIOUS
  <2> HIDE DEF F
  <2>3. f = [i \in 0 .. n |-> f[i]]
    OBVIOUS
  <2>4. f = F
    BY <2>1, <2>2, <2>3
  <2> QED BY <2>4 DEF F
<1>7. Is(chosen)
  BY <1>6
<1>8. RequestsIn(rs) = chosen[n]
  BY <1>1 DEF RequestsIn
<1> HIDE DEF chosen
<1>9. chosen = f
  <2> DEFINE S == {i \in Nat : i <= n => chosen[i] = f[i]}
  <2>1. 0 \in S
    BY <1>5, <1>7
  <2>2. ASSUME NEW i \in Nat, i \in S
        PROVE  i + 1 \in S
    <3> SUFFICES ASSUME i + 1 <= n PROVE chosen[i + 1] = f[i + 1]
      OBVIOUS
    <3>1. chosen[i] = f[i] /\ i + 1 \in 1 .. n /\ (i + 1) - 1 = i
      BY <2>2
    <3>2. chosen[i + 1] = IF rs[i + 1].kind = "request"
                          THEN Append(chosen[i], rs[i + 1].cstrs) ELSE chosen[i]
      <4>1. PICK m \in 1 .. n : m = i + 1 /\ m - 1 = i
        BY <3>1
      <4>2. m \in 0 .. n /\ m # 0
        OBVIOUS
      <4>3. chosen[m] = IF rs[m].kind = "request"
                        THEN Append(chosen[m - 1], rs[m].cstrs) ELSE chosen[m - 1]
        BY <1>7, <4>2
      <4> QED BY <4>1, <4>3
    <3>3. f[i + 1] = IF rs[i + 1].kind = "request"
                     THEN Append(f[i], rs[i + 1].cstrs) ELSE f[i]
      BY <1>4, <3>1
    <3> QED BY <3>1, <3>2, <3>3
  <2> HIDE DEF S
  <2>3. Nat \subseteq S
    BY <2>1, <2>2, Counting
  <2>4. \A i \in 0 .. n : chosen[i] = f[i]
    BY <2>3 DEF S
  <2> QED BY <1>7, <2>4
<1> QED BY <1>1, <1>3, <1>8, <1>9

LEMMA RequestsInType ==
    ASSUME NEW rs \in Seq(Results)
    PROVE  RequestsIn(rs) \in Seq(Requests)
<1>1. PICK n \in Nat : n = Len(rs)
  BY LenProperties
<1>2. PICK f \in [0 .. n -> Seq(Requests)] : RequestsIn(rs) = f[n]
  BY <1>1, RequestsUnroll
<1> QED BY <1>2

LEMMA RequestsInEmpty == RequestsIn(<<>>) = <<>>
<1>1. <<>> \in Seq(Results) /\ Len(<<>>) = 0
  OBVIOUS
<1>2. PICK f \in [0 .. 0 -> Seq(Requests)] :
          Unrolls(f, <<>>, Takes(<<>>), 0) /\ RequestsIn(<<>>) = f[0]
  BY <1>1, RequestsUnroll
<1> QED BY <1>2 DEF Unrolls

(* What a function returns on a member of its domain. *)
LEMMA ValueOfFunction ==
    ASSUME NEW D, NEW R, NEW h \in [D -> R], NEW d \in D
    PROVE  h[d] \in R
OBVIOUS

(* One result more. *)
LEMMA RequestsInAppend ==
    ASSUME NEW rs \in Seq(Results), NEW result \in Results
    PROVE  RequestsIn(Append(rs, result)) =
               IF result.kind = "request" THEN Append(RequestsIn(rs), result.cstrs)
               ELSE RequestsIn(rs)
<1>1. PICK n \in Nat : n = Len(rs)
  BY LenProperties
<1>2. PICK longer \in Seq(Results) : longer = Append(rs, result)
  BY AppendProperties
<1>3. Len(longer) = n + 1 /\ longer[n + 1] = result /\ \A i \in 1 .. n : longer[i] = rs[i]
  BY <1>1, <1>2, AppendProperties
<1>4. PICK f \in [0 .. n -> Seq(Requests)] :
          Unrolls(f, <<>>, Takes(rs), n) /\ RequestsIn(rs) = f[n]
  BY <1>1, RequestsUnroll
<1>5. PICK g \in [0 .. n + 1 -> Seq(Requests)] :
          Unrolls(g, <<>>, Takes(longer), n + 1) /\ RequestsIn(longer) = g[n + 1]
  BY <1>3, RequestsUnroll
<1>6. \A i \in 1 .. n :
          f[i] = IF rs[i].kind = "request" THEN Append(f[i - 1], rs[i].cstrs) ELSE f[i - 1]
  <2> SUFFICES ASSUME NEW i \in 1 .. n
               PROVE  f[i] = IF rs[i].kind = "request" THEN Append(f[i - 1], rs[i].cstrs)
                             ELSE f[i - 1]
    OBVIOUS
  <2>1. f[i - 1] \in Seq(Requests)
    OBVIOUS
  <2>2. f[i] = Takes(rs)[i][f[i - 1]]
    BY <1>4 DEF Unrolls
  <2> QED BY <1>1, <2>1, <2>2, TakesAt
<1>7. \A i \in 1 .. n + 1 :
          g[i] = IF longer[i].kind = "request" THEN Append(g[i - 1], longer[i].cstrs)
                 ELSE g[i - 1]
  <2> SUFFICES ASSUME NEW i \in 1 .. n + 1
               PROVE  g[i] = IF longer[i].kind = "request"
                             THEN Append(g[i - 1], longer[i].cstrs) ELSE g[i - 1]
    OBVIOUS
  <2>1. g[i - 1] \in Seq(Requests)
    <3>1. PICK j \in 0 .. n + 1 : j = i - 1
      OBVIOUS
    <3>2. g[j] \in Seq(Requests)
      BY ValueOfFunction
    <3> QED BY <3>1, <3>2
  <2>2. g[i] = Takes(longer)[i][g[i - 1]]
    BY <1>5 DEF Unrolls
  <2>3. i \in 1 .. Len(longer)
    BY <1>3
  <2>4. PICK before \in Seq(Requests) : before = g[i - 1]
    BY <2>1
  <2>5. Takes(longer)[i][before] =
            IF longer[i].kind = "request" THEN Append(before, longer[i].cstrs) ELSE before
    BY <2>3, TakesAt
  <2> QED BY <2>2, <2>4, <2>5
<1>8. f[0] = <<>> /\ g[0] = <<>>
  BY <1>4, <1>5 DEF Unrolls
<1> DEFINE S == {i \in Nat : i <= n => f[i] = g[i]}
<1>9. 0 \in S
  BY <1>8
<1>10. ASSUME NEW i \in Nat, i \in S
       PROVE  i + 1 \in S
  <2> SUFFICES ASSUME i + 1 <= n PROVE f[i + 1] = g[i + 1]
    OBVIOUS
  <2>1. f[i] = g[i] /\ i + 1 \in 1 .. n /\ i + 1 \in 1 .. n + 1 /\ (i + 1) - 1 = i
    BY <1>10
  <2>2. longer[i + 1] = rs[i + 1]
    BY <1>3, <2>1
  <2>3. f[i + 1] = IF rs[i + 1].kind = "request"
                   THEN Append(f[i], rs[i + 1].cstrs) ELSE f[i]
    BY <1>6, <2>1
  <2>4. g[i + 1] = IF longer[i + 1].kind = "request"
                   THEN Append(g[i], longer[i + 1].cstrs) ELSE g[i]
    BY <1>7, <2>1
  <2> QED BY <2>1, <2>2, <2>3, <2>4
<1> HIDE DEF S
<1>11. f[n] = g[n]
  <2>1. Nat \subseteq S
    BY <1>9, <1>10, Counting
  <2> QED BY <2>1 DEF S
<1>12. g[n + 1] = IF result.kind = "request" THEN Append(g[n], result.cstrs) ELSE g[n]
  <2>1. n + 1 \in 1 .. n + 1 /\ (n + 1) - 1 = n
    OBVIOUS
  <2> QED BY <1>3, <1>7, <2>1
<1> QED BY <1>2, <1>4, <1>5, <1>11, <1>12

-----------------------------------------------------------------------------
(* What is still to come when the requests in taken have come out: how many  *)
(* arguments the next request has, those of them that are sent, and all the  *)
(* bytes from its first one on.                                              *)

CountAfter(s, taken) ==
    IF Len(taken) < Len(s.sent) THEN Len(s.sent[Len(taken) + 1]) ELSE s.count

ArgumentsAfter(s, taken) ==
    IF Len(taken) < Len(s.sent) THEN s.sent[Len(taken) + 1] ELSE s.args

BytesAfter(s, taken) ==
    From(StreamBytes(s.sent) \o TailBytes(s), Len(StreamBytes(taken)))

(* The inductive invariant.  Every part of the decoder's place is told from  *)
(* the script and the number of requests that have come out: the buffer is   *)
(* a beginning of the bytes after them, the arguments taken are the first of *)
(* the next request's, and the cursor is where their bytes end.  A wait for  *)
(* bytes is a wait on a parsing step that had too few.                       *)

Place ==
    /\ expected_arg_count = None => args = <<>> /\ cursor = 0
    /\ expected_arg_count # None =>
           /\ expected_arg_count = CountAfter(script, Delivered)
           /\ args \in Seq(CStrings)
           /\ Begins(args, ArgumentsAfter(script, Delivered))
           /\ cursor = Len(Opening(expected_arg_count, args))
           /\ Begins(Opening(expected_arg_count, args), buffer)

Waits ==
    pc = "read" =>
        /\ ~poisoned
        /\ expected_arg_count = None => ArrayHeader = Incomplete
        /\ expected_arg_count # None => Len(args) < expected_arg_count /\ CStr = Incomplete

Ends ==
    \A i \in DOMAIN results :
        results[i].kind \in {"end", "error"} =>
            \/ results[i] = Failed("Io")
            \/ results[i] = script.verdict /\ Len(Delivered) = Len(script.sent)
            \/ poisoned /\ results[i] = Failed("Poisoned")

IInv ==
    /\ IsScript(script)
    /\ stream = StreamBytes(script.sent) \o TailBytes(script)
    /\ results \in Seq(Results)
    /\ Begins(Delivered, script.sent)
    /\ buffer \in Seq(Byte)
    /\ Begins(buffer, BytesAfter(script, Delivered))
    /\ pos = Len(StreamBytes(Delivered)) + Len(buffer)
    /\ poisoned \in BOOLEAN
    /\ pc \in {"decode", "read", "returned"}
    /\ Place
    /\ Waits
    /\ Ends

LEMMA TailType ==
    ASSUME NEW s, IsScript(s)
    PROVE  /\ s.sent \in Seq(Requests)
           /\ s.rest \in Seq(Byte)
           /\ TailBytes(s) \in Seq(Byte)
           /\ s.count = None => TailBytes(s) = s.rest
           /\ s.count # None => /\ s.count \in Nat /\ s.count \in 1 .. MaxArrayLength
                                /\ s.args \in Seq(CStrings)
                                /\ Len(s.args) < s.count
                                /\ Opening(s.count, s.args) \in Seq(Byte)
                                /\ TailBytes(s) = Opening(s.count, s.args) \o s.rest
<1>1. /\ s.sent \in Seq(Requests)
      /\ s.rest \in Seq(Byte)
      /\ s.count # None => /\ s.count \in 1 .. MaxArrayLength
                           /\ s.args \in Seq(CStrings)
                           /\ Len(s.args) < s.count
  BY DEF IsScript
<1>2. CASE s.count = None
  BY <1>1, <1>2 DEF TailBytes
<1>3. CASE s.count # None
  <2>1. s.count \in Nat /\ MaxArrayLength \in Nat
    BY <1>1, <1>3, SizeAssumption
  <2>2. PICK opening \in Seq(Byte) : opening = Opening(s.count, s.args)
    BY <1>1, <1>3, <2>1, OpeningType
  <2>3. opening \o s.rest \in Seq(Byte)
    BY <1>1, ConcatProperties
  <2> QED BY <1>1, <1>3, <2>1, <2>2, <2>3 DEF TailBytes
<1> QED BY <1>2, <1>3

\* What has come out are the first bytes of the stream.
LEMMA AfterBytes ==
    ASSUME NEW s, IsScript(s), NEW taken \in Seq(Requests), Begins(taken, s.sent)
    PROVE  \E whole \in Seq(Byte), x \in Seq(Byte) :
               /\ whole = StreamBytes(s.sent) \o TailBytes(s)
               /\ x = StreamBytes(taken)
               /\ Begins(x, whole)
               /\ BytesAfter(s, taken) = From(whole, Len(x))
               /\ BytesAfter(s, taken) \in Seq(Byte)
               /\ Len(BytesAfter(s, taken)) = Len(whole) - Len(x)
<1>1. PICK all \in Seq(Byte), tail \in Seq(Byte), x \in Seq(Byte) :
          all = StreamBytes(s.sent) /\ tail = TailBytes(s) /\ x = StreamBytes(taken)
  BY TailType, StreamType
<1>2. PICK whole \in Seq(Byte) : whole = all \o tail /\ Begins(all, whole)
  BY ConcatProperties, BeginsConcat
<1>3. Begins(x, all)
  BY <1>1, TailType, StreamGrows
<1>4. Begins(x, whole)
  BY <1>2, <1>3, BeginsTransitive
<1>5. Len(x) \in 0 .. Len(whole)
  BY <1>4, LenProperties DEF Begins
<1>6. From(whole, Len(x)) \in Seq(Byte) /\ Len(From(whole, Len(x))) = Len(whole) - Len(x)
  BY <1>5, FromProperties
<1>7. BytesAfter(s, taken) = From(whole, Len(x))
  BY <1>1, <1>2 DEF BytesAfter
<1> QED BY <1>1, <1>2, <1>4, <1>6, <1>7

\* Another request.
LEMMA AfterSome ==
    ASSUME NEW s, IsScript(s), NEW taken \in Seq(Requests), Begins(taken, s.sent),
           Len(taken) < Len(s.sent)
    PROVE  \E request \in Requests :
               /\ request = s.sent[Len(taken) + 1]
               /\ request \in Seq(CStrings)
               /\ Len(request) \in 0 .. MaxArrayLength
               /\ CountAfter(s, taken) = Len(request)
               /\ CountAfter(s, taken) # None
               /\ ArgumentsAfter(s, taken) = request
               /\ RequestBytes(request) \in Seq(Byte)
               /\ RequestBytes(request) = Opening(Len(request), request)
               /\ Append(taken, request) \in Seq(Requests)
               /\ Begins(Append(taken, request), s.sent)
               /\ StreamBytes(Append(taken, request)) = StreamBytes(taken) \o RequestBytes(request)
               /\ Begins(RequestBytes(request), BytesAfter(s, taken))
<1>1. s.sent \in Seq(Requests)
  BY TailType
<1>2. PICK request \in Requests :
          /\ request = s.sent[Len(taken) + 1]
          /\ Append(taken, request) \in Seq(Requests)
          /\ Begins(Append(taken, request), s.sent)
  BY <1>1, BeginsAppend
<1>3. request \in Seq(CStrings) /\ Len(request) \in 0 .. MaxArrayLength
  BY CStringsType
<1>4. Len(request) # None
  BY <1>3, LenProperties, SizeAssumption
<1>5. CountAfter(s, taken) = Len(request) /\ ArgumentsAfter(s, taken) = request
  BY <1>2 DEF CountAfter, ArgumentsAfter
<1>6. PICK longer \in Seq(Requests) : longer = Append(taken, request) /\ Begins(longer, s.sent)
  BY <1>2
<1>7. PICK y \in Seq(Byte) : y = RequestBytes(request)
  BY RequestType
<1>8. PICK whole \in Seq(Byte), x \in Seq(Byte) :
          /\ x = StreamBytes(taken)
          /\ BytesAfter(s, taken) = From(whole, Len(x))
          /\ whole = StreamBytes(s.sent) \o TailBytes(s)
  BY AfterBytes
<1>9. StreamBytes(longer) = x \o y
  BY <1>6, <1>7, <1>8, StreamAppend
<1>10. Begins(StreamBytes(longer), whole)
  BY <1>6, <1>8, AfterBytes
<1>11. PICK w \in Seq(Byte) : w = x \o y
  BY ConcatProperties
<1>12. Begins(From(w, Len(x)), From(whole, Len(x)))
  <2>1. Len(x) \in 0 .. Len(w)
    <3>1. Len(w) = Len(x) + Len(y) /\ Len(x) \in Nat /\ Len(y) \in Nat
      BY <1>11, ConcatProperties, LenProperties
    <3> QED BY <3>1
  <2>2. Begins(w, whole)
    BY <1>9, <1>10, <1>11
  <2> QED BY <2>1, <2>2, BeginsFrom
<1>13. From(w, Len(x)) = y
  BY <1>11, FromConcat
<1>14. Begins(RequestBytes(request), BytesAfter(s, taken))
  BY <1>7, <1>8, <1>12, <1>13
<1>15. RequestBytes(request) = Opening(Len(request), request)
  BY DEF RequestBytes
<1>16. StreamBytes(Append(taken, request)) = StreamBytes(taken) \o RequestBytes(request)
  BY <1>6, <1>7, <1>8, <1>9
<1> HIDE DEF RequestBytes
<1> QED BY <1>2, <1>3, <1>4, <1>5, <1>7, <1>14, <1>15, <1>16

\* No other request.
LEMMA AfterAll ==
    ASSUME NEW s, IsScript(s), NEW taken \in Seq(Requests), Begins(taken, s.sent),
           ~(Len(taken) < Len(s.sent))
    PROVE  /\ taken = s.sent
           /\ CountAfter(s, taken) = s.count
           /\ ArgumentsAfter(s, taken) = s.args
           /\ BytesAfter(s, taken) = TailBytes(s)
<1>1. s.sent \in Seq(Requests)
  BY TailType
<1>2. Len(s.sent) <= Len(taken)
  BY <1>1, LenProperties
<1>3. taken = s.sent
  BY <1>1, <1>2, BeginsEqual
<1>4. PICK all \in Seq(Byte), tail \in Seq(Byte) :
          all = StreamBytes(s.sent) /\ tail = TailBytes(s)
  BY TailType, StreamType
<1>5. From(all \o tail, Len(all)) = tail
  BY FromConcat
<1> QED BY <1>3, <1>4, <1>5 DEF CountAfter, ArgumentsAfter, BytesAfter

\* The arguments of the next request open the bytes still to come.
LEMMA After ==
    ASSUME NEW s, IsScript(s), NEW taken \in Seq(Requests), Begins(taken, s.sent),
           CountAfter(s, taken) # None
    PROVE  /\ CountAfter(s, taken) \in 0 .. MaxArrayLength
           /\ CountAfter(s, taken) \in Nat
           /\ ArgumentsAfter(s, taken) \in Seq(CStrings)
           /\ Len(ArgumentsAfter(s, taken)) <= CountAfter(s, taken)
           /\ Begins(Opening(CountAfter(s, taken), ArgumentsAfter(s, taken)),
                     BytesAfter(s, taken))
<1>1. CASE Len(taken) < Len(s.sent)
  <2>1. PICK request \in Requests :
            /\ request \in Seq(CStrings)
            /\ Len(request) \in 0 .. MaxArrayLength
            /\ CountAfter(s, taken) = Len(request)
            /\ ArgumentsAfter(s, taken) = request
            /\ RequestBytes(request) = Opening(Len(request), request)
            /\ Begins(RequestBytes(request), BytesAfter(s, taken))
    BY <1>1, AfterSome
  <2>2. Len(request) \in Nat /\ Len(request) <= Len(request)
    BY <2>1, LenProperties
  <2> QED BY <2>1, <2>2
<1>2. CASE ~(Len(taken) < Len(s.sent))
  <2>1. /\ CountAfter(s, taken) = s.count
        /\ ArgumentsAfter(s, taken) = s.args
        /\ BytesAfter(s, taken) = TailBytes(s)
    BY <1>2, AfterAll
  <2>2. PICK opening \in Seq(Byte), rest \in Seq(Byte) :
            /\ s.count \in Nat /\ s.count \in 1 .. MaxArrayLength
            /\ s.args \in Seq(CStrings)
            /\ Len(s.args) < s.count
            /\ opening = Opening(s.count, s.args)
            /\ TailBytes(s) = opening \o rest
    BY <2>1, TailType
  <2>3. Begins(opening, opening \o rest)
    BY BeginsConcat
  <2>4. s.count \in 0 .. MaxArrayLength /\ Len(s.args) <= s.count
    BY <2>2, LenProperties, SizeAssumption
  <2> QED BY <2>1, <2>2, <2>3, <2>4
<1> QED BY <1>1, <1>2

-----------------------------------------------------------------------------
(* The parsing steps, on a beginning of what is still to come.               *)

HeaderOn(bytes) ==
    ParseHeader(bytes, ArrayByte, MaxArrayLength, "ExpectedArray", "ArrayTooLong")

LEMMA HeaderOnResult ==
    ASSUME NEW bytes \in Seq(Byte), HeaderOn(bytes).kind # "parsed",
           HeaderOn(bytes) # Incomplete
    PROVE  \E error \in Errors : HeaderOn(bytes) = Failed(error)
<1>1. "ExpectedArray" \in Errors /\ "ArrayTooLong" \in Errors
  BY DEF Errors
<1>2. \/ HeaderOn(bytes) = Incomplete
      \/ \E error \in Errors : HeaderOn(bytes) = Failed(error)
      \/ \E n \in 0 .. MaxArrayLength, num \in 1 .. Len(bytes) : HeaderOn(bytes) = Parsed(n, num)
  BY <1>1, SizeAssumption, HeaderResult DEF HeaderOn
<1> QED BY <1>2, ResultKinds

\* What the assumption on the scripts says of one of them.
LEMMA Verdict ==
    ASSUME NEW s, IsScript(s)
    PROVE  /\ RestParsed(s).kind # "parsed"
           /\ s.count = None => RestParsed(s) = HeaderOn(s.rest)
           /\ s.count # None => RestParsed(s) = ParseCStr(s.rest)
           /\ RestParsed(s) # Incomplete => s.verdict = RestParsed(s)
           /\ RestParsed(s) = Incomplete =>
                  s.verdict = IF TailBytes(s) = <<>> THEN EndOfInput
                              ELSE Failed("UnexpectedEof")
<1>1. /\ RestParsed(s).kind # "parsed"
      /\ s.verdict = IF RestParsed(s) # Incomplete THEN RestParsed(s)
                     ELSE IF TailBytes(s) = <<>> THEN EndOfInput
                     ELSE Failed("UnexpectedEof")
  BY DEF IsScript
<1>2. /\ s.count = None => RestParsed(s) = HeaderOn(s.rest)
      /\ s.count # None => RestParsed(s) = ParseCStr(s.rest)
  BY DEF RestParsed, HeaderOn
<1> QED BY <1>1, <1>2

(* A header, where one is to come. *)
LEMMA HeaderOfNext ==
    ASSUME NEW s, IsScript(s), NEW taken \in Seq(Requests), Begins(taken, s.sent),
           NEW bytes \in Seq(Byte), Begins(bytes, BytesAfter(s, taken)),
           CountAfter(s, taken) # None
    PROVE  LET count == CountAfter(s, taken)
               opening == Opening(count, <<>>)
           IN  /\ opening \in Seq(Byte)
               /\ Begins(opening, BytesAfter(s, taken))
               /\ Len(bytes) < Len(opening) => HeaderOn(bytes) = Incomplete
               /\ ~(Len(bytes) < Len(opening)) =>
                      /\ Begins(opening, bytes)
                      /\ HeaderOn(bytes) = Parsed(count, Len(opening))
<1>1. PICK count \in Nat, cstrs \in Seq(CStrings), coming \in Seq(Byte) :
          /\ count = CountAfter(s, taken) /\ count \in 0 .. MaxArrayLength
          /\ cstrs = ArgumentsAfter(s, taken)
          /\ coming = BytesAfter(s, taken)
          /\ Begins(Opening(count, cstrs), coming)
  BY After, AfterBytes
<1>2. PICK opening \in Seq(Byte) :
          /\ opening = Opening(count, <<>>)
          /\ opening = LineBytes(ArrayByte, Decimal[count])
  <2>1. <<>> \in Seq(CStrings)
    OBVIOUS
  <2> QED BY <2>1, OpeningEmpty, OpeningType
<1>3. Begins(opening, coming)
  <2>1. <<>> \in Seq(CStrings) /\ Begins(<<>>, cstrs)
    BY BeginsEmpty
  <2>2. PICK whole \in Seq(Byte) : whole = Opening(count, cstrs)
    BY OpeningType
  <2>3. Begins(opening, whole)
    BY <1>2, <2>1, <2>2, OpeningGrows
  <2> QED BY <1>1, <2>2, <2>3, BeginsTransitive
<1>4. ArrayByte \in Byte /\ ArrayByte # CR
  BY DEF ArrayByte, Byte, CR
<1>5. PICK n \in Nat, m \in Nat : n = Len(opening) /\ m = Len(bytes)
  BY LenProperties
<1>6. Begins(bytes, coming)
  BY <1>1
<1>7. CASE m < n
  <2>1. Begins(bytes, opening)
    BY <1>3, <1>5, <1>6, <1>7, BeginsComparable
  <2>2. Begins(bytes, LineBytes(ArrayByte, Decimal[count]))
    BY <1>2, <2>1
  <2>3. Len(bytes) < Len(LineBytes(ArrayByte, Decimal[count]))
    BY <1>2, <1>5, <1>7
  <2>4. HeaderOn(bytes) = Incomplete
    BY <1>4, <2>2, <2>3, HeaderWaits DEF HeaderOn
  <2> QED BY <1>1, <1>2, <1>3, <1>5, <1>7, <2>4
<1>8. CASE ~(m < n)
  <2>1. Begins(opening, bytes)
    BY <1>3, <1>5, <1>6, <1>8, BeginsComparable
  <2>2. Begins(LineBytes(ArrayByte, Decimal[count]), bytes)
    BY <1>2, <2>1
  <2>3. HeaderOn(bytes) = Parsed(count, Len(LineBytes(ArrayByte, Decimal[count])))
    <3>1. MaxArrayLength \in Nat
      BY SizeAssumption
    <3>2. count \in 0 .. MaxArrayLength
      BY <1>1
    <3>3. ParseHeader(bytes, ArrayByte, MaxArrayLength, "ExpectedArray", "ArrayTooLong")
            = Parsed(count, Len(LineBytes(ArrayByte, Decimal[count])))
      BY <1>4, <2>2, <3>1, <3>2, HeaderComes
    <3> QED BY <3>3, Zenon DEF HeaderOn
  <2> QED BY <1>1, <1>2, <1>3, <1>5, <1>8, <2>1, <2>3
<1> QED BY <1>7, <1>8

(* Where no header is to come, what there is ends as the script says. *)
LEMMA HeaderOfLast ==
    ASSUME NEW s, IsScript(s), NEW taken \in Seq(Requests), Begins(taken, s.sent),
           NEW bytes \in Seq(Byte), Begins(bytes, BytesAfter(s, taken)),
           CountAfter(s, taken) = None
    PROVE  /\ Len(taken) = Len(s.sent)
           /\ HeaderOn(bytes).kind # "parsed"
           /\ HeaderOn(bytes) # Incomplete =>
                  /\ HeaderOn(bytes) = s.verdict
                  /\ \E error \in Errors : HeaderOn(bytes) = Failed(error)
           /\ bytes = BytesAfter(s, taken) /\ HeaderOn(bytes) = Incomplete =>
                  s.verdict = IF bytes = <<>> THEN EndOfInput ELSE Failed("UnexpectedEof")
<1>1. ~(Len(taken) < Len(s.sent))
  BY AfterSome
<1>2. taken = s.sent /\ s.count = None /\ BytesAfter(s, taken) = TailBytes(s)
  BY <1>1, AfterAll
<1>3. PICK rest \in Seq(Byte) : rest = s.rest /\ BytesAfter(s, taken) = rest
  BY <1>2, TailType
<1>4. RestParsed(s) = HeaderOn(rest)
  BY <1>2, <1>3, Verdict
<1>5. ASSUME HeaderOn(bytes) # Incomplete
      PROVE  HeaderOn(rest) = HeaderOn(bytes)
  <2>1. Begins(bytes, rest)
    BY <1>3
  <2> QED BY <1>5, <2>1, HeaderStays DEF HeaderOn
<1>6. HeaderOn(bytes).kind # "parsed"
  <2>1. CASE HeaderOn(bytes) = Incomplete
    BY <2>1, ResultKinds
  <2>2. CASE HeaderOn(bytes) # Incomplete
    BY <1>4, <1>5, <2>2, Verdict
  <2> QED BY <2>1, <2>2
<1>7. ASSUME HeaderOn(bytes) # Incomplete
      PROVE  /\ HeaderOn(bytes) = s.verdict
             /\ \E error \in Errors : HeaderOn(bytes) = Failed(error)
  <2>1. RestParsed(s) = HeaderOn(bytes)
    BY <1>4, <1>5, <1>7
  <2>2. s.verdict = HeaderOn(bytes)
    BY <1>7, <2>1, Verdict
  <2> QED BY <1>6, <1>7, <2>2, HeaderOnResult
<1>8. ASSUME bytes = BytesAfter(s, taken), HeaderOn(bytes) = Incomplete
      PROVE  s.verdict = IF bytes = <<>> THEN EndOfInput ELSE Failed("UnexpectedEof")
  <2>1. bytes = TailBytes(s) /\ bytes = rest
    BY <1>2, <1>3, <1>8
  <2>2. RestParsed(s) = Incomplete
    BY <1>4, <1>8, <2>1
  <2>3. s.verdict = IF TailBytes(s) = <<>> THEN EndOfInput ELSE Failed("UnexpectedEof")
    BY <2>2, Verdict
  <2> QED BY <2>1, <2>3
<1> QED BY <1>2, <1>6, <1>7, <1>8

(* The next argument, where one is to come. *)
ArgumentComes(s, taken, bytes, count, cstrs, data) ==
    LET b == From(bytes, Len(Opening(count, cstrs)))
        longer == Append(cstrs, data)
    IN  /\ longer \in Seq(CStrings)
        /\ Len(longer) = Len(cstrs) + 1
        /\ Begins(longer, ArgumentsAfter(s, taken))
        /\ Opening(count, longer) \in Seq(Byte)
        /\ Begins(Opening(count, longer), BytesAfter(s, taken))
        /\ Len(Opening(count, longer)) =
               Len(Opening(count, cstrs)) + Len(CStringBytes(data))
        /\ Len(bytes) < Len(Opening(count, longer)) => ParseCStr(b) = Incomplete
        /\ ~(Len(bytes) < Len(Opening(count, longer))) =>
               /\ Begins(Opening(count, longer), bytes)
               /\ ParseCStr(b) = Parsed(data, Len(CStringBytes(data)))

\* The bytes of the next argument are read as that argument, or waited for.
LEMMA ArgumentOfNext ==
    ASSUME NEW s, IsScript(s), NEW taken \in Seq(Requests), Begins(taken, s.sent),
           NEW bytes \in Seq(Byte), Begins(bytes, BytesAfter(s, taken)),
           NEW count, count # None, count = CountAfter(s, taken),
           NEW cstrs \in Seq(CStrings), Begins(cstrs, ArgumentsAfter(s, taken)),
           Begins(Opening(count, cstrs), bytes),
           Len(cstrs) < Len(ArgumentsAfter(s, taken))
    PROVE  \E data \in CStrings :
               ArgumentComes(s, taken, bytes, count, cstrs, data)
<1>1. PICK all \in Seq(CStrings), coming \in Seq(Byte) :
          /\ all = ArgumentsAfter(s, taken)
          /\ coming = BytesAfter(s, taken)
          /\ count \in Nat
          /\ Begins(Opening(count, all), coming)
  BY After, AfterBytes
<1>2. Begins(cstrs, all) /\ Len(cstrs) < Len(all) /\ Begins(bytes, coming)
  BY <1>1
<1>3. PICK data \in CStrings, longer \in Seq(CStrings) :
          /\ data = all[Len(cstrs) + 1]
          /\ longer = Append(cstrs, data)
          /\ Len(longer) = Len(cstrs) + 1
          /\ Begins(longer, all)
  BY <1>2, BeginsAppend
<1>4. PICK x \in Seq(Byte), y \in Seq(Byte), z \in Seq(Byte) :
          /\ x = Opening(count, cstrs)
          /\ y = CStringBytes(data)
          /\ z = Opening(count, longer)
          /\ z = x \o y
  <2>1. PICK x \in Seq(Byte), y \in Seq(Byte) :
            /\ x = Opening(count, cstrs)
            /\ y = CStringBytes(data)
            /\ Opening(count, Append(cstrs, data)) = x \o y
    <3>1. /\ Opening(count, cstrs) \in Seq(Byte)
          /\ CStringBytes(data) \in Seq(Byte)
          /\ Opening(count, Append(cstrs, data)) =
                 Opening(count, cstrs) \o CStringBytes(data)
      BY <1>1, OpeningAppend
    <3> QED BY <3>1
  <2>2. PICK z \in Seq(Byte) : z = Opening(count, longer)
    BY <1>1, OpeningType
  <2> QED BY <1>3, <2>1, <2>2
<1>5. Len(z) = Len(x) + Len(y) /\ Len(x) \in Nat /\ Len(y) \in Nat /\ Len(bytes) \in Nat
  BY <1>4, ConcatProperties, LenProperties
<1>6. Begins(z, coming)
  <2>1. PICK whole \in Seq(Byte) : whole = Opening(count, all)
    BY <1>1, OpeningType
  <2>2. Begins(z, whole)
    BY <1>1, <1>3, <1>4, <2>1, OpeningGrows
  <2> QED BY <1>1, <2>1, <2>2, BeginsTransitive
<1>7. Begins(x, bytes) /\ Len(x) \in 0 .. Len(bytes)
  BY <1>4, <1>5 DEF Begins
<1>8. PICK b \in Seq(Byte) : b = From(bytes, Len(x)) /\ Len(b) = Len(bytes) - Len(x)
  BY <1>7, FromProperties
<1>9. CASE Len(bytes) < Len(z)
  <2>1. Begins(bytes, z)
    BY <1>2, <1>5, <1>6, <1>9, BeginsComparable
  <2>2. Begins(bytes, x \o y) /\ Len(bytes) >= Len(x)
    BY <1>4, <1>5, <1>7, <2>1
  <2>3. Begins(b, y)
    BY <1>8, <2>2, BeginsLong
  <2>4. Len(b) < Len(y)
    BY <1>5, <1>8, <1>9
  <2>5. ParseCStr(b) = Incomplete
    BY <1>4, <2>3, <2>4, CStrWaits
  <2> QED BY <1>1, <1>3, <1>4, <1>5, <1>6, <1>8, <1>9, <2>5 DEF ArgumentComes
<1>10. CASE ~(Len(bytes) < Len(z))
  <2>1. Begins(z, bytes)
    BY <1>2, <1>5, <1>6, <1>10, BeginsComparable
  <2>2. Begins(y, b)
    <3>1. Len(x) \in 0 .. Len(z)
      BY <1>5
    <3>2. Begins(From(z, Len(x)), From(bytes, Len(x)))
      BY <2>1, <3>1, BeginsFrom
    <3>3. From(z, Len(x)) = y
      BY <1>4, FromConcat
    <3> QED BY <1>8, <3>2, <3>3
  <2>3. ParseCStr(b) = Parsed(data, Len(y))
    BY <1>4, <2>2, CStrComes
  <2> QED BY <1>1, <1>3, <1>4, <1>5, <1>6, <1>8, <1>10, <2>1, <2>3 DEF ArgumentComes
<1> QED BY <1>9, <1>10

(* Where no argument is to come, what there is ends as the script says. *)
LEMMA ArgumentOfLast ==
    ASSUME NEW s, IsScript(s), NEW taken \in Seq(Requests), Begins(taken, s.sent),
           NEW bytes \in Seq(Byte), Begins(bytes, BytesAfter(s, taken)),
           NEW count, count # None, count = CountAfter(s, taken),
           NEW cstrs \in Seq(CStrings), Begins(cstrs, ArgumentsAfter(s, taken)),
           Begins(Opening(count, cstrs), bytes),
           Len(cstrs) < count, ~(Len(cstrs) < Len(ArgumentsAfter(s, taken)))
    PROVE  LET b == From(bytes, Len(Opening(count, cstrs)))
           IN  /\ Len(taken) = Len(s.sent)
               /\ ParseCStr(b).kind # "parsed"
               /\ ParseCStr(b) # Incomplete =>
                      /\ ParseCStr(b) = s.verdict
                      /\ \E error \in Errors : ParseCStr(b) = Failed(error)
               /\ bytes = BytesAfter(s, taken) /\ ParseCStr(b) = Incomplete =>
                      s.verdict = IF bytes = <<>> THEN EndOfInput ELSE Failed("UnexpectedEof")
<1>1. PICK all \in Seq(CStrings), coming \in Seq(Byte) :
          /\ all = ArgumentsAfter(s, taken)
          /\ coming = BytesAfter(s, taken)
          /\ count \in Nat
  BY After, AfterBytes
<1>2. cstrs = all
  <2>1. Begins(cstrs, all) /\ Len(all) <= Len(cstrs)
    BY <1>1, LenProperties
  <2> QED BY <2>1, BeginsEqual
<1>3. ~(Len(taken) < Len(s.sent))
  <2> SUFFICES ASSUME Len(taken) < Len(s.sent) PROVE FALSE
    OBVIOUS
  <2>1. PICK request \in Requests :
            CountAfter(s, taken) = Len(request) /\ ArgumentsAfter(s, taken) = request
    BY AfterSome
  <2>2. count = Len(cstrs)
    BY <1>1, <1>2, <2>1
  <2> QED BY <1>1, <2>2
<1>4. taken = s.sent /\ s.count = count /\ s.args = cstrs /\ coming = TailBytes(s)
  BY <1>1, <1>2, <1>3, AfterAll
<1>5. PICK opening \in Seq(Byte), rest \in Seq(Byte) :
          /\ opening = Opening(count, cstrs)
          /\ rest = s.rest
          /\ coming = opening \o rest
  BY <1>4, TailType
<1>6. Begins(opening, bytes) /\ Begins(bytes, coming) /\ Len(opening) \in 0 .. Len(bytes)
  <2>1. Begins(opening, bytes) /\ Begins(bytes, coming)
    BY <1>1, <1>5
  <2> QED BY <2>1, LenProperties DEF Begins
<1>7. PICK b \in Seq(Byte) : b = From(bytes, Len(opening))
  BY <1>6, FromProperties
<1>8. From(coming, Len(opening)) = rest
  BY <1>5, FromConcat
<1>9. Begins(b, rest)
  <2>1. Begins(From(bytes, Len(opening)), From(coming, Len(opening)))
    BY <1>6, BeginsFrom
  <2> QED BY <1>7, <1>8, <2>1
<1>10. RestParsed(s) = ParseCStr(rest)
  BY <1>4, <1>5, Verdict
<1>11. ASSUME ParseCStr(b) # Incomplete
       PROVE  ParseCStr(rest) = ParseCStr(b)
  BY <1>9, <1>11, CStrStays
<1>12. ParseCStr(b).kind # "parsed"
  <2>1. CASE ParseCStr(b) = Incomplete
    BY <2>1, ResultKinds
  <2>2. CASE ParseCStr(b) # Incomplete
    BY <1>10, <1>11, <2>2, Verdict
  <2> QED BY <2>1, <2>2
<1>13. ASSUME ParseCStr(b) # Incomplete
       PROVE  /\ ParseCStr(b) = s.verdict
              /\ \E error \in Errors : ParseCStr(b) = Failed(error)
  <2>1. RestParsed(s) = ParseCStr(b)
    BY <1>10, <1>11, <1>13
  <2>2. s.verdict = ParseCStr(b)
    BY <1>13, <2>1, Verdict
  <2>3. \/ ParseCStr(b) = Incomplete
        \/ \E error \in Errors : ParseCStr(b) = Failed(error)
        \/ \E data \in Seq(Byte), num \in 1 .. Len(b) : ParseCStr(b) = Parsed(data, num)
    BY CStrResult
  <2> QED BY <1>12, <1>13, <2>2, <2>3, ResultKinds
<1>14. ASSUME bytes = coming, ParseCStr(b) = Incomplete
       PROVE  s.verdict = IF bytes = <<>> THEN EndOfInput ELSE Failed("UnexpectedEof")
  <2>1. b = rest
    BY <1>7, <1>8, <1>14
  <2>2. RestParsed(s) = Incomplete
    BY <1>10, <1>14, <2>1
  <2>3. s.verdict = IF TailBytes(s) = <<>> THEN EndOfInput ELSE Failed("UnexpectedEof")
    BY <2>2, Verdict
  <2> QED BY <1>4, <1>14, <2>3
<1> QED BY <1>1, <1>4, <1>5, <1>7, <1>12, <1>13, <1>14

-----------------------------------------------------------------------------
(* The invariant is kept.                                                    *)

LEMMA Taken ==
    ASSUME IInv
    PROVE  /\ Delivered \in Seq(Requests)
           /\ Len(Delivered) \in Nat
           /\ Len(buffer) \in Nat
           /\ StreamBytes(Delivered) \in Seq(Byte)
           /\ Len(StreamBytes(Delivered)) \in Nat
           /\ BytesAfter(script, Delivered) \in Seq(Byte)
           /\ ArrayHeader = HeaderOn(buffer)
<1>1. Delivered \in Seq(Requests)
  BY RequestsInType DEF IInv, Delivered
<1>2. BytesAfter(script, Delivered) \in Seq(Byte)
  BY <1>1, AfterBytes DEF IInv
<1>3. StreamBytes(Delivered) \in Seq(Byte)
  BY <1>1, StreamType
<1>4. ArrayHeader = HeaderOn(buffer)
  BY DEF ArrayHeader, HeaderOn
<1> QED BY <1>1, <1>2, <1>3, <1>4, LenProperties DEF IInv

\* The buffer as a beginning of what is still to come.
LEMMA Coming ==
    ASSUME IInv
    PROVE  \E whole \in Seq(Byte), x \in Seq(Byte), coming \in Seq(Byte) :
               /\ whole = stream
               /\ x = StreamBytes(Delivered)
               /\ coming = BytesAfter(script, Delivered)
               /\ Begins(x, whole)
               /\ coming = From(whole, Len(x))
               /\ Len(coming) = Len(whole) - Len(x)
               /\ Len(whole) \in Nat /\ Len(x) \in 0 .. Len(whole)
               /\ buffer \in Seq(Byte) /\ Len(buffer) \in Nat
               /\ Begins(buffer, coming)
               /\ pos = Len(x) + Len(buffer)
<1>1. /\ IsScript(script)
      /\ stream = StreamBytes(script.sent) \o TailBytes(script)
      /\ Delivered \in Seq(Requests) /\ Begins(Delivered, script.sent)
      /\ buffer \in Seq(Byte) /\ Len(buffer) \in Nat
      /\ Begins(buffer, BytesAfter(script, Delivered))
      /\ pos = Len(StreamBytes(Delivered)) + Len(buffer)
  BY Taken DEF IInv
<1>2. \E whole \in Seq(Byte), x \in Seq(Byte) :
          /\ whole = StreamBytes(script.sent) \o TailBytes(script)
          /\ x = StreamBytes(Delivered)
          /\ Begins(x, whole)
          /\ BytesAfter(script, Delivered) = From(whole, Len(x))
          /\ BytesAfter(script, Delivered) \in Seq(Byte)
          /\ Len(BytesAfter(script, Delivered)) = Len(whole) - Len(x)
  BY <1>1, AfterBytes
<1>3. PICK whole \in Seq(Byte), x \in Seq(Byte) :
          /\ whole = stream
          /\ x = StreamBytes(Delivered)
          /\ Begins(x, whole)
          /\ BytesAfter(script, Delivered) = From(whole, Len(x))
          /\ BytesAfter(script, Delivered) \in Seq(Byte)
          /\ Len(BytesAfter(script, Delivered)) = Len(whole) - Len(x)
  BY <1>1, <1>2
<1>4. PICK coming \in Seq(Byte) : coming = BytesAfter(script, Delivered)
  BY <1>3
<1>5. Len(whole) \in Nat /\ Len(x) \in 0 .. Len(whole)
  BY <1>3, LenProperties DEF Begins
<1> QED BY <1>1, <1>3, <1>4, <1>5

\* What the invariant says of a request that is being read.
LEMMA Inside ==
    ASSUME IInv, expected_arg_count # None
    PROVE  /\ expected_arg_count \in Nat
           /\ expected_arg_count \in 0 .. MaxArrayLength
           /\ expected_arg_count = CountAfter(script, Delivered)
           /\ args \in Seq(CStrings)
           /\ Len(args) \in Nat
           /\ Begins(args, ArgumentsAfter(script, Delivered))
           /\ Len(args) <= expected_arg_count
           /\ Opening(expected_arg_count, args) \in Seq(Byte)
           /\ cursor = Len(Opening(expected_arg_count, args))
           /\ cursor \in Nat /\ cursor \in 0 .. Len(buffer)
           /\ Begins(Opening(expected_arg_count, args), buffer)
           /\ CStr = ParseCStr(From(buffer, cursor))
<1>1. /\ expected_arg_count = CountAfter(script, Delivered)
      /\ args \in Seq(CStrings)
      /\ Begins(args, ArgumentsAfter(script, Delivered))
      /\ cursor = Len(Opening(expected_arg_count, args))
      /\ Begins(Opening(expected_arg_count, args), buffer)
  BY DEF IInv, Place
<1>2. /\ expected_arg_count \in 0 .. MaxArrayLength
      /\ expected_arg_count \in Nat
      /\ ArgumentsAfter(script, Delivered) \in Seq(CStrings)
      /\ Len(ArgumentsAfter(script, Delivered)) <= expected_arg_count
  BY <1>1, Taken, After DEF IInv
<1>3. Len(args) \in Nat /\ Len(args) <= expected_arg_count
  BY <1>1, <1>2, LenProperties DEF Begins
<1>4. PICK opening \in Seq(Byte) : opening = Opening(expected_arg_count, args)
  BY <1>1, <1>2, OpeningType
<1>5. cursor \in Nat /\ cursor \in 0 .. Len(buffer)
  <2>1. cursor = Len(opening) /\ Len(opening) <= Len(buffer)
    BY <1>1, <1>4 DEF Begins
  <2> QED BY <2>1, Taken, LenProperties
<1>6. CStr = ParseCStr(From(buffer, cursor))
  <2>1. CASE cursor >= Len(buffer)
    <3>1. cursor = Len(buffer) /\ Len(buffer) \in Nat
      BY <1>5, <2>1, Taken
    <3>2. /\ From(buffer, cursor) \in Seq(Byte)
          /\ Len(From(buffer, cursor)) = Len(buffer) - cursor
      BY <1>5, FromProperties DEF IInv
    <3> DEFINE b == From(buffer, cursor)
    <3> HIDE DEF b
    <3>3. CrlfPositions(b) = {}
      <4>1. Len(b) = 0
        BY <3>1, <3>2 DEF b
      <4> QED BY <4>1 DEF CrlfPositions
    <3>4. CStrHeader(b) = Incomplete
      BY <3>3 DEF CStrHeader, ParseHeader, ParseLine
    <3>5. ParseCStr(b) = Incomplete
      <4>1. CStrHeader(b).kind # "parsed"
        BY <3>4, ResultKinds
      <4> QED BY <3>4, <4>1, CStrOfNoHeader
    <3> QED BY <2>1, <3>5 DEF CStr, b
  <2>2. CASE ~(cursor >= Len(buffer))
    BY <2>2 DEF CStr
  <2> QED BY <2>1, <2>2
<1> QED BY <1>1, <1>2, <1>3, <1>4, <1>5, <1>6

\* A new reader, before the first byte of a script.
Fresh ==
    /\ IsScript(script)
    /\ stream = StreamBytes(script.sent) \o TailBytes(script)
    /\ pos = 0
    /\ buffer = <<>>
    /\ cursor = 0
    /\ expected_arg_count = None
    /\ args = <<>>
    /\ poisoned = FALSE
    /\ pc = "decode"
    /\ results = <<>>

LEMMA FreshInv ==
    Fresh => IInv /\ Delivered = <<>>
<1> SUFFICES ASSUME Fresh PROVE IInv /\ Delivered = <<>>
  OBVIOUS
<1>1. /\ IsScript(script) /\ stream = StreamBytes(script.sent) \o TailBytes(script)
      /\ pos = 0 /\ buffer = <<>> /\ cursor = 0 /\ expected_arg_count = None /\ args = <<>>
      /\ poisoned = FALSE /\ pc = "decode" /\ results = <<>>
  BY DEF Fresh
<1>2. Delivered = <<>> /\ <<>> \in Seq(Requests)
  BY <1>1, RequestsInEmpty DEF Delivered
<1>3. Begins(Delivered, script.sent)
  BY <1>1, <1>2, TailType, BeginsEmpty
<1>4. BytesAfter(script, Delivered) \in Seq(Byte)
  BY <1>1, <1>2, <1>3, AfterBytes
<1>5. buffer \in Seq(Byte) /\ Begins(buffer, BytesAfter(script, Delivered))
  BY <1>1, <1>4, BeginsEmpty
<1>6. pos = Len(StreamBytes(Delivered)) + Len(buffer)
  <2>1. Len(<<>>) = 0
    OBVIOUS
  <2> QED BY <1>1, <1>2, <2>1, StreamEmpty
<1>7. results \in Seq(Results)
  BY <1>1
<1>8. Place /\ Waits
  BY <1>1 DEF Place, Waits
<1>9. Ends
  BY <1>1 DEF Ends
<1> QED BY <1>1, <1>2, <1>3, <1>5, <1>6, <1>7, <1>8, <1>9 DEF IInv

LEMMA InitInv == Init => IInv
<1>1. Init => Fresh
  BY ScriptAssumption DEF Init, Fresh
<1> QED BY <1>1, FreshInv

\* A result that is no request is returned.
LEMMA ReturnKeeps ==
    ASSUME IInv, NEW result \in Results, result.kind # "request", Return(result),
           UNCHANGED <<script, stream, pos, buffer, cursor, expected_arg_count, args>>,
           poisoned' \in BOOLEAN, poisoned => poisoned',
           \/ result = Failed("Io")
           \/ result = script.verdict /\ Len(Delivered) = Len(script.sent)
           \/ poisoned' /\ result = Failed("Poisoned")
    PROVE  IInv'
<1>1. results' = Append(results, result) /\ pc' = "returned" /\ results \in Seq(Results)
  BY DEF Return, IInv
<1>2. results' \in Seq(Results)
  BY <1>1, AppendProperties
<1>3. Delivered' = Delivered
  BY <1>1, RequestsInAppend DEF Delivered
<1>4. Place'
  BY <1>3 DEF IInv, Place
<1>5. Waits'
  BY <1>1 DEF Waits
<1>6. Ends'
  <2> SUFFICES ASSUME NEW i \in DOMAIN results', results'[i].kind \in {"end", "error"}
               PROVE  \/ results'[i] = Failed("Io")
                      \/ results'[i] = script.verdict /\ Len(Delivered) = Len(script.sent)
                      \/ poisoned' /\ results'[i] = Failed("Poisoned")
    BY <1>3 DEF Ends
  <2>1. PICK m \in Nat : m = Len(results) /\ DOMAIN results = 1 .. m
    BY <1>1, LenProperties
  <2>2. /\ DOMAIN results' = 1 .. m + 1
        /\ results'[m + 1] = result
        /\ \A j \in 1 .. m : results'[j] = results[j]
    <3>1. Len(results') = m + 1
      BY <1>1, <2>1, AppendProperties
    <3> QED BY <1>1, <1>2, <2>1, <3>1, AppendProperties, LenProperties
  <2>3. CASE i = m + 1
    BY <2>2, <2>3
  <2>4. CASE i # m + 1
    <3>1. i \in DOMAIN results /\ results'[i] = results[i]
      BY <2>1, <2>2, <2>4
    <3> QED BY <3>1 DEF IInv, Ends
  <2> QED BY <2>3, <2>4
<1>7. /\ IsScript(script')
      /\ stream' = StreamBytes(script'.sent) \o TailBytes(script')
      /\ Begins(Delivered', script'.sent)
      /\ buffer' \in Seq(Byte)
      /\ Begins(buffer', BytesAfter(script', Delivered'))
      /\ pos' = Len(StreamBytes(Delivered')) + Len(buffer')
      /\ pc' \in {"decode", "read", "returned"}
  BY <1>1, <1>3 DEF IInv
<1> QED BY <1>2, <1>4, <1>5, <1>6, <1>7 DEF IInv

\* Nothing but the place of the reading changes.
LEMMA PcKeeps ==
    ASSUME IInv, UNCHANGED <<script, stream, pos, decoder, results>>,
           pc' \in {"decode", "read", "returned"}, pc' = "read" => Waits'
    PROVE  IInv'
<1>1. Delivered' = Delivered
  BY DEF Delivered
<1>2. Place'
  BY <1>1 DEF IInv, Place, decoder
<1>3. Waits'
  BY DEF Waits
<1>4. Ends'
  BY <1>1 DEF IInv, Ends, decoder
<1>5. /\ IsScript(script')
      /\ stream' = StreamBytes(script'.sent) \o TailBytes(script')
      /\ results' \in Seq(Results)
      /\ Begins(Delivered', script'.sent)
      /\ buffer' \in Seq(Byte)
      /\ Begins(buffer', BytesAfter(script', Delivered'))
      /\ pos' = Len(StreamBytes(Delivered')) + Len(buffer')
      /\ poisoned' \in BOOLEAN
  BY <1>1 DEF IInv, decoder
<1> QED BY <1>2, <1>3, <1>4, <1>5 DEF IInv

\* Bytes that are no header are the end of what was sent.
LEMMA HeaderRefused ==
    ASSUME IInv, ArrayHeader.kind # "parsed", ArrayHeader # Incomplete
    PROVE  /\ Len(Delivered) = Len(script.sent)
           /\ ArrayHeader = script.verdict
           /\ \E error \in Errors : ArrayHeader = Failed(error)
<1>1. /\ IsScript(script)
      /\ Delivered \in Seq(Requests) /\ Begins(Delivered, script.sent)
      /\ buffer \in Seq(Byte) /\ Begins(buffer, BytesAfter(script, Delivered))
      /\ ArrayHeader = HeaderOn(buffer)
  BY Taken DEF IInv
<1>2. CountAfter(script, Delivered) = None
  BY <1>1, HeaderOfNext, ResultKinds
<1> QED BY <1>1, <1>2, HeaderOfLast

\* DecodeArrayHeader keeps the invariant.
LEMMA HeaderKeeps ==
    ASSUME IInv, DecodeArrayHeader
    PROVE  IInv'
<1>1. /\ pc = "decode" /\ ~poisoned /\ expected_arg_count = None
      /\ args = <<>> /\ cursor = 0
      /\ UNCHANGED <<script, stream, pos, buffer, args>>
  BY DEF DecodeArrayHeader, Decoding, NoData, IInv, Place
<1>2. /\ IsScript(script)
      /\ Delivered \in Seq(Requests) /\ Begins(Delivered, script.sent)
      /\ buffer \in Seq(Byte) /\ Begins(buffer, BytesAfter(script, Delivered))
      /\ ArrayHeader = HeaderOn(buffer)
  BY Taken DEF IInv
<1>3. CASE NoData(ArrayHeader)
  <2>1. CASE ArrayHeader = Incomplete
    <3>1. pc' = "read" /\ UNCHANGED <<script, stream, pos, decoder, results>>
      BY <1>3, <2>1 DEF NoData, decoder
    <3>2. Waits'
      BY <1>1, <2>1, <3>1 DEF Waits, ArrayHeader, decoder
    <3> QED BY <3>1, <3>2, PcKeeps
  <2>2. CASE ArrayHeader # Incomplete
    <3>1. ArrayHeader.kind # "parsed"
      BY <1>3 DEF NoData
    <3>3. /\ Len(Delivered) = Len(script.sent)
          /\ ArrayHeader = script.verdict
          /\ \E error \in Errors : ArrayHeader = Failed(error)
      BY <2>2, <3>1, HeaderRefused
    <3>4. PICK error \in Errors : ArrayHeader = Failed(error)
      BY <3>3
    <3>5. PICK result \in Results :
              /\ result = Failed(error) /\ result.kind # "request"
              /\ Return(result)
              /\ result = script.verdict
      <4>1. Failed(error) \in Results /\ Failed(error).kind # "request"
        BY ResultTypes
      <4>2. Return(Failed(error)) /\ Failed(error) = script.verdict
        BY <1>3, <2>2, <3>3, <3>4 DEF NoData
      <4> QED BY <4>1, <4>2
    <3>6. /\ UNCHANGED <<script, stream, pos, buffer, cursor, expected_arg_count, args>>
          /\ poisoned' = TRUE
      BY <1>3, <2>2 DEF NoData
    <3> QED BY <3>3, <3>5, <3>6, ReturnKeeps
  <2> QED BY <2>1, <2>2
<1>4. CASE /\ ArrayHeader.kind = "parsed"
           /\ expected_arg_count' = ArrayHeader.data
           /\ cursor' = ArrayHeader.num_bytes_parsed
           /\ UNCHANGED <<script, stream, pos, buffer, args, poisoned, pc, results>>
  <2>1. CountAfter(script, Delivered) # None
    BY <1>2, <1>4, HeaderOfLast
  <2>2. PICK count : count = CountAfter(script, Delivered) /\ count # None
    BY <2>1
  <2>3. /\ Begins(Opening(count, <<>>), buffer)
        /\ HeaderOn(buffer) = Parsed(count, Len(Opening(count, <<>>)))
    BY <1>2, <1>4, <2>2, HeaderOfNext, ResultKinds
  <2>4. expected_arg_count' = count /\ cursor' = Len(Opening(count, <<>>))
    BY <1>2, <1>4, <2>3, ResultKinds
  <2>5. Delivered' = Delivered
    BY <1>4 DEF Delivered
  <2>6. Begins(<<>>, ArgumentsAfter(script, Delivered)) /\ <<>> \in Seq(CStrings)
    <3>1. ArgumentsAfter(script, Delivered) \in Seq(CStrings)
      BY <1>2, <2>1, After
    <3> QED BY <3>1, BeginsEmpty
  <2>7. Place'
    BY <1>1, <1>4, <2>2, <2>3, <2>4, <2>5, <2>6 DEF Place
  <2>8. Waits' /\ pc' = "decode"
    BY <1>1, <1>4 DEF Waits
  <2>9. Ends'
    BY <1>4, <2>5 DEF IInv, Ends
  <2> QED BY <1>4, <2>5, <2>7, <2>8, <2>9 DEF IInv
<1> QED BY <1>3, <1>4 DEF DecodeArrayHeader

\* Bytes that are no argument are the end of what was sent.
LEMMA ArgumentRefused ==
    ASSUME IInv, expected_arg_count # None, Len(args) < expected_arg_count,
           CStr.kind # "parsed", CStr # Incomplete
    PROVE  /\ Len(Delivered) = Len(script.sent)
           /\ CStr = script.verdict
           /\ \E error \in Errors : CStr = Failed(error)
<1>1. /\ IsScript(script)
      /\ Delivered \in Seq(Requests) /\ Begins(Delivered, script.sent)
      /\ buffer \in Seq(Byte) /\ Begins(buffer, BytesAfter(script, Delivered))
  BY Taken DEF IInv
<1>2. PICK count \in Nat, cstrs \in Seq(CStrings) :
          /\ count = expected_arg_count /\ cstrs = args
          /\ count # None /\ count = CountAfter(script, Delivered)
          /\ Begins(cstrs, ArgumentsAfter(script, Delivered))
          /\ Begins(Opening(count, cstrs), buffer)
          /\ Len(cstrs) < count
          /\ CStr = ParseCStr(From(buffer, Len(Opening(count, cstrs))))
  BY Inside
<1>3. ~(Len(cstrs) < Len(ArgumentsAfter(script, Delivered)))
  <2> SUFFICES ASSUME Len(cstrs) < Len(ArgumentsAfter(script, Delivered)) PROVE FALSE
    OBVIOUS
  <2>1. PICK data \in CStrings :
            \/ ParseCStr(From(buffer, Len(Opening(count, cstrs)))) = Incomplete
            \/ ParseCStr(From(buffer, Len(Opening(count, cstrs)))) =
                   Parsed(data, Len(CStringBytes(data)))
    BY <1>1, <1>2, ArgumentOfNext DEF ArgumentComes
  <2> QED BY <1>2, <2>1, ResultKinds
<1> QED BY <1>1, <1>2, <1>3, ArgumentOfLast

\* DecodeArgument keeps it: the argument taken is the next one sent.
LEMMA ArgumentKeeps ==
    ASSUME IInv, DecodeArgument
    PROVE  IInv'
<1>1. /\ pc = "decode" /\ ~poisoned /\ expected_arg_count # None
      /\ Len(args) < expected_arg_count
      /\ UNCHANGED <<script, stream, pos, buffer, expected_arg_count>>
  BY DEF DecodeArgument, Decoding, NoData
<1>2. /\ IsScript(script)
      /\ Delivered \in Seq(Requests) /\ Begins(Delivered, script.sent)
      /\ buffer \in Seq(Byte) /\ Begins(buffer, BytesAfter(script, Delivered))
  BY Taken DEF IInv
<1>3. /\ expected_arg_count \in Nat
      /\ expected_arg_count = CountAfter(script, Delivered)
      /\ args \in Seq(CStrings)
      /\ Begins(args, ArgumentsAfter(script, Delivered))
      /\ cursor = Len(Opening(expected_arg_count, args))
      /\ Begins(Opening(expected_arg_count, args), buffer)
      /\ CStr = ParseCStr(From(buffer, cursor))
  BY <1>1, Inside
<1>4. PICK count \in Nat, cstrs \in Seq(CStrings) :
          /\ count = expected_arg_count /\ cstrs = args
          /\ count # None /\ count = CountAfter(script, Delivered)
          /\ Begins(cstrs, ArgumentsAfter(script, Delivered))
          /\ cursor = Len(Opening(count, cstrs))
          /\ Begins(Opening(count, cstrs), buffer)
          /\ Len(cstrs) < count
  BY <1>1, <1>3
<1>5. CASE NoData(CStr)
  <2>1. CASE CStr = Incomplete
    <3>1. pc' = "read" /\ UNCHANGED <<script, stream, pos, decoder, results>>
      BY <1>5, <2>1 DEF NoData, decoder
    <3>2. CStr' = CStr
      BY <3>1 DEF CStr, decoder
    <3>3. Waits'
      BY <1>1, <2>1, <3>1, <3>2 DEF Waits, decoder
    <3> QED BY <3>1, <3>3, PcKeeps
  <2>2. CASE CStr # Incomplete
    <3>1. CStr.kind # "parsed"
      BY <1>5 DEF NoData
    <3>3. /\ Len(Delivered) = Len(script.sent)
          /\ CStr = script.verdict
          /\ \E error \in Errors : CStr = Failed(error)
      BY <1>1, <2>2, <3>1, ArgumentRefused
    <3>4. PICK error \in Errors : CStr = Failed(error)
      BY <3>3
    <3>5. PICK result \in Results :
              /\ result = Failed(error) /\ result.kind # "request"
              /\ Return(result)
              /\ result = script.verdict
      <4>1. Failed(error) \in Results /\ Failed(error).kind # "request"
        BY ResultTypes
      <4>2. Return(Failed(error)) /\ Failed(error) = script.verdict
        BY <1>5, <2>2, <3>3, <3>4 DEF NoData
      <4> QED BY <4>1, <4>2
    <3>6. /\ UNCHANGED <<script, stream, pos, buffer, cursor, expected_arg_count, args>>
          /\ poisoned' = TRUE
      BY <1>5, <2>2 DEF NoData
    <3> QED BY <3>3, <3>5, <3>6, ReturnKeeps
  <2> QED BY <2>1, <2>2
<1>6. CASE /\ CStr.kind = "parsed"
           /\ args' = Append(args, CStr.data)
           /\ cursor' = cursor + CStr.num_bytes_parsed
           /\ UNCHANGED <<script, stream, pos, buffer, expected_arg_count, poisoned,
                          pc, results>>
  <2>1. Len(cstrs) < Len(ArgumentsAfter(script, Delivered))
    <3> SUFFICES ASSUME ~(Len(cstrs) < Len(ArgumentsAfter(script, Delivered))) PROVE FALSE
      OBVIOUS
    <3>1. ParseCStr(From(buffer, Len(Opening(count, cstrs)))).kind # "parsed"
      BY <1>2, <1>4, ArgumentOfLast
    <3> QED BY <1>3, <1>4, <1>6, <3>1
  <2>2. PICK data \in CStrings :
            ArgumentComes(script, Delivered, buffer, count, cstrs, data)
    BY <1>2, <1>4, <2>1, ArgumentOfNext
  <2>3. /\ Begins(Opening(count, Append(cstrs, data)), buffer)
        /\ CStr = Parsed(data, Len(CStringBytes(data)))
    BY <1>3, <1>4, <1>6, <2>2, ResultKinds DEF ArgumentComes
  <2>4. PICK longer \in Seq(CStrings) :
            /\ longer = Append(cstrs, data)
            /\ args' = longer
            /\ cursor' = Len(Opening(count, longer))
            /\ Begins(longer, ArgumentsAfter(script, Delivered))
    <3>1. CStr.data = data /\ CStr.num_bytes_parsed = Len(CStringBytes(data))
      BY <2>3, ResultKinds
    <3>2. args' = Append(cstrs, data) /\ cursor' = cursor + Len(CStringBytes(data))
      BY <1>4, <1>6, <3>1
    <3>3. /\ Append(cstrs, data) \in Seq(CStrings)
          /\ Begins(Append(cstrs, data), ArgumentsAfter(script, Delivered))
          /\ Len(Opening(count, Append(cstrs, data))) =
                 Len(Opening(count, cstrs)) + Len(CStringBytes(data))
      BY <2>2 DEF ArgumentComes
    <3> QED BY <1>4, <3>2, <3>3
  <2>5. Delivered' = Delivered
    BY <1>6 DEF Delivered
  <2>6. Place'
    BY <1>1, <1>4, <1>6, <2>3, <2>4, <2>5 DEF Place
  <2>7. Waits' /\ pc' = "decode"
    BY <1>1, <1>6 DEF Waits
  <2>8. Ends'
    BY <1>6, <2>5 DEF IInv, Ends
  <2> QED BY <1>6, <2>5, <2>6, <2>7, <2>8 DEF IInv
<1> QED BY <1>5, <1>6 DEF DecodeArgument

\* TakeRequest keeps it: the cursor stands at the end of the request.
LEMMA TakeKeeps ==
    ASSUME IInv, TakeRequest
    PROVE  /\ IInv'
           /\ Delivered' = Append(Delivered, args)
<1>1. /\ expected_arg_count # None /\ Len(args) = expected_arg_count
      /\ buffer' = From(buffer, cursor) /\ cursor' = 0
      /\ expected_arg_count' = None /\ args' = <<>>
      /\ pc' = "returned" /\ results' = Append(results, Request(args))
      /\ UNCHANGED <<script, stream, pos, poisoned>>
  BY DEF TakeRequest, Return
<1>2. /\ IsScript(script) /\ results \in Seq(Results)
      /\ Delivered \in Seq(Requests) /\ Begins(Delivered, script.sent)
      /\ buffer \in Seq(Byte) /\ Begins(buffer, BytesAfter(script, Delivered))
      /\ Len(buffer) \in Nat
  BY Taken DEF IInv
<1>3. /\ expected_arg_count \in Nat
      /\ expected_arg_count = CountAfter(script, Delivered)
      /\ args \in Seq(CStrings)
      /\ Begins(args, ArgumentsAfter(script, Delivered))
      /\ cursor = Len(Opening(expected_arg_count, args))
      /\ cursor \in Nat /\ cursor \in 0 .. Len(buffer)
  BY <1>1, Inside
<1>4. Len(Delivered) < Len(script.sent)
  <2> SUFFICES ASSUME ~(Len(Delivered) < Len(script.sent)) PROVE FALSE
    OBVIOUS
  <2>1. script.count = expected_arg_count /\ ArgumentsAfter(script, Delivered) = script.args
    BY <1>2, <1>3, AfterAll
  <2>2. Len(script.args) < expected_arg_count /\ script.args \in Seq(CStrings)
    BY <1>1, <1>2, <2>1, TailType
  <2>3. Len(args) <= Len(script.args)
    BY <1>3, <2>1 DEF Begins
  <2> QED BY <1>1, <1>3, <2>2, <2>3, LenProperties
<1>5. PICK request \in Requests :
          /\ request \in Seq(CStrings)
          /\ CountAfter(script, Delivered) = Len(request)
          /\ ArgumentsAfter(script, Delivered) = request
          /\ RequestBytes(request) \in Seq(Byte)
          /\ RequestBytes(request) = Opening(Len(request), request)
          /\ Append(Delivered, request) \in Seq(Requests)
          /\ Begins(Append(Delivered, request), script.sent)
          /\ StreamBytes(Append(Delivered, request)) =
                 StreamBytes(Delivered) \o RequestBytes(request)
  BY <1>2, <1>4, AfterSome
<1>6. args = request
  <2>1. Begins(args, request) /\ Len(request) <= Len(args)
    BY <1>1, <1>3, <1>5
  <2> QED BY <1>3, <1>5, <2>1, BeginsEqual
<1>7. Request(args) \in Results /\ Request(args).kind = "request" /\ Request(args).cstrs = args
  BY <1>5, <1>6, ResultTypes
<1>8. Delivered' = Append(Delivered, request)
  <2>1. PICK result \in Results :
            result = Request(args) /\ result.kind = "request" /\ result.cstrs = request
    BY <1>6, <1>7
  <2>2. RequestsIn(Append(results, result)) = Append(RequestsIn(results), request)
    BY <1>2, <2>1, RequestsInAppend
  <2> QED BY <1>1, <2>1, <2>2 DEF Delivered
<1>9. results' \in Seq(Results)
  BY <1>1, <1>2, <1>7, AppendProperties
<1>10. PICK whole \in Seq(Byte), x \in Seq(Byte), coming \in Seq(Byte), y \in Seq(Byte) :
          /\ whole = stream
          /\ x = StreamBytes(Delivered)
          /\ coming = BytesAfter(script, Delivered)
          /\ coming = From(whole, Len(x))
          /\ Begins(buffer, coming)
          /\ pos = Len(x) + Len(buffer)
          /\ y = RequestBytes(request)
  BY <1>5, Coming
<1>11. PICK longer \in Seq(Requests), xy \in Seq(Byte) :
          /\ longer = Append(Delivered, request)
          /\ xy = x \o y
          /\ StreamBytes(longer) = xy
          /\ Len(xy) = Len(x) + Len(y) /\ Len(x) \in Nat /\ Len(y) \in Nat
  <2>1. x \o y \in Seq(Byte) /\ Len(x \o y) = Len(x) + Len(y)
    BY ConcatProperties
  <2> QED BY <1>5, <1>10, <2>1, LenProperties
<1>12. Begins(xy, whole)
  <2>1. Begins(longer, script.sent)
    BY <1>5, <1>11
  <2>2. Begins(StreamBytes(longer), StreamBytes(script.sent) \o TailBytes(script))
    BY <1>2, <2>1, AfterBytes
  <2> QED BY <1>10, <1>11, <2>2 DEF IInv
<1>13. Len(y) = cursor
  BY <1>3, <1>5, <1>6, <1>10
<1>14. BytesAfter(script, longer) = From(From(whole, Len(x)), cursor)
  <2>1. Len(x) + cursor <= Len(whole)
    <3>1. Len(xy) <= Len(whole)
      BY <1>12 DEF Begins
    <3> QED BY <1>11, <1>13, <3>1
  <2>2. From(From(whole, Len(x)), cursor) = From(whole, Len(x) + cursor)
    BY <1>3, <1>11, <2>1, FromFrom
  <2>3. whole = StreamBytes(script.sent) \o TailBytes(script)
    BY <1>10 DEF IInv
  <2> QED BY <1>11, <1>13, <2>2, <2>3 DEF BytesAfter
<1>15. Begins(buffer', BytesAfter(script, longer)) /\ buffer' \in Seq(Byte)
  <2>1. Begins(From(buffer, cursor), From(coming, cursor))
    BY <1>2, <1>3, <1>10, BeginsFrom
  <2>2. From(buffer, cursor) \in Seq(Byte)
    BY <1>2, <1>3, FromProperties
  <2> QED BY <1>1, <1>10, <1>14, <2>1, <2>2
<1>16. pos' = Len(StreamBytes(Delivered')) + Len(buffer')
  <2>1. Len(buffer') = Len(buffer) - cursor
    BY <1>1, <1>2, <1>3, FromProperties
  <2>2. pos = Len(x) + Len(buffer)
    BY <1>10
  <2>3. Len(StreamBytes(Delivered')) = Len(x) + cursor
    BY <1>8, <1>11, <1>13
  <2>4. pos' = pos /\ cursor \in Nat /\ Len(x) \in Nat /\ Len(buffer) \in Nat
    BY <1>1, <1>2, <1>3, <1>11
  <2> QED BY <2>1, <2>2, <2>3, <2>4
<1>17. Place' /\ Waits'
  BY <1>1 DEF Place, Waits
<1>18. Ends'
  <2> SUFFICES ASSUME NEW i \in DOMAIN results', results'[i].kind \in {"end", "error"}
               PROVE  \/ results'[i] = Failed("Io")
                      \/ poisoned /\ results'[i] = Failed("Poisoned")
    BY <1>1 DEF Ends
  <2>1. PICK m \in Nat : m = Len(results) /\ DOMAIN results = 1 .. m
    BY <1>2, LenProperties
  <2>2. /\ DOMAIN results' = 1 .. m + 1
        /\ results'[m + 1] = Request(args)
        /\ \A j \in 1 .. m : results'[j] = results[j]
    <3>1. Len(results') = m + 1
      BY <1>1, <1>2, <1>7, <2>1, AppendProperties
    <3> QED BY <1>1, <1>2, <1>7, <1>9, <2>1, <3>1, AppendProperties, LenProperties
  <2>3. i # m + 1
    BY <1>7, <2>2
  <2>4. i \in DOMAIN results /\ results'[i] = results[i]
    <3>1. i \in 1 .. m + 1
      BY <2>2
    <3>2. i \in 1 .. m
      BY <2>1, <2>3, <3>1
    <3> QED BY <2>1, <2>2, <3>2
  <2>5. Len(Delivered) # Len(script.sent)
    BY <1>2, <1>4, LenProperties
  <2> QED BY <2>4, <2>5 DEF IInv, Ends
<1>19. /\ IsScript(script')
       /\ stream' = StreamBytes(script'.sent) \o TailBytes(script')
       /\ Begins(Delivered', script'.sent)
       /\ Begins(buffer', BytesAfter(script', Delivered'))
       /\ poisoned' \in BOOLEAN /\ pc' \in {"decode", "read", "returned"}
  BY <1>1, <1>5, <1>8, <1>11, <1>15 DEF IInv
<1> QED BY <1>6, <1>8, <1>9, <1>15, <1>16, <1>17, <1>18, <1>19 DEF IInv

\* Read keeps it: the bytes read are those that come next.
LEMMA ReadKeeps ==
    ASSUME IInv, NEW n \in 1 .. ReadChunkSize, Read(n)
    PROVE  IInv'
<1>1. /\ pos + n <= Len(stream)
      /\ buffer' = buffer \o SubSeq(stream, pos + 1, pos + n)
      /\ pos' = pos + n
      /\ pc' = "decode"
      /\ UNCHANGED <<script, stream, cursor, expected_arg_count, args, poisoned, results>>
      /\ n \in Nat
  BY SizeAssumption DEF Read
<1>2. /\ IsScript(script)
      /\ Delivered \in Seq(Requests) /\ Begins(Delivered, script.sent)
      /\ buffer \in Seq(Byte) /\ Len(buffer) \in Nat
      /\ pos = Len(StreamBytes(Delivered)) + Len(buffer)
  BY Taken DEF IInv
<1>3. PICK whole \in Seq(Byte), x \in Seq(Byte), coming \in Seq(Byte) :
          /\ whole = stream
          /\ x = StreamBytes(Delivered)
          /\ coming = BytesAfter(script, Delivered)
          /\ coming = From(whole, Len(x))
          /\ Len(coming) = Len(whole) - Len(x)
          /\ Len(whole) \in Nat /\ Len(x) \in 0 .. Len(whole)
          /\ Begins(buffer, coming)
  BY Coming
<1>4. PICK p \in Nat, q \in Nat : p = pos /\ q = pos + n /\ p = Len(x) + Len(buffer)
  BY <1>1, <1>2, <1>3
<1>5. PICK d \in Seq(Byte) : /\ d = SubSeq(whole, p + 1, q)
                             /\ Len(d) = n
                             /\ \A i \in 1 .. n : d[i] = whole[p + i]
  <2>1. p <= q /\ q <= Len(whole) /\ q - p = n
    BY <1>1, <1>3, <1>4
  <2>2. /\ SubSeq(whole, p + 1, q) \in Seq(Byte)
        /\ Len(SubSeq(whole, p + 1, q)) = q - p
        /\ \A i \in 1 .. q - p : SubSeq(whole, p + 1, q)[i] = whole[p + i]
    BY <2>1, SliceProperties
  <2> QED BY <2>1, <2>2
<1>6. buffer' = buffer \o d
  BY <1>1, <1>3, <1>4, <1>5
<1>7. buffer' \in Seq(Byte) /\ Len(buffer') = Len(buffer) + n
  BY <1>2, <1>5, <1>6, ConcatProperties
<1>8. Begins(buffer', coming)
  <2>1. Len(buffer) + Len(d) <= Len(coming)
    BY <1>1, <1>2, <1>3, <1>4, <1>5
  <2>2. ASSUME NEW i \in 1 .. Len(d)
        PROVE  d[i] = coming[Len(buffer) + i]
    <3>1. Len(buffer) + i \in 1 .. Len(whole) - Len(x) /\ i \in 1 .. n
      BY <1>2, <1>3, <1>5, <2>1
    <3>2. coming[Len(buffer) + i] = whole[Len(x) + (Len(buffer) + i)]
      <4>1. PICK k \in 0 .. Len(whole) : k = Len(x)
        BY <1>3
      <4>2. /\ From(whole, k) \in Seq(Byte)
            /\ Len(From(whole, k)) = Len(whole) - k
            /\ \A j \in 1 .. Len(whole) - k : From(whole, k)[j] = whole[k + j]
        BY FromProperties, Zenon
      <4>3. coming = From(whole, k)
        BY <1>3, <4>1
      <4> QED BY <3>1, <4>1, <4>2, <4>3
    <3>3. Len(x) + (Len(buffer) + i) = p + i
      BY <1>2, <1>3, <1>4
    <3> QED BY <1>5, <3>1, <3>2, <3>3
  <2> QED BY <1>2, <1>3, <1>6, <2>1, <2>2, BeginsFurther
<1>9. Delivered' = Delivered
  BY <1>1 DEF Delivered
<1>10. Place'
  <2>1. CASE expected_arg_count = None
    BY <1>1, <2>1 DEF IInv, Place
  <2>2. CASE expected_arg_count # None
    <3>1. PICK opening \in Seq(Byte) :
              opening = Opening(expected_arg_count, args) /\ Begins(opening, buffer)
      BY <2>2, Inside
    <3>2. Begins(buffer, buffer \o d) /\ buffer \o d \in Seq(Byte)
      BY <1>2, <1>6, <1>7, BeginsConcat
    <3>3. Begins(opening, buffer \o d)
      BY <1>2, <3>1, <3>2, BeginsTransitive
    <3> QED BY <1>1, <1>6, <1>9, <2>2, <3>1, <3>3 DEF IInv, Place
  <2> QED BY <2>1, <2>2
<1>11. Waits'
  BY <1>1 DEF Waits
<1>12. Ends'
  BY <1>1, <1>9 DEF IInv, Ends
<1>13. pos' = Len(StreamBytes(Delivered')) + Len(buffer')
  BY <1>1, <1>2, <1>3, <1>7, <1>9
<1>14. /\ IsScript(script')
       /\ stream' = StreamBytes(script'.sent) \o TailBytes(script')
       /\ results' \in Seq(Results)
       /\ Begins(Delivered', script'.sent)
       /\ Begins(buffer', BytesAfter(script', Delivered'))
       /\ poisoned' \in BOOLEAN /\ pc' \in {"decode", "read", "returned"}
  BY <1>1, <1>3, <1>8, <1>9 DEF IInv
<1> QED BY <1>7, <1>10, <1>11, <1>12, <1>13, <1>14 DEF IInv

\* A reader that waits although all the bytes it has begin with opening has
\* taken more than opening: it waits within what is no whole request.
LEMMA EndOfBytes ==
    ASSUME IInv, pc = "read", buffer = BytesAfter(script, Delivered)
    PROVE  /\ Len(Delivered) = Len(script.sent)
           /\ script.verdict = IF buffer = <<>> THEN EndOfInput ELSE Failed("UnexpectedEof")
<1>1. /\ IsScript(script)
      /\ Delivered \in Seq(Requests) /\ Begins(Delivered, script.sent)
      /\ buffer \in Seq(Byte) /\ Begins(buffer, BytesAfter(script, Delivered))
      /\ ArrayHeader = HeaderOn(buffer)
  BY Taken DEF IInv
<1>2. /\ expected_arg_count = None => ArrayHeader = Incomplete
      /\ expected_arg_count # None => Len(args) < expected_arg_count /\ CStr = Incomplete
  BY DEF IInv, Waits
<1>3. CASE expected_arg_count = None
  <2>1. CountAfter(script, Delivered) = None
    <3> SUFFICES ASSUME CountAfter(script, Delivered) # None PROVE FALSE
      OBVIOUS
    <3>1. PICK opening \in Seq(Byte) : opening = Opening(CountAfter(script, Delivered), <<>>)
      BY <1>1, HeaderOfNext
    <3>2. Begins(opening, buffer)
      BY <1>1, <3>1, HeaderOfNext
    <3>3. ~(Len(buffer) < Len(opening))
      BY <1>1, <3>2, LenProperties DEF Begins
    <3>4. HeaderOn(buffer).kind = "parsed"
      BY <1>1, <3>1, <3>3, HeaderOfNext, ResultKinds
    <3> QED BY <1>1, <1>2, <1>3, <3>4, ResultKinds
  <2> QED BY <1>1, <1>2, <1>3, <2>1, HeaderOfLast
<1>4. CASE expected_arg_count # None
  <2>1. PICK count \in Nat, cstrs \in Seq(CStrings) :
            /\ count = expected_arg_count /\ cstrs = args
            /\ count # None /\ count = CountAfter(script, Delivered)
            /\ Begins(cstrs, ArgumentsAfter(script, Delivered))
            /\ Begins(Opening(count, cstrs), buffer)
            /\ Len(cstrs) < count
            /\ CStr = ParseCStr(From(buffer, Len(Opening(count, cstrs))))
    BY <1>2, <1>4, Inside
  <2>2. ~(Len(cstrs) < Len(ArgumentsAfter(script, Delivered)))
    <3> SUFFICES ASSUME Len(cstrs) < Len(ArgumentsAfter(script, Delivered)) PROVE FALSE
      OBVIOUS
    <3>1. PICK data \in CStrings :
              ArgumentComes(script, Delivered, buffer, count, cstrs, data)
      BY <1>1, <2>1, ArgumentOfNext
    <3>2. PICK z \in Seq(Byte) :
              z = Opening(count, Append(cstrs, data)) /\ Begins(z, buffer)
      BY <3>1 DEF ArgumentComes
    <3>3. ~(Len(buffer) < Len(z))
      BY <1>1, <3>2, LenProperties DEF Begins
    <3>4. ParseCStr(From(buffer, Len(Opening(count, cstrs)))).kind = "parsed"
      BY <3>1, <3>2, <3>3, ResultKinds DEF ArgumentComes
    <3> QED BY <1>2, <1>4, <2>1, <3>4, ResultKinds
  <2> QED BY <1>1, <1>2, <1>4, <2>1, <2>2, ArgumentOfLast
<1> QED BY <1>3, <1>4

\* ReadEof keeps it: the end is what the script says.
LEMMA EofKeeps ==
    ASSUME IInv, ReadEof
    PROVE  IInv'
<1>1. /\ pc = "read" /\ pos = Len(stream)
      /\ Return(IF buffer # <<>> THEN Failed("UnexpectedEof") ELSE EndOfInput)
      /\ UNCHANGED <<script, stream, pos, decoder>>
  BY DEF ReadEof
<1>2. buffer = BytesAfter(script, Delivered)
  <2>1. PICK coming \in Seq(Byte) :
            /\ coming = BytesAfter(script, Delivered)
            /\ Len(coming) = Len(buffer) /\ Len(buffer) \in Nat
            /\ buffer \in Seq(Byte) /\ Begins(buffer, coming)
    BY <1>1, Coming
  <2>2. Len(coming) <= Len(buffer)
    BY <2>1
  <2> QED BY <2>1, <2>2, BeginsEqual
<1>3. /\ Len(Delivered) = Len(script.sent)
      /\ script.verdict = IF buffer = <<>> THEN EndOfInput ELSE Failed("UnexpectedEof")
  BY <1>1, <1>2, EndOfBytes
<1>4. PICK result \in Results :
          /\ result = script.verdict /\ result.kind # "request"
          /\ Return(result)
  <2>1. "UnexpectedEof" \in Errors
    BY DEF Errors
  <2>2. /\ EndOfInput \in Results /\ EndOfInput.kind # "request"
        /\ Failed("UnexpectedEof") \in Results /\ Failed("UnexpectedEof").kind # "request"
    BY <2>1, ResultTypes
  <2>3. CASE buffer = <<>>
    BY <1>1, <1>3, <2>2, <2>3
  <2>4. CASE buffer # <<>>
    BY <1>1, <1>3, <2>2, <2>4
  <2> QED BY <2>3, <2>4
<1>5. UNCHANGED <<script, stream, pos, buffer, cursor, expected_arg_count, args, poisoned>>
  BY <1>1 DEF decoder
<1>6. poisoned' \in BOOLEAN /\ (poisoned => poisoned')
  BY <1>5 DEF IInv
<1> QED BY <1>3, <1>4, <1>5, <1>6, ReturnKeeps

\* ReadFails keeps it.
LEMMA FailsKeeps ==
    ASSUME IInv, ReadFails
    PROVE  IInv'
<1>1. Return(Failed("Io")) /\ UNCHANGED <<script, stream, pos, decoder>>
  BY DEF ReadFails
<1>2. PICK result \in Results :
          result = Failed("Io") /\ result.kind # "request" /\ Return(result)
  <2>1. "Io" \in Errors
    BY DEF Errors
  <2> QED BY <1>1, <2>1, ResultTypes
<1>3. UNCHANGED <<script, stream, pos, buffer, cursor, expected_arg_count, args, poisoned>>
  BY <1>1 DEF decoder
<1>4. poisoned' \in BOOLEAN /\ (poisoned => poisoned')
  BY <1>3 DEF IInv
<1> QED BY <1>2, <1>3, <1>4, ReturnKeeps

\* RefusePoisoned keeps it.
LEMMA RefuseKeeps ==
    ASSUME IInv, RefusePoisoned
    PROVE  IInv'
<1>1. /\ Return(Failed("Poisoned")) /\ UNCHANGED <<script, stream, pos, decoder>>
      /\ poisoned
  BY DEF RefusePoisoned
<1>2. PICK result \in Results :
          result = Failed("Poisoned") /\ result.kind # "request" /\ Return(result)
  <2>1. "Poisoned" \in Errors
    BY DEF Errors
  <2> QED BY <1>1, <2>1, ResultTypes
<1>3. UNCHANGED <<script, stream, pos, buffer, cursor, expected_arg_count, args, poisoned>>
  BY <1>1 DEF decoder
<1>4. poisoned' \in BOOLEAN /\ (poisoned => poisoned') /\ poisoned'
  BY <1>1, <1>3 DEF IInv
<1> QED BY <1>2, <1>3, <1>4, ReturnKeeps

\* Call keeps it.
LEMMA CallKeeps ==
    ASSUME IInv, Call
    PROVE  IInv'
<1>1. pc' = "decode" /\ UNCHANGED <<script, stream, pos, decoder, results>>
  BY DEF Call
<1>2. pc' \in {"decode", "read", "returned"} /\ pc' # "read"
  BY <1>1
<1> QED BY <1>1, <1>2, PcKeeps

\* Every step keeps the invariant.
LEMMA NextInv == IInv /\ [Next]_vars => IInv'
<1> SUFFICES ASSUME IInv, [Next]_vars PROVE IInv'
  OBVIOUS
<1>1. CASE DecodeArrayHeader
  BY <1>1, HeaderKeeps
<1>2. CASE DecodeArgument
  BY <1>2, ArgumentKeeps
<1>3. CASE TakeRequest
  BY <1>3, TakeKeeps
<1>4. CASE RefusePoisoned
  BY <1>4, RefuseKeeps
<1>5. CASE \E n \in 1 .. ReadChunkSize : Read(n)
  BY <1>5, ReadKeeps
<1>6. CASE ReadEof
  BY <1>6, EofKeeps
<1>7. CASE ReadFails
  BY <1>7, FailsKeeps
<1>8. CASE Call
  BY <1>8, CallKeeps
<1>9. CASE UNCHANGED vars
  <2>1. UNCHANGED <<script, stream, pos, decoder, results>> /\ pc' = pc
    BY <1>9 DEF vars
  <2>2. UNCHANGED <<poisoned, expected_arg_count, args, cursor, buffer>>
    BY <2>1 DEF decoder
  <2>3. ArrayHeader' = ArrayHeader /\ CStr' = CStr
    BY <2>2 DEF ArrayHeader, CStr
  <2>4. Waits'
    BY <2>1, <2>2, <2>3 DEF IInv, Waits
  <2>5. pc' \in {"decode", "read", "returned"}
    BY <2>1 DEF IInv
  <2> QED BY <2>1, <2>4, <2>5, PcKeeps
<1> QED BY <1>1, <1>2, <1>3, <1>4, <1>5, <1>6, <1>7, <1>8, <1>9 DEF Next

(* The inductive invariant holds: the decoder is always where the script and *)
(* the number of requests that have come out say (decode_buffered).          *)
THEOREM Invariance == Spec => []IInv
<1> QED BY InitInv, NextInv, PTL DEF Spec

-----------------------------------------------------------------------------
(* What follows from the invariant.                                          *)

LEMMA TypeFollows == IInv => TypeOK
<1> SUFFICES ASSUME IInv PROVE TypeOK
  OBVIOUS
<1>1. pos \in 0 .. Len(stream)
  <2>1. PICK whole \in Seq(Byte), x \in Seq(Byte), coming \in Seq(Byte) :
            /\ whole = stream /\ pos = Len(x) + Len(buffer)
            /\ Len(coming) = Len(whole) - Len(x)
            /\ Len(whole) \in Nat /\ Len(x) \in 0 .. Len(whole)
            /\ Len(buffer) \in Nat /\ Begins(buffer, coming)
    BY Coming
  <2>2. Len(buffer) <= Len(coming)
    BY <2>1 DEF Begins
  <2> QED BY <2>1, <2>2
<1>2. CASE expected_arg_count = None
  <2>1. args = <<>> /\ cursor = 0 /\ <<>> \in Seq(Seq(Byte))
    BY <1>2 DEF IInv, Place
  <2>2. cursor \in 0 .. Len(buffer)
    BY <2>1, Taken
  <2> QED BY <1>1, <1>2, <2>1, <2>2 DEF TypeOK, IInv
<1>3. CASE expected_arg_count # None
  <2>1. /\ expected_arg_count \in 0 .. MaxArrayLength
        /\ args \in Seq(CStrings)
        /\ Len(args) <= expected_arg_count
        /\ cursor \in 0 .. Len(buffer)
    BY <1>3, Inside
  <2>2. args \in Seq(Seq(Byte))
    BY <2>1, CStringsType
  <2> QED BY <1>1, <1>3, <2>1, <2>2 DEF TypeOK, IInv
<1> QED BY <1>2, <1>3

LEMMA PlaceFollows == IInv => PlaceKept
<1> SUFFICES ASSUME IInv PROVE PlaceKept
  OBVIOUS
<1>1. StreamBytes(Delivered) \o buffer = SubSeq(stream, 1, pos)
  <2>1. PICK whole \in Seq(Byte), x \in Seq(Byte), coming \in Seq(Byte) :
            /\ whole = stream /\ pos = Len(x) + Len(buffer)
            /\ x = StreamBytes(Delivered)
            /\ Begins(x, whole)
            /\ coming = From(whole, Len(x))
            /\ Len(coming) = Len(whole) - Len(x)
            /\ Len(whole) \in Nat /\ Len(x) \in 0 .. Len(whole)
            /\ buffer \in Seq(Byte) /\ Len(buffer) \in Nat /\ Begins(buffer, coming)
    BY Coming
  <2>2. Begins(x \o buffer, whole)
    <3>1. Len(buffer) <= Len(coming)
      BY <2>1 DEF Begins
    <3>2. Len(x) + Len(buffer) <= Len(whole)
      BY <2>1, <3>1
    <3>3. ASSUME NEW i \in 1 .. Len(buffer)
          PROVE  buffer[i] = whole[Len(x) + i]
      <4>1. i \in 1 .. Len(whole) - Len(x)
        BY <2>1, <3>2
      <4>2. coming[i] = whole[Len(x) + i]
        BY <2>1, <4>1, FromProperties
      <4>3. buffer[i] = coming[i]
        BY <2>1 DEF Begins
      <4> QED BY <4>2, <4>3
    <3> QED BY <2>1, <3>2, <3>3, BeginsFurther
  <2>3. PICK w \in Seq(Byte) : w = x \o buffer /\ Len(w) = Len(x) + Len(buffer)
    BY <2>1, ConcatProperties
  <2>4. SubSeq(whole, 1, Len(w)) = w
    BY <2>2, <2>3, BeginningIsSlice
  <2> QED BY <2>1, <2>3, <2>4
<1>2. ASSUME expected_arg_count # None
      PROVE  SubSeq(buffer, 1, cursor) = Opening(expected_arg_count, args)
  <2>1. PICK opening \in Seq(Byte) :
            /\ opening = Opening(expected_arg_count, args)
            /\ cursor = Len(opening)
            /\ Begins(opening, buffer)
    BY <1>2, Inside
  <2>2. SubSeq(buffer, 1, Len(opening)) = opening
    BY <2>1, BeginningIsSlice DEF IInv
  <2> QED BY <2>1, <2>2
<1> QED BY <1>1, <1>2 DEF PlaceKept

LEMMA DecodesFollows == IInv => DecodesWhatWasSent
<1> SUFFICES ASSUME IInv PROVE DecodesWhatWasSent
  OBVIOUS
<1>1. PICK d \in Seq(Requests), sent \in Seq(Requests) :
          d = Delivered /\ sent = script.sent /\ Begins(d, sent)
  BY Taken, TailType DEF IInv
<1>2. SubSeq(sent, 1, Len(d)) = d
  BY <1>1, BeginningIsSlice
<1>3. SubSeq(d, 1, Len(d)) = d
  BY BeginsSelf, BeginningIsSlice
<1>4. IsPrefix(Delivered, script.sent)
  BY <1>1, <1>2, <1>3 DEF IsPrefix, Begins
<1> QED BY <1>4 DEF IInv, Ends, DecodesWhatWasSent

LEMMA NoWaitFollows == IInv => NoWaitOnWholeRequest
<1> SUFFICES ASSUME IInv, pc = "read",
                    NEW i \in 1 .. Len(script.sent), Arrived(i), ~(Len(Delivered) >= i)
             PROVE  FALSE
  BY DEF NoWaitOnWholeRequest
<1>1. /\ IsScript(script)
      /\ Delivered \in Seq(Requests) /\ Begins(Delivered, script.sent)
      /\ buffer \in Seq(Byte) /\ Begins(buffer, BytesAfter(script, Delivered))
      /\ BytesAfter(script, Delivered) \in Seq(Byte)
      /\ ArrayHeader = HeaderOn(buffer)
      /\ Len(Delivered) \in Nat /\ Len(buffer) \in Nat
      /\ pos = Len(StreamBytes(Delivered)) + Len(buffer)
  BY Taken DEF IInv
<1>2. PICK sent \in Seq(Requests) : sent = script.sent
  BY <1>1, TailType
<1>3. Len(Delivered) < Len(sent) /\ Len(Delivered) + 1 <= i /\ i \in 0 .. Len(sent)
  BY <1>1, <1>2, LenProperties
<1>4. PICK request \in Requests :
          /\ request \in Seq(CStrings)
          /\ CountAfter(script, Delivered) = Len(request)
          /\ CountAfter(script, Delivered) # None
          /\ ArgumentsAfter(script, Delivered) = request
          /\ RequestBytes(request) \in Seq(Byte)
          /\ RequestBytes(request) = Opening(Len(request), request)
          /\ Append(Delivered, request) \in Seq(Requests)
          /\ Begins(Append(Delivered, request), script.sent)
          /\ StreamBytes(Append(Delivered, request)) =
                 StreamBytes(Delivered) \o RequestBytes(request)
          /\ Begins(RequestBytes(request), BytesAfter(script, Delivered))
  BY <1>1, <1>2, <1>3, AfterSome
<1>5. PICK count \in Nat, x \in Seq(Byte), y \in Seq(Byte) :
          /\ count = Len(request) /\ x = StreamBytes(Delivered)
          /\ y = RequestBytes(request) /\ y = Opening(count, request)
          /\ Len(x) \in Nat /\ Len(y) \in Nat
  BY <1>1, <1>4, StreamType, LenProperties
<1>6. Begins(y, buffer) /\ Len(y) <= Len(buffer)
  <2>1. PICK longer \in Seq(Requests), first \in Seq(Requests) :
            /\ longer = Append(Delivered, request)
            /\ first = SubSeq(sent, 1, i)
            /\ Len(longer) = Len(Delivered) + 1
            /\ Len(first) = i
            /\ Begins(longer, sent) /\ Begins(first, sent)
    <3>1. Len(Append(Delivered, request)) = Len(Delivered) + 1
      BY <1>1, AppendProperties
    <3>2. /\ SubSeq(sent, 1, i) \in Seq(Requests) /\ Len(SubSeq(sent, 1, i)) = i
          /\ Begins(SubSeq(sent, 1, i), sent)
      BY <1>3, SliceBegins
    <3> QED BY <1>2, <1>4, <3>1, <3>2
  <2>2. Begins(longer, first)
    <3>1. Len(longer) <= Len(first)
      BY <1>3, <2>1
    <3> QED BY <2>1, <3>1, BeginsComparable
  <2>3. Begins(StreamBytes(longer), StreamBytes(first))
    BY <2>2, StreamGrows
  <2>4. StreamBytes(longer) = x \o y /\ Len(x \o y) = Len(x) + Len(y)
    BY <1>4, <1>5, <2>1, ConcatProperties
  <2>5. Len(x) + Len(y) <= Len(StreamBytes(first)) /\ Len(StreamBytes(first)) \in Nat
    BY <2>3, <2>4, StreamType, LenProperties DEF Begins
  <2>6. Len(StreamBytes(first)) <= pos /\ pos = Len(x) + Len(buffer)
    BY <1>1, <1>2, <1>5, <2>1, <2>5 DEF Arrived
  <2>7. Len(y) <= Len(buffer)
    BY <1>1, <1>5, <2>5, <2>6
  <2>8. Begins(y, BytesAfter(script, Delivered))
    BY <1>4, <1>5
  <2> QED BY <1>1, <2>7, <2>8, BeginsComparable
<1>7. /\ expected_arg_count = None => ArrayHeader = Incomplete
      /\ expected_arg_count # None => Len(args) < expected_arg_count /\ CStr = Incomplete
  BY DEF IInv, Waits
<1>8. CASE expected_arg_count = None
  <2>1. PICK opening \in Seq(Byte) : opening = Opening(count, <<>>)
    BY <1>1, <1>4, <1>5, HeaderOfNext
  <2>2. Begins(opening, y)
    <3>1. <<>> \in Seq(CStrings) /\ Begins(<<>>, request)
      BY <1>4, BeginsEmpty
    <3>2. Begins(Opening(count, <<>>), Opening(count, request))
      BY <1>4, <3>1, OpeningGrows
    <3> QED BY <1>5, <2>1, <3>2
  <2>3. ~(Len(buffer) < Len(opening))
    BY <1>1, <1>5, <1>6, <2>2, LenProperties DEF Begins
  <2>4. HeaderOn(buffer).kind = "parsed"
    <3>1. ~(Len(buffer) < Len(Opening(CountAfter(script, Delivered), <<>>)))
      BY <1>4, <1>5, <2>1, <2>3
    <3>2. HeaderOn(buffer) = Parsed(CountAfter(script, Delivered),
                                    Len(Opening(CountAfter(script, Delivered), <<>>)))
      BY <1>1, <1>4, <3>1, HeaderOfNext
    <3> QED BY <3>2, ResultKinds
  <2> QED BY <1>1, <1>7, <1>8, <2>4, ResultKinds
<1>9. CASE expected_arg_count # None
  <2>1. PICK cstrs \in Seq(CStrings) :
            /\ count = expected_arg_count /\ cstrs = args
            /\ count # None /\ count = CountAfter(script, Delivered)
            /\ Begins(cstrs, ArgumentsAfter(script, Delivered))
            /\ Begins(Opening(count, cstrs), buffer)
            /\ Len(cstrs) < count
            /\ CStr = ParseCStr(From(buffer, Len(Opening(count, cstrs))))
    BY <1>4, <1>5, <1>7, <1>9, Inside
  <2>2. Len(cstrs) < Len(ArgumentsAfter(script, Delivered))
    BY <1>4, <1>5, <2>1
  <2>3. PICK data \in CStrings :
            ArgumentComes(script, Delivered, buffer, count, cstrs, data)
    BY <1>1, <2>1, <2>2, ArgumentOfNext
  <2>4. PICK longer \in Seq(CStrings), z \in Seq(Byte) :
            /\ longer = Append(cstrs, data)
            /\ z = Opening(count, longer)
            /\ Begins(longer, request)
    BY <1>4, <2>3 DEF ArgumentComes
  <2>5. Begins(z, y)
    BY <1>4, <1>5, <2>4, OpeningGrows
  <2>6. ~(Len(buffer) < Len(z))
    BY <1>1, <1>5, <1>6, <2>4, <2>5, LenProperties DEF Begins
  <2>7. ParseCStr(From(buffer, Len(Opening(count, cstrs)))).kind = "parsed"
    BY <2>3, <2>4, <2>6, ResultKinds DEF ArgumentComes
  <2> QED BY <1>7, <1>9, <2>1, <2>7, ResultKinds
<1> QED BY <1>8, <1>9

LEMMA PoisonStep ==
    IInv /\ [Next]_vars =>
        [poisoned => poisoned' /\ \A i \in DOMAIN results' \ DOMAIN results :
             results'[i] = Failed("Poisoned")]_vars
<1> SUFFICES ASSUME IInv, Next, poisoned
             PROVE  poisoned' /\ \A i \in DOMAIN results' \ DOMAIN results :
                        results'[i] = Failed("Poisoned")
  OBVIOUS
<1>1. pc # "read" /\ results \in Seq(Results)
  BY DEF IInv, Waits
<1>2. CASE Call
  BY <1>2 DEF Call, decoder
<1>3. CASE RefusePoisoned
  <2>1. poisoned' = poisoned /\ results' = Append(results, Failed("Poisoned"))
    BY <1>3 DEF RefusePoisoned, Return, decoder
  <2>2. PICK result \in Results : result = Failed("Poisoned")
    <3>1. "Poisoned" \in Errors
      BY DEF Errors
    <3> QED BY <3>1, ResultTypes
  <2>3. PICK m \in Nat : m = Len(results) /\ DOMAIN results = 1 .. m
    BY <1>1, LenProperties
  <2>4. DOMAIN results' = 1 .. m + 1 /\ results'[m + 1] = result
    <3>1. results' \in Seq(Results) /\ Len(results') = m + 1 /\ results'[m + 1] = result
      BY <1>1, <2>1, <2>2, <2>3, AppendProperties
    <3> QED BY <3>1, LenProperties
  <2>5. \A i \in DOMAIN results' \ DOMAIN results : i = m + 1
    BY <2>3, <2>4
  <2> QED BY <2>1, <2>2, <2>4, <2>5
<1>4. ~DecodeArrayHeader /\ ~DecodeArgument /\ ~TakeRequest
  BY DEF DecodeArrayHeader, DecodeArgument, TakeRequest, Decoding
<1>5. ~(\E n \in 1 .. ReadChunkSize : Read(n)) /\ ~ReadEof /\ ~ReadFails
  BY <1>1 DEF Read, ReadEof, ReadFails
<1> QED BY <1>2, <1>3, <1>4, <1>5 DEF Next

(* Every variable of the reader keeps its type, and the cursor and the       *)
(* arguments fit the buffer and the count (RequestDecoder).                  *)
THEOREM TypeCorrect == Spec => []TypeOK
<1> QED BY Invariance, TypeFollows, PTL

(* However the stream is cut, the reader neither loses nor repeats a byte    *)
(* (decode_buffered, take_request, read_next).                               *)
THEOREM KeepsItsPlace == Spec => []PlaceKept
<1> QED BY Invariance, PlaceFollows, PTL

(* However the stream is cut, the requests come out as they were sent, and   *)
(* the stream ends as it must (decode_next, validate_eof): to_bytes and the  *)
(* decoder are inverses for every request within the limits.                 *)
THEOREM RoundTrip == Spec => []DecodesWhatWasSent
<1> QED BY Invariance, DecodesFollows, PTL

(* The reader waits for no input while a whole request lies in the buffer    *)
(* (read_next).                                                              *)
THEOREM NeverWaitsInVain == Spec => []NoWaitOnWholeRequest
<1> QED BY Invariance, NoWaitFollows, PTL

(* After an error nothing but the refusal comes out (the poisoned flag).     *)
THEOREM PoisonIsForGood == Spec => PoisonLasts
<1>1. IInv /\ [Next]_vars =>
          [poisoned => poisoned' /\ \A i \in DOMAIN results' \ DOMAIN results :
               results'[i] = Failed("Poisoned")]_vars
  BY PoisonStep
<1> QED BY <1>1, Invariance, PTL DEF Spec, PoisonLasts
=============================================================================
