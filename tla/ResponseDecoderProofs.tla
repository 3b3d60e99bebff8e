------------------------ MODULE ResponseDecoderProofs ------------------------
(* The bytes of whole responses, however deep they nest, come out of the     *)
(* client's reader as the responses they were, however the reads cut them:   *)
(* for every script whose error messages are lines, every limit, every depth *)
(* of the stack and every size of the reads.                                 *)
EXTENDS ResponseDecoder, RespProofs

-----------------------------------------------------------------------------
(* What parsing comes to.                                                    *)

Errors == {"UnexpectedPrefix", "UnexpectedSstr", "InvalidUtf8", "InvalidInt",
           "InvalidCStringLength", "CStringTooLong", "MissingCrlf",
           "InvalidArrayLength", "UnexpectedEof", "Poisoned", "Io"}

LEMMA ResultKinds ==
    /\ Incomplete.kind = "incomplete"
    /\ Panicked.kind = "panic"
    /\ Overflowed.kind = "overflow"
    /\ EndOfInput.kind = "end"
    /\ \A error : Failed(error).kind = "error" /\ Failed(error).error = error
    /\ \A data : Response(data).kind = "response" /\ Response(data).data = data
    /\ \A data, num : /\ Parsed(data, num).kind = "parsed"
                      /\ Parsed(data, num).data = data
                      /\ Parsed(data, num).num_bytes_parsed = num
BY DEF Incomplete, Panicked, Overflowed, EndOfInput, Failed, Response, Parsed

\* Parsed data take at least one of the bytes and at most all.
IsOutcome(outcome, most) ==
    \/ outcome \in {Incomplete, Panicked, Overflowed}
    \/ \E error \in Errors : outcome = Failed(error)
    \/ \E data : \E num \in 1 .. most : outcome = Parsed(data, num)

\* What is proved of parse_response at each depth: how it ends,
Answers(parse) == \A bytes \in Seq(Byte) : IsOutcome(parse[bytes], Len(bytes))

\* that more bytes do not change what it has made of those before them,
Steady(parse) ==
    \A bytes \in Seq(Byte), more \in Seq(Byte) :
        Begins(bytes, more) /\ parse[bytes] # Incomplete => parse[more] = parse[bytes]

\* and that it reads what was written.
Reads(parse, encoding, responses) ==
    \A response \in responses :
        parse[encoding[response]] = Parsed(response, Len(encoding[response]))

LEMMA OutcomeCases ==
    ASSUME NEW outcome, NEW most, IsOutcome(outcome, most)
    PROVE  /\ outcome.kind = "parsed" =>
                  /\ outcome.num_bytes_parsed \in 1 .. most
                  /\ outcome = Parsed(outcome.data, outcome.num_bytes_parsed)
           /\ outcome.kind # "parsed" =>
                  \/ outcome \in {Incomplete, Panicked, Overflowed}
                  \/ \E error \in Errors : outcome = Failed(error)
<1>1. CASE outcome \in {Incomplete, Panicked, Overflowed}
  BY <1>1, ResultKinds
<1>2. CASE \E error \in Errors : outcome = Failed(error)
  BY <1>2, ResultKinds
<1>3. CASE \E data : \E num \in 1 .. most : outcome = Parsed(data, num)
  <2>1. PICK data : \E num \in 1 .. most : outcome = Parsed(data, num)
    BY <1>3
  <2>2. PICK num \in 1 .. most : outcome = Parsed(data, num)
    BY <2>1
  <2>3. outcome.data = data /\ outcome.num_bytes_parsed = num /\ outcome.kind = "parsed"
    BY <2>2, ResultKinds
  <2> QED BY <2>2, <2>3
<1> QED BY <1>1, <1>2, <1>3 DEF IsOutcome

LEMMA OutcomeOthers ==
    ASSUME NEW outcome, NEW most, NEW other, IsOutcome(outcome, most), outcome.kind # "parsed"
    PROVE  IsOutcome(outcome, other)
<1>1. \/ outcome \in {Incomplete, Panicked, Overflowed}
      \/ \E error \in Errors : outcome = Failed(error)
  BY OutcomeCases
<1> QED BY <1>1 DEF IsOutcome

LEMMA OutcomeFailed ==
    ASSUME NEW error \in Errors, NEW most
    PROVE  IsOutcome(Failed(error), most)
BY DEF IsOutcome

LEMMA OutcomeParsed ==
    ASSUME NEW data, NEW most, NEW num \in 1 .. most
    PROVE  IsOutcome(Parsed(data, num), most)
BY DEF IsOutcome

-----------------------------------------------------------------------------
(* The loop of parse_array.                                                  *)

\* What the loop says of a table of its first turns.
Turns(f, bytes, taken, parse, m) ==
    \A n \in 0 .. m :
        f[n] = IF n = 0 THEN Parsed(<<>>, taken) ELSE WithNext(bytes, f[n - 1], parse)

LEMMA TurnsExist ==
    ASSUME NEW bytes, NEW taken, NEW parse
    PROVE  \A m \in Nat : \E f : /\ f = [n \in 0 .. m |-> f[n]]
                                 /\ Turns(f, bytes, taken, parse, m)
<1> DEFINE S == {m \in Nat : \E f : /\ f = [n \in 0 .. m |-> f[n]]
                                    /\ Turns(f, bytes, taken, parse, m)}
<1>1. 0 \in S
  <2> DEFINE f == [n \in 0 .. 0 |-> Parsed(<<>>, taken)]
  <2>1. f = [n \in 0 .. 0 |-> f[n]] /\ f[0] = Parsed(<<>>, taken)
    OBVIOUS
  <2> HIDE DEF f
  <2>2. Turns(f, bytes, taken, parse, 0)
    BY <2>1 DEF Turns
  <2> QED BY <2>1, <2>2
<1>2. ASSUME NEW m \in Nat, m \in S
      PROVE  m + 1 \in S
  <2>1. PICK f : Turns(f, bytes, taken, parse, m)
    BY <1>2
  <2> DEFINE next == WithNext(bytes, f[m], parse)
  <2> HIDE DEF next
  <2> DEFINE g == [n \in 0 .. m + 1 |-> IF n = m + 1 THEN next ELSE f[n]]
  <2>2. /\ g = [n \in 0 .. m + 1 |-> g[n]]
        /\ g[m + 1] = next /\ \A n \in 0 .. m : g[n] = f[n]
    OBVIOUS
  <2> HIDE DEF g
  <2>3. ASSUME NEW n \in 0 .. m + 1
        PROVE  g[n] = IF n = 0 THEN Parsed(<<>>, taken) ELSE WithNext(bytes, g[n - 1], parse)
    <3>1. CASE n = m + 1
      <4>1. n - 1 = m /\ n # 0
        BY <3>1
      <4>2. m \in 0 .. m
        OBVIOUS
      <4>3. g[m] = f[m]
        BY <2>2, <4>2
      <4> QED BY <2>2, <3>1, <4>1, <4>3 DEF next
    <3>2. CASE n # m + 1
      <4>1. n \in 0 .. m /\ (n # 0 => n - 1 \in 0 .. m)
        BY <3>2
      <4>2. f[n] = IF n = 0 THEN Parsed(<<>>, taken) ELSE WithNext(bytes, f[n - 1], parse)
        BY <2>1, <4>1 DEF Turns
      <4>3. n # 0 => g[n - 1] = f[n - 1]
        BY <2>2, <4>1
      <4> QED BY <2>2, <4>1, <4>2, <4>3
    <3> QED BY <3>1, <3>2
  <2>4. Turns(g, bytes, taken, parse, m + 1)
    BY <2>3 DEF Turns
  <2> QED BY <2>2, <2>4
<1> HIDE DEF S
<1>3. Nat \subseteq S
  BY <1>1, <1>2, Counting
<1> QED BY <1>3 DEF S

LEMMA TurnsOnce ==
    ASSUME NEW bytes, NEW taken, NEW parse, NEW m \in Nat, NEW f, NEW g,
           Turns(f, bytes, taken, parse, m), Turns(g, bytes, taken, parse, m)
    PROVE  \A n \in 0 .. m : f[n] = g[n]
<1> DEFINE S == {n \in Nat : n <= m => f[n] = g[n]}
<1>1. 0 \in S
  BY DEF Turns
<1>2. ASSUME NEW n \in Nat, n \in S
      PROVE  n + 1 \in S
  <2> SUFFICES ASSUME n + 1 <= m PROVE f[n + 1] = g[n + 1]
    OBVIOUS
  <2>1. f[n] = g[n]
    BY <1>2
  <2>2. PICK k \in 0 .. m : k = n + 1 /\ k # 0 /\ k - 1 = n
    OBVIOUS
  <2>3. f[k] = WithNext(bytes, f[k - 1], parse) /\ g[k] = WithNext(bytes, g[k - 1], parse)
    BY <2>2 DEF Turns
  <2> QED BY <2>1, <2>2, <2>3
<1> HIDE DEF S
<1>3. Nat \subseteq S
  BY <1>1, <1>2, Counting
<1> QED BY <1>3 DEF S

\* ParseElements, turn by turn.
LEMMA ElementsTurns ==
    ASSUME NEW bytes, NEW taken, NEW parse, NEW len \in Nat
    PROVE  \E f : /\ Turns(f, bytes, taken, parse, len)
                  /\ ParseElements(bytes, len, taken, parse) = f[len]
<1> DEFINE Is(f) == f = [n \in 0 .. len |->
                            IF n = 0 THEN Parsed(<<>>, taken)
                            ELSE WithNext(bytes, f[n - 1], parse)]
           chosen == CHOOSE f : Is(f)
<1>1. PICK f : f = [n \in 0 .. len |-> f[n]] /\ Turns(f, bytes, taken, parse, len)
  BY TurnsExist
<1>2. Is(f)
  <2> DEFINE F == [n \in 0 .. len |->
                      IF n = 0 THEN Parsed(<<>>, taken) ELSE WithNext(bytes, f[n - 1], parse)]
  <2>1. \A n \in 0 .. len : f[n] = F[n]
    BY <1>1 DEF Turns
  <2>2. F = [n \in 0 .. len |-> F[n]]
    OBVIOUS
  <2> HIDE DEF F
  <2>3. f = F
    BY <1>1, <2>1, <2>2
  <2> QED BY <2>3 DEF F
<1>3. Is(chosen)
  BY <1>2
<1>4. ParseElements(bytes, len, taken, parse) = chosen[len]
  BY DEF ParseElements
<1> HIDE DEF chosen
<1>5. Turns(chosen, bytes, taken, parse, len)
  <2> SUFFICES ASSUME NEW n \in 0 .. len
               PROVE  chosen[n] = IF n = 0 THEN Parsed(<<>>, taken)
                                  ELSE WithNext(bytes, chosen[n - 1], parse)
    BY DEF Turns
  <2> QED BY <1>3
<1> QED BY <1>4, <1>5

LEMMA ElementsUnfold ==
    ASSUME NEW bytes, NEW taken, NEW parse
    PROVE  /\ ParseElements(bytes, 0, taken, parse) = Parsed(<<>>, taken)
           /\ \A n \in Nat :
                  ParseElements(bytes, n + 1, taken, parse) =
                      WithNext(bytes, ParseElements(bytes, n, taken, parse), parse)
<1>1. ParseElements(bytes, 0, taken, parse) = Parsed(<<>>, taken)
  <2>1. PICK f : Turns(f, bytes, taken, parse, 0) /\ ParseElements(bytes, 0, taken, parse) = f[0]
    BY ElementsTurns
  <2> QED BY <2>1 DEF Turns
<1>2. ASSUME NEW n \in Nat
      PROVE  ParseElements(bytes, n + 1, taken, parse) =
                 WithNext(bytes, ParseElements(bytes, n, taken, parse), parse)
  <2>1. PICK f : /\ Turns(f, bytes, taken, parse, n)
                 /\ ParseElements(bytes, n, taken, parse) = f[n]
    BY ElementsTurns
  <2>2. PICK k \in Nat : k = n + 1
    OBVIOUS
  <2>3. PICK g : /\ Turns(g, bytes, taken, parse, k)
                 /\ ParseElements(bytes, k, taken, parse) = g[k]
    BY ElementsTurns
  <2>4. Turns(g, bytes, taken, parse, n)
    <3>1. \A i \in 0 .. n : i \in 0 .. k
      BY <2>2
    <3> QED BY <2>3, <3>1 DEF Turns
  <2>5. f[n] = g[n]
    BY <2>1, <2>4, TurnsOnce
  <2>6. g[k] = WithNext(bytes, g[k - 1], parse) /\ k - 1 = n
    BY <2>2, <2>3 DEF Turns
  <2> QED BY <2>1, <2>2, <2>3, <2>5, <2>6
<1> QED BY <1>1, <1>2

\* One turn adds the element behind the bytes taken, or ends the loop.
LEMMA TurnCases ==
    ASSUME NEW bytes \in Seq(Byte), NEW before, NEW parse,
           IsOutcome(before, Len(bytes)), Answers(parse)
    PROVE  /\ before.kind # "parsed" => WithNext(bytes, before, parse) = before
           /\ before.kind = "parsed" =>
                  /\ before.num_bytes_parsed \in 0 .. Len(bytes)
                  /\ From(bytes, before.num_bytes_parsed) \in Seq(Byte)
                  /\ LET element == parse[From(bytes, before.num_bytes_parsed)]
                     IN  /\ IsOutcome(element, Len(bytes) - before.num_bytes_parsed)
                         /\ element.kind # "parsed" => WithNext(bytes, before, parse) = element
                         /\ element.kind = "parsed" =>
                                WithNext(bytes, before, parse) =
                                    Parsed(Append(before.data, element.data),
                                           before.num_bytes_parsed + element.num_bytes_parsed)
           /\ IsOutcome(WithNext(bytes, before, parse), Len(bytes))
<1>1. Len(bytes) \in Nat
  BY LenProperties
<1>2. CASE before.kind # "parsed"
  <2>1. WithNext(bytes, before, parse) = before
    BY <1>2 DEF WithNext
  <2> QED BY <1>2, <2>1
<1>3. CASE before.kind = "parsed"
  <2>1. PICK taken \in 1 .. Len(bytes) : taken = before.num_bytes_parsed
    BY <1>3, OutcomeCases
  <2>2. taken \in 0 .. Len(bytes)
    BY <1>1
  <2>3. PICK rest \in Seq(Byte) : rest = From(bytes, taken) /\ Len(rest) = Len(bytes) - taken
    BY <2>2, FromProperties
  <2>4. PICK element : element = parse[rest]
    OBVIOUS
  <2>5. IsOutcome(element, Len(bytes) - taken)
    BY <2>3, <2>4 DEF Answers
  <2>6. WithNext(bytes, before, parse) =
            IF element.kind # "parsed" THEN element
            ELSE Parsed(Append(before.data, element.data), taken + element.num_bytes_parsed)
    BY <1>3, <2>1, <2>3, <2>4 DEF WithNext
  <2>7. CASE element.kind # "parsed"
    <3>1. WithNext(bytes, before, parse) = element
      BY <2>6, <2>7
    <3>2. IsOutcome(element, Len(bytes))
      BY <2>5, <2>7, OutcomeOthers
    <3> QED BY <1>3, <2>1, <2>2, <2>3, <2>4, <2>5, <2>7, <3>1, <3>2
  <2>8. CASE element.kind = "parsed"
    <3>1. PICK num \in 1 .. Len(bytes) - taken : num = element.num_bytes_parsed
      BY <2>5, <2>8, OutcomeCases
    <3>2. taken + num \in 1 .. Len(bytes)
      BY <1>1
    <3>3. WithNext(bytes, before, parse) = Parsed(Append(before.data, element.data), taken + num)
      BY <2>6, <2>8, <3>1
    <3>4. IsOutcome(WithNext(bytes, before, parse), Len(bytes))
      BY <3>2, <3>3, OutcomeParsed
    <3> QED BY <1>3, <2>1, <2>2, <2>3, <2>4, <2>5, <2>8, <3>1, <3>3, <3>4
  <2> QED BY <2>7, <2>8
<1> QED BY <1>2, <1>3

LEMMA ElementsOutcome ==
    ASSUME NEW bytes \in Seq(Byte), NEW taken \in 1 .. Len(bytes), NEW parse, Answers(parse)
    PROVE  \A len \in Nat : IsOutcome(ParseElements(bytes, len, taken, parse), Len(bytes))
<1> DEFINE S == {len \in Nat : IsOutcome(ParseElements(bytes, len, taken, parse), Len(bytes))}
<1>1. 0 \in S
  BY ElementsUnfold, OutcomeParsed
<1>2. ASSUME NEW n \in Nat, n \in S
      PROVE  n + 1 \in S
  <2>1. PICK before : before = ParseElements(bytes, n, taken, parse)
    OBVIOUS
  <2>2. IsOutcome(WithNext(bytes, before, parse), Len(bytes))
    BY <1>2, <2>1, TurnCases
  <2>3. ParseElements(bytes, n + 1, taken, parse) = WithNext(bytes, before, parse)
    BY <2>1, ElementsUnfold
  <2> QED BY <2>2, <2>3
<1> HIDE DEF S
<1>3. Nat \subseteq S
  BY <1>1, <1>2, Counting
<1> QED BY <1>3 DEF S

(* A loop that did not run out of bytes ends in the same way on more. *)
LEMMA ElementsStay ==
    ASSUME NEW bytes \in Seq(Byte), NEW more \in Seq(Byte), Begins(bytes, more),
           NEW taken \in 1 .. Len(bytes), NEW parse, Answers(parse), Steady(parse)
    PROVE  \A len \in Nat :
               ParseElements(bytes, len, taken, parse) # Incomplete =>
                   ParseElements(more, len, taken, parse) = ParseElements(bytes, len, taken, parse)
<1> DEFINE S == {len \in Nat :
                     ParseElements(bytes, len, taken, parse) # Incomplete =>
                         ParseElements(more, len, taken, parse) =
                             ParseElements(bytes, len, taken, parse)}
<1>1. 0 \in S
  BY ElementsUnfold
<1>2. ASSUME NEW n \in Nat, n \in S
      PROVE  n + 1 \in S
  <2>1. PICK before : before = ParseElements(bytes, n, taken, parse)
    OBVIOUS
  <2>2. IsOutcome(before, Len(bytes))
    BY <2>1, ElementsOutcome
  <2> SUFFICES ASSUME WithNext(bytes, before, parse) # Incomplete
               PROVE  ParseElements(more, n + 1, taken, parse) = WithNext(bytes, before, parse)
    <3>1. ParseElements(bytes, n + 1, taken, parse) = WithNext(bytes, before, parse)
      BY <2>1, ElementsUnfold
    <3> QED BY <3>1
  <2>3. before # Incomplete
    <3> SUFFICES ASSUME before = Incomplete PROVE FALSE
      OBVIOUS
    <3>1. before.kind # "parsed"
      BY ResultKinds
    <3> QED BY <3>1 DEF WithNext
  <2>4. ParseElements(more, n + 1, taken, parse) = WithNext(more, before, parse)
    <3>1. ParseElements(more, n, taken, parse) = before
      BY <1>2, <2>1, <2>3
    <3> QED BY <3>1, ElementsUnfold
  <2>5. CASE before.kind # "parsed"
    BY <2>4, <2>5 DEF WithNext
  <2>6. CASE before.kind = "parsed"
    <3>1. PICK k \in 0 .. Len(bytes) : k = before.num_bytes_parsed
      BY <2>2, <2>6, TurnCases
    <3>2. PICK rest \in Seq(Byte) : rest = From(bytes, k)
      BY <3>1, FromProperties
    <3>3. PICK longer \in Seq(Byte) : longer = From(more, k)
      <4>1. k \in 0 .. Len(more)
        BY LenProperties DEF Begins
      <4> QED BY <4>1, FromProperties
    <3>4. Begins(rest, longer)
      BY <3>1, <3>2, <3>3, BeginsFrom
    <3>5. parse[rest] # Incomplete
      <4> SUFFICES ASSUME parse[rest] = Incomplete PROVE FALSE
        OBVIOUS
      <4>1. parse[rest].kind # "parsed"
        BY ResultKinds
      <4>2. WithNext(bytes, before, parse) = parse[rest]
        BY <2>6, <3>1, <3>2, <4>1 DEF WithNext
      <4> QED BY <4>2
    <3>6. parse[longer] = parse[rest]
      BY <3>4, <3>5 DEF Steady
    <3> QED BY <2>4, <3>1, <3>2, <3>3, <3>6 DEF WithNext
  <2> QED BY <2>5, <2>6
<1> HIDE DEF S
<1>3. Nat \subseteq S
  BY <1>1, <1>2, Counting
<1> QED BY <1>3 DEF S

-----------------------------------------------------------------------------
(* Responses written one after the other.                                    *)

Encodings(responses, encoding) == [i \in DOMAIN responses |-> encoding[responses[i]]]

LEMMA EncodingsAppend ==
    ASSUME NEW R, NEW encoding \in [R -> Seq(Byte)], NEW rs \in Seq(R), NEW r \in R
    PROVE  /\ Encodings(rs, encoding) \in Seq(Seq(Byte))
           /\ Encodings(Append(rs, r), encoding) = Append(Encodings(rs, encoding), encoding[r])
<1>1. PICK n \in Nat : n = Len(rs) /\ DOMAIN rs = 1 .. n
  BY LenProperties
<1>2. \A i \in 1 .. n : encoding[rs[i]] \in Seq(Byte)
  BY <1>1, ElementOfSeq
<1>3. PICK a \in Seq(Seq(Byte)) : a = Encodings(rs, encoding)
  <2>1. Encodings(rs, encoding) = [i \in 1 .. n |-> encoding[rs[i]]]
    BY <1>1 DEF Encodings
  <2>2. [i \in 1 .. n |-> encoding[rs[i]]] \in Seq(Seq(Byte))
    BY <1>2
  <2> QED BY <2>1, <2>2
<1>4. Len(a) = n /\ \A i \in 1 .. n : a[i] = encoding[rs[i]]
  <2>1. a = [i \in 1 .. n |-> encoding[rs[i]]]
    BY <1>1, <1>3 DEF Encodings
  <2> QED BY <1>1, <2>1
<1>5. PICK longer \in Seq(R) : longer = Append(rs, r)
  BY AppendProperties
<1>6. /\ Len(longer) = n + 1 /\ DOMAIN longer = 1 .. n + 1
      /\ longer[n + 1] = r /\ \A i \in 1 .. n : longer[i] = rs[i]
  BY <1>1, <1>5, AppendProperties, LenProperties
<1>7. \A i \in 1 .. n + 1 : encoding[longer[i]] \in Seq(Byte)
  BY <1>5, <1>6, ElementOfSeq
<1>8. PICK b \in Seq(Seq(Byte)) : b = Encodings(longer, encoding)
  <2>1. Encodings(longer, encoding) = [i \in 1 .. n + 1 |-> encoding[longer[i]]]
    BY <1>6 DEF Encodings
  <2>2. [i \in 1 .. n + 1 |-> encoding[longer[i]]] \in Seq(Seq(Byte))
    BY <1>7
  <2> QED BY <2>1, <2>2
<1>9. Len(b) = n + 1 /\ \A i \in 1 .. n + 1 : b[i] = encoding[longer[i]]
  <2>1. b = [i \in 1 .. n + 1 |-> encoding[longer[i]]]
    BY <1>6, <1>8 DEF Encodings
  <2> QED BY <2>1
<1>10. PICK x \in Seq(Byte) : x = encoding[r]
  OBVIOUS
<1>11. PICK c \in Seq(Seq(Byte)) : /\ c = Append(a, x)
                                   /\ Len(c) = n + 1
                                   /\ c[n + 1] = x
                                   /\ \A i \in 1 .. n : c[i] = a[i]
  <2>1. PICK c \in Seq(Seq(Byte)) : c = Append(a, x)
    BY AppendProperties
  <2>2. Len(c) = n + 1 /\ c[n + 1] = x /\ \A i \in 1 .. n : c[i] = a[i]
    BY <1>4, <2>1, AppendProperties
  <2> QED BY <2>1, <2>2
<1>12. ASSUME NEW i \in 1 .. n + 1
       PROVE  b[i] = c[i]
  <2>1. CASE i = n + 1
    BY <1>6, <1>9, <1>10, <1>11, <2>1
  <2>2. CASE i # n + 1
    <3>1. i \in 1 .. n
      BY <2>2
    <3>2. longer[i] = rs[i] /\ c[i] = a[i] /\ a[i] = encoding[rs[i]]
      BY <1>4, <1>6, <1>11, <3>1
    <3>3. b[i] = encoding[longer[i]]
      BY <1>9
    <3> QED BY <3>2, <3>3
  <2> QED BY <2>1, <2>2
<1>13. b = c
  BY <1>9, <1>11, <1>12, SeqEqual
<1> QED BY <1>3, <1>5, <1>8, <1>10, <1>11, <1>13

LEMMA WrittenEmpty ==
    ASSUME NEW encoding
    PROVE  Written(<<>>, encoding) = <<>>
<1>1. Encodings(<<>>, encoding) = <<>>
  BY DEF Encodings
<1> QED BY <1>1, FlattenEmpty DEF Written, Encodings

LEMMA WrittenType ==
    ASSUME NEW R, NEW encoding \in [R -> Seq(Byte)], NEW rs \in Seq(R)
    PROVE  Written(rs, encoding) \in Seq(Byte)
<1>1. CASE rs = <<>>
  <2>1. <<>> \in Seq(Byte)
    OBVIOUS
  <2> QED BY <1>1, <2>1, WrittenEmpty
<1>2. CASE rs # <<>>
  <2>1. PICK r : r \in R
    BY <1>2, HeadTailProperties
  <2>2. Encodings(rs, encoding) \in Seq(Seq(Byte))
    BY <2>1, EncodingsAppend
  <2>3. FlattenSeq(Encodings(rs, encoding)) \in Seq(Byte)
    BY <2>2, FlattenType
  <2> QED BY <2>3 DEF Written, Encodings
<1> QED BY <1>1, <1>2

\* One response more puts its bytes behind the others'.
LEMMA WrittenAppend ==
    ASSUME NEW R, NEW encoding \in [R -> Seq(Byte)], NEW rs \in Seq(R), NEW r \in R
    PROVE  /\ Append(rs, r) \in Seq(R)
           /\ Written(rs, encoding) \in Seq(Byte)
           /\ encoding[r] \in Seq(Byte)
           /\ Written(Append(rs, r), encoding) = Written(rs, encoding) \o encoding[r]
<1>1. PICK longer \in Seq(R) : longer = Append(rs, r)
  BY AppendProperties
<1>2. PICK x \in Seq(Byte) : x = encoding[r]
  OBVIOUS
<1>3. PICK a \in Seq(Seq(Byte)) :
          a = Encodings(rs, encoding) /\ Encodings(longer, encoding) = Append(a, x)
  BY <1>1, <1>2, EncodingsAppend
<1>4. FlattenSeq(Append(a, x)) = FlattenSeq(a) \o x
  BY FlattenAppend
<1>5. /\ Written(rs, encoding) = FlattenSeq(a)
      /\ Written(longer, encoding) = FlattenSeq(Append(a, x))
  BY <1>3 DEF Written, Encodings
<1>6. Written(rs, encoding) \in Seq(Byte)
  BY WrittenType
<1> QED BY <1>1, <1>2, <1>4, <1>5, <1>6

\* The first of some responses begin their bytes.
LEMMA WrittenGrows ==
    ASSUME NEW R, NEW encoding \in [R -> Seq(Byte)],
           NEW some \in Seq(R), NEW all \in Seq(R), Begins(some, all)
    PROVE  Begins(Written(some, encoding), Written(all, encoding))
<1> DEFINE P == {e \in Seq(R) : Begins(Written(some, encoding), Written(e, encoding))}
<1>1. PICK first \in Seq(Byte) : first = Written(some, encoding)
  BY WrittenType
<1>2. some \in P
  BY <1>1, BeginsSelf
<1>3. ASSUME NEW e \in Seq(R), e \in P, Begins(e, all), Len(e) < Len(all)
      PROVE  Append(e, all[Len(e) + 1]) \in P
  <2>1. PICK r \in R : r = all[Len(e) + 1]
    BY <1>3, BeginsAppend
  <2>2. PICK x \in Seq(Byte), y \in Seq(Byte) :
            /\ x = Written(e, encoding)
            /\ y = encoding[r]
            /\ Written(Append(e, r), encoding) = x \o y
            /\ Append(e, r) \in Seq(R)
    <3>1. /\ Append(e, r) \in Seq(R)
          /\ Written(e, encoding) \in Seq(Byte)
          /\ encoding[r] \in Seq(Byte)
          /\ Written(Append(e, r), encoding) = Written(e, encoding) \o encoding[r]
      BY WrittenAppend, ZenonT(40)
    <3> QED BY <3>1
  <2>3. Begins(first, x) /\ Begins(x, x \o y) /\ x \o y \in Seq(Byte)
    BY <1>1, <1>3, <2>2, BeginsConcat, ConcatProperties
  <2>4. Begins(first, x \o y)
    BY <2>3, BeginsTransitive
  <2> QED BY <1>1, <2>1, <2>2, <2>4
<1> HIDE DEF P
<1>4. all \in P
  BY <1>2, <1>3, BeginningGrows
<1> QED BY <1>4 DEF P

\* The next response begins what is left of them.
LEMMA WrittenNext ==
    ASSUME NEW R, NEW encoding \in [R -> Seq(Byte)],
           NEW some \in Seq(R), NEW all \in Seq(R), Begins(some, all), Len(some) < Len(all),
           NEW tail \in Seq(Byte)
    PROVE  \E r \in R :
               /\ r = all[Len(some) + 1]
               /\ Append(some, r) \in Seq(R)
               /\ Begins(Append(some, r), all)
               /\ Len(Written(some, encoding)) \in 0 .. Len(Written(all, encoding) \o tail)
               /\ Len(Written(Append(some, r), encoding)) =
                      Len(Written(some, encoding)) + Len(encoding[r])
               /\ Begins(encoding[r],
                         From(Written(all, encoding) \o tail, Len(Written(some, encoding))))
<1>1. PICK r \in R : /\ r = all[Len(some) + 1]
                     /\ Append(some, r) \in Seq(R)
                     /\ Begins(Append(some, r), all)
  BY BeginsAppend
<1>2. PICK longer \in Seq(R) : longer = Append(some, r)
  BY <1>1
<1>3. PICK x \in Seq(Byte), y \in Seq(Byte) :
          x = Written(some, encoding) /\ y = encoding[r] /\ Written(longer, encoding) = x \o y
  <2>1. /\ Append(some, r) \in Seq(R)
        /\ Written(some, encoding) \in Seq(Byte)
        /\ encoding[r] \in Seq(Byte)
        /\ Written(Append(some, r), encoding) = Written(some, encoding) \o encoding[r]
    BY WrittenAppend, ZenonT(40)
  <2> QED BY <1>2, <2>1
<1>4. PICK z \in Seq(Byte) : z = Written(all, encoding)
  BY WrittenType
<1>5. PICK whole \in Seq(Byte) : whole = z \o tail /\ Begins(z, whole)
  <2>1. z \o tail \in Seq(Byte) /\ Begins(z, z \o tail)
    BY ConcatProperties, BeginsConcat
  <2> QED BY <2>1
<1>6. PICK w \in Seq(Byte) : w = x \o y /\ Len(w) = Len(x) + Len(y)
  BY ConcatProperties
<1>7. Begins(w, z)
  BY <1>1, <1>2, <1>3, <1>4, <1>6, WrittenGrows
<1>8. Begins(w, whole)
  BY <1>5, <1>7, BeginsTransitive
<1>9. Len(x) \in 0 .. Len(w) /\ Len(x) \in 0 .. Len(whole)
  BY <1>6, <1>8, LenProperties DEF Begins
<1>10. Begins(From(w, Len(x)), From(whole, Len(x)))
  BY <1>8, <1>9, BeginsFrom
<1>11. From(w, Len(x)) = y
  BY <1>6, FromConcat
<1>12. Begins(y, From(whole, Len(x)))
  BY <1>10, <1>11
<1> QED BY <1>1, <1>2, <1>3, <1>4, <1>5, <1>6, <1>9, <1>12

(* The loop finds the elements that were written, one by one. *)
LEMMA ElementsRead ==
    ASSUME NEW R, NEW encoding \in [R -> Seq(Byte)], NEW rs \in Seq(R),
           NEW header \in Seq(Byte), Len(header) > 0,
           NEW parse, Steady(parse), Reads(parse, encoding, R)
    PROVE  ParseElements(header \o Written(rs, encoding), Len(rs), Len(header), parse) =
               Parsed(rs, Len(header \o Written(rs, encoding)))
<1>1. PICK z \in Seq(Byte) : z = Written(rs, encoding)
  BY WrittenType
<1>2. PICK bytes \in Seq(Byte) : bytes = header \o z
  BY ConcatProperties
<1>3. PICK h \in Nat : h = Len(header)
  BY LenProperties
<1> DEFINE P == {e \in Seq(R) : ParseElements(bytes, Len(e), h, parse) =
                                    Parsed(e, h + Len(Written(e, encoding)))}
<1>4. <<>> \in P /\ Begins(<<>>, rs)
  <2>1. <<>> \in Seq(R) /\ Len(<<>>) = 0
    OBVIOUS
  <2>2. ParseElements(bytes, 0, h, parse) = Parsed(<<>>, h)
    BY ElementsUnfold
  <2>3. h + Len(Written(<<>>, encoding)) = h
    <3>1. Written(<<>>, encoding) = <<>>
      BY WrittenEmpty
    <3>2. Len(Written(<<>>, encoding)) = 0
      BY <2>1, <3>1
    <3>3. h + 0 = h
      OBVIOUS
    <3> QED BY <3>2, <3>3
  <2> QED BY <2>1, <2>2, <2>3, BeginsEmpty
<1>5. ASSUME NEW e \in Seq(R), e \in P, Begins(e, rs), Len(e) < Len(rs)
      PROVE  Append(e, rs[Len(e) + 1]) \in P
  <2>1. <<>> \in Seq(Byte) /\ z \o <<>> = z
    BY ConcatEmptySeq
  <2>2. PICK r \in R :
            /\ r = rs[Len(e) + 1]
            /\ Append(e, r) \in Seq(R)
            /\ Len(Written(e, encoding)) \in 0 .. Len(z)
            /\ Len(Written(Append(e, r), encoding)) = Len(Written(e, encoding)) + Len(encoding[r])
            /\ Begins(encoding[r], From(z, Len(Written(e, encoding))))
    <3>1. \E r \in R :
              /\ r = rs[Len(e) + 1]
              /\ Append(e, r) \in Seq(R)
              /\ Begins(Append(e, r), rs)
              /\ Len(Written(e, encoding)) \in 0 .. Len(Written(rs, encoding) \o <<>>)
              /\ Len(Written(Append(e, r), encoding)) =
                     Len(Written(e, encoding)) + Len(encoding[r])
              /\ Begins(encoding[r],
                        From(Written(rs, encoding) \o <<>>, Len(Written(e, encoding))))
      BY <1>5, <2>1, WrittenNext
    <3> QED BY <1>1, <2>1, <3>1
  <2>3. PICK k \in 0 .. Len(z), y \in Seq(Byte), rest \in Seq(Byte) :
            k = Len(Written(e, encoding)) /\ y = encoding[r] /\ rest = From(z, k)
    BY <2>2, FromProperties
  <2>4. From(bytes, h + k) = rest
    <3>1. From(bytes, h) = z
      BY <1>2, <1>3, FromConcat
    <3>2. k \in Nat /\ h + k <= Len(bytes)
      <4>1. Len(bytes) = h + Len(z) /\ Len(z) \in Nat
        BY <1>2, <1>3, ConcatProperties, LenProperties
      <4> QED BY <4>1
    <3>3. From(From(bytes, h), k) = From(bytes, h + k)
      BY <3>2, FromFrom
    <3> QED BY <2>3, <3>1, <3>3
  <2>5. parse[y] = Parsed(r, Len(y))
    BY <2>3 DEF Reads
  <2>6. parse[rest] = Parsed(r, Len(y))
    <3>1. Begins(y, rest)
      BY <2>2, <2>3
    <3>2. parse[y] # Incomplete
      <4>1. parse[y].kind = "parsed"
        BY <2>5, ResultKinds
      <4> QED BY <4>1, ResultKinds
    <3> QED BY <2>5, <3>1, <3>2 DEF Steady
  <2>7. PICK n, before : n \in Nat /\ n = Len(e) /\ before = Parsed(e, h + k)
    BY LenProperties
  <2>8. ParseElements(bytes, n, h, parse) = before
    BY <1>5, <2>3, <2>7
  <2>9. ParseElements(bytes, n + 1, h, parse) = WithNext(bytes, before, parse)
    <3>1. n \in Nat
      BY <2>7
    <3>2. \A i \in Nat :
              ParseElements(bytes, i + 1, h, parse) =
                  WithNext(bytes, ParseElements(bytes, i, h, parse), parse)
      BY ElementsUnfold, Zenon
    <3> QED BY <2>8, <3>1, <3>2
  <2>10. WithNext(bytes, before, parse) = Parsed(Append(e, r), (h + k) + Len(y))
    <3>1. before.kind = "parsed" /\ before.data = e /\ before.num_bytes_parsed = h + k
      BY <2>7, ResultKinds
    <3>2. parse[From(bytes, before.num_bytes_parsed)] = Parsed(r, Len(y))
      BY <2>4, <2>6, <3>1
    <3>3. PICK element : element = Parsed(r, Len(y))
      OBVIOUS
    <3>4. element.kind = "parsed" /\ element.data = r /\ element.num_bytes_parsed = Len(y)
      BY <3>3, ResultKinds
    <3>5. WithNext(bytes, before, parse) =
              Parsed(Append(before.data, element.data),
                     before.num_bytes_parsed + element.num_bytes_parsed)
      BY <3>1, <3>2, <3>3, <3>4 DEF WithNext
    <3> QED BY <3>1, <3>4, <3>5
  <2>11. Len(Append(e, r)) = n + 1
    BY <2>7, AppendProperties
  <2>12. (h + k) + Len(y) = h + Len(Written(Append(e, r), encoding))
    <3>1. k \in Nat /\ Len(y) \in Nat
      BY LenProperties
    <3>2. Len(Written(Append(e, r), encoding)) = k + Len(y)
      BY <2>2, <2>3
    <3> QED BY <3>1, <3>2
  <2>13. ParseElements(bytes, Len(Append(e, r)), h, parse) =
             Parsed(Append(e, r), h + Len(Written(Append(e, r), encoding)))
    BY <2>9, <2>10, <2>11, <2>12
  <2> QED BY <2>2, <2>13
<1>6. rs \in P
  <2> HIDE DEF P
  <2>1. <<>> \in Seq(R)
    OBVIOUS
  <2> QED BY <1>4, <1>5, <2>1, BeginningGrows
<1>7. Len(bytes) = h + Len(z)
  BY <1>2, <1>3, ConcatProperties
<1> QED BY <1>1, <1>2, <1>3, <1>6, <1>7

-----------------------------------------------------------------------------
(* The recursions over the depth.                                            *)

BytesOver(depth, inner) ==
    [response \in ResponsesUpTo[depth] |-> BytesWith(response, inner)]

NoStack == [bytes \in Seq(Byte) |-> Overflowed]

ParseOver(inner) == [bytes \in Seq(Byte) |-> ParseWith(bytes, inner)]

\* What ResponsesUpTo says of a table of the depths up to m.
Nests(f, m) ==
    \A n \in 0 .. m : f[n] = IF n = 0 THEN {} ELSE ResponsesOver(f[n - 1])

LEMMA NestsExists == \A m \in Nat : \E f : Nests(f, m)
<1> DEFINE S == {m \in Nat : \E f : Nests(f, m)}
<1>1. 0 \in S
  <2> DEFINE f == [n \in 0 .. 0 |-> {}]
  <2>1. f[0] = {}
    OBVIOUS
  <2> HIDE DEF f
  <2>2. Nests(f, 0)
    BY <2>1 DEF Nests
  <2> QED BY <2>2
<1>2. ASSUME NEW m \in Nat, m \in S
      PROVE  m + 1 \in S
  <2>1. PICK f : Nests(f, m)
    BY <1>2
  <2> DEFINE next == ResponsesOver(f[m])
  <2> HIDE DEF next
  <2> DEFINE g == [n \in 0 .. m + 1 |-> IF n = m + 1 THEN next ELSE f[n]]
  <2>2. g[m + 1] = next /\ \A n \in 0 .. m : g[n] = f[n]
    OBVIOUS
  <2> HIDE DEF g
  <2>3. ASSUME NEW n \in 0 .. m + 1
        PROVE  g[n] = IF n = 0 THEN {} ELSE ResponsesOver(g[n - 1])
    <3>1. CASE n = m + 1
      <4>1. n - 1 = m /\ n # 0
        BY <3>1
      <4>2. m \in 0 .. m
        OBVIOUS
      <4>3. g[m] = f[m]
        BY <2>2, <4>2
      <4> QED BY <2>2, <3>1, <4>1, <4>3 DEF next
    <3>2. CASE n # m + 1
      <4>1. n \in 0 .. m /\ (n # 0 => n - 1 \in 0 .. m)
        BY <3>2
      <4>2. f[n] = IF n = 0 THEN {} ELSE ResponsesOver(f[n - 1])
        BY <2>1, <4>1 DEF Nests
      <4>3. n # 0 => g[n - 1] = f[n - 1]
        BY <2>2, <4>1
      <4> QED BY <2>2, <4>1, <4>2, <4>3
    <3> QED BY <3>1, <3>2
  <2>4. Nests(g, m + 1)
    BY <2>3 DEF Nests
  <2> QED BY <2>4
<1> HIDE DEF S
<1>3. Nat \subseteq S
  BY <1>1, <1>2, Counting
<1> QED BY <1>3 DEF S

LEMMA NestsOnce ==
    ASSUME NEW m \in Nat, NEW f, NEW g, Nests(f, m), Nests(g, m)
    PROVE  \A n \in 0 .. m : f[n] = g[n]
<1> DEFINE S == {n \in Nat : n <= m => f[n] = g[n]}
<1>1. 0 \in S
  BY DEF Nests
<1>2. ASSUME NEW n \in Nat, n \in S
      PROVE  n + 1 \in S
  <2> SUFFICES ASSUME n + 1 <= m PROVE f[n + 1] = g[n + 1]
    OBVIOUS
  <2>1. f[n] = g[n]
    BY <1>2
  <2>2. PICK k \in 0 .. m : k = n + 1 /\ k # 0 /\ k - 1 = n
    OBVIOUS
  <2>3. f[k] = ResponsesOver(f[k - 1]) /\ g[k] = ResponsesOver(g[k - 1])
    BY <2>2 DEF Nests
  <2> QED BY <2>1, <2>2, <2>3
<1> HIDE DEF S
<1>3. Nat \subseteq S
  BY <1>1, <1>2, Counting
<1> QED BY <1>3 DEF S

\* ResponsesUpTo, one depth at a time.
LEMMA ResponsesUpToUnfolds ==
    /\ ResponsesUpTo[0] = {}
    /\ \A n \in Nat : ResponsesUpTo[n + 1] = ResponsesOver(ResponsesUpTo[n])
<1> DEFINE Table(m) == CHOOSE f : Nests(f, m)
           Is(d) == d = [n \in Nat |-> IF n = 0 THEN {} ELSE ResponsesOver(d[n - 1])]
           G == [n \in Nat |-> Table(n)[n]]
<1>1. \A m \in Nat : Nests(Table(m), m)
  BY NestsExists
<1> HIDE DEF Table
<1>2. \A n \in Nat : G[n] = Table(n)[n]
  OBVIOUS
<1>3. ASSUME NEW n \in Nat
      PROVE  G[n] = IF n = 0 THEN {} ELSE ResponsesOver(G[n - 1])
  <2>1. Table(n)[n] = IF n = 0 THEN {} ELSE ResponsesOver(Table(n)[n - 1])
    <3>1. n \in 0 .. n
      OBVIOUS
    <3> QED BY <1>1, <3>1 DEF Nests
  <2>2. CASE n = 0
    BY <1>2, <2>1, <2>2
  <2>3. CASE n # 0
    <3>1. PICK k \in Nat : k = n - 1
      BY <2>3
    <3>2. Nests(Table(n), k)
      <4>1. \A i \in 0 .. k : i \in 0 .. n
        BY <3>1
      <4>2. Nests(Table(n), n)
        BY <1>1
      <4> QED BY <4>1, <4>2 DEF Nests
    <3>3. k \in 0 .. k
      OBVIOUS
    <3>4. Table(n)[k] = Table(k)[k]
      BY <1>1, <3>2, <3>3, NestsOnce
    <3>5. G[n] = Table(n)[n] /\ G[k] = Table(k)[k]
      BY <1>2
    <3> HIDE DEF G
    <3> QED BY <2>1, <2>3, <3>1, <3>4, <3>5
  <2> QED BY <2>2, <2>3
<1>4. G = [n \in Nat |-> G[n]]
  OBVIOUS
<1> HIDE DEF G
<1>5. Is(G)
  <2> DEFINE H == [n \in Nat |-> IF n = 0 THEN {} ELSE ResponsesOver(G[n - 1])]
  <2>1. \A n \in Nat : G[n] = H[n]
    BY <1>3
  <2>2. H = [n \in Nat |-> H[n]]
    OBVIOUS
  <2> HIDE DEF H
  <2>3. G = H
    BY <1>4, <2>1, <2>2
  <2> QED BY <2>3 DEF H
<1>6. Is(ResponsesUpTo)
  <2>1. ResponsesUpTo = CHOOSE d : Is(d)
    BY DEF ResponsesUpTo
  <2> HIDE DEF Is
  <2> QED BY <1>5, <2>1
<1>7. ResponsesUpTo[0] = {}
  BY <1>6
<1>8. ASSUME NEW n \in Nat
      PROVE  ResponsesUpTo[n + 1] = ResponsesOver(ResponsesUpTo[n])
  <2>1. PICK k \in Nat : k = n + 1 /\ k # 0 /\ k - 1 = n
    OBVIOUS
  <2>2. ResponsesUpTo[k] = ResponsesOver(ResponsesUpTo[k - 1])
    BY <1>6, <2>1
  <2> QED BY <2>1, <2>2
<1> QED BY <1>7, <1>8

\* What BytesUpTo says of a table of the depths up to m.
Encodes(f, m) ==
    \A n \in 0 .. m : f[n] = IF n = 0 THEN <<>> ELSE BytesOver(n, f[n - 1])

LEMMA EncodesExists == \A m \in Nat : \E f : Encodes(f, m)
<1> DEFINE S == {m \in Nat : \E f : Encodes(f, m)}
<1>1. 0 \in S
  <2> DEFINE f == [n \in 0 .. 0 |-> <<>>]
  <2>1. f[0] = <<>>
    OBVIOUS
  <2> HIDE DEF f
  <2>2. Encodes(f, 0)
    BY <2>1 DEF Encodes
  <2> QED BY <2>2
<1>2. ASSUME NEW m \in Nat, m \in S
      PROVE  m + 1 \in S
  <2>1. PICK f : Encodes(f, m)
    BY <1>2
  <2> DEFINE next == BytesOver(m + 1, f[m])
  <2> HIDE DEF next
  <2> DEFINE g == [n \in 0 .. m + 1 |-> IF n = m + 1 THEN next ELSE f[n]]
  <2>2. g[m + 1] = next /\ \A n \in 0 .. m : g[n] = f[n]
    OBVIOUS
  <2> HIDE DEF g
  <2>3. ASSUME NEW n \in 0 .. m + 1
        PROVE  g[n] = IF n = 0 THEN <<>> ELSE BytesOver(n, g[n - 1])
    <3>1. CASE n = m + 1
      <4>1. n - 1 = m /\ n # 0
        BY <3>1
      <4>2. m \in 0 .. m
        OBVIOUS
      <4>3. g[m] = f[m]
        BY <2>2, <4>2
      <4> QED BY <2>2, <3>1, <4>1, <4>3 DEF next
    <3>2. CASE n # m + 1
      <4>1. n \in 0 .. m /\ (n # 0 => n - 1 \in 0 .. m)
        BY <3>2
      <4>2. f[n] = IF n = 0 THEN <<>> ELSE BytesOver(n, f[n - 1])
        BY <2>1, <4>1 DEF Encodes
      <4>3. n # 0 => g[n - 1] = f[n - 1]
        BY <2>2, <4>1
      <4> QED BY <2>2, <4>1, <4>2, <4>3
    <3> QED BY <3>1, <3>2
  <2>4. Encodes(g, m + 1)
    BY <2>3 DEF Encodes
  <2> QED BY <2>4
<1> HIDE DEF S
<1>3. Nat \subseteq S
  BY <1>1, <1>2, Counting
<1> QED BY <1>3 DEF S

LEMMA EncodesOnce ==
    ASSUME NEW m \in Nat, NEW f, NEW g, Encodes(f, m), Encodes(g, m)
    PROVE  \A n \in 0 .. m : f[n] = g[n]
<1> DEFINE S == {n \in Nat : n <= m => f[n] = g[n]}
<1>1. 0 \in S
  BY DEF Encodes
<1>2. ASSUME NEW n \in Nat, n \in S
      PROVE  n + 1 \in S
  <2> SUFFICES ASSUME n + 1 <= m PROVE f[n + 1] = g[n + 1]
    OBVIOUS
  <2>1. f[n] = g[n]
    BY <1>2
  <2>2. PICK k \in 0 .. m : k = n + 1 /\ k # 0 /\ k - 1 = n
    OBVIOUS
  <2>3. f[k] = BytesOver(k, f[k - 1]) /\ g[k] = BytesOver(k, g[k - 1])
    BY <2>2 DEF Encodes
  <2> QED BY <2>1, <2>2, <2>3
<1> HIDE DEF S
<1>3. Nat \subseteq S
  BY <1>1, <1>2, Counting
<1> QED BY <1>3 DEF S

\* BytesUpTo, one depth at a time.
LEMMA BytesUpToUnfolds ==
    /\ BytesUpTo[0] = <<>>
    /\ \A n \in Nat : BytesUpTo[n + 1] = BytesOver(n + 1, BytesUpTo[n])
<1> DEFINE Table(m) == CHOOSE f : Encodes(f, m)
           Is(d) == d = [n \in Nat |-> IF n = 0 THEN <<>> ELSE BytesOver(n, d[n - 1])]
           G == [n \in Nat |-> Table(n)[n]]
<1>1. \A m \in Nat : Encodes(Table(m), m)
  BY EncodesExists
<1> HIDE DEF Table
<1>2. \A n \in Nat : G[n] = Table(n)[n]
  OBVIOUS
<1>3. ASSUME NEW n \in Nat
      PROVE  G[n] = IF n = 0 THEN <<>> ELSE BytesOver(n, G[n - 1])
  <2>1. Table(n)[n] = IF n = 0 THEN <<>> ELSE BytesOver(n, Table(n)[n - 1])
    <3>1. n \in 0 .. n
      OBVIOUS
    <3> QED BY <1>1, <3>1 DEF Encodes
  <2>2. CASE n = 0
    BY <1>2, <2>1, <2>2
  <2>3. CASE n # 0
    <3>1. PICK k \in Nat : k = n - 1
      BY <2>3
    <3>2. Encodes(Table(n), k)
      <4>1. \A i \in 0 .. k : i \in 0 .. n
        BY <3>1
      <4>2. Encodes(Table(n), n)
        BY <1>1
      <4> QED BY <4>1, <4>2 DEF Encodes
    <3>3. k \in 0 .. k
      OBVIOUS
    <3>4. Table(n)[k] = Table(k)[k]
      BY <1>1, <3>2, <3>3, EncodesOnce
    <3>5. G[n] = Table(n)[n] /\ G[k] = Table(k)[k]
      BY <1>2
    <3> HIDE DEF G
    <3> QED BY <2>1, <2>3, <3>1, <3>4, <3>5
  <2> QED BY <2>2, <2>3
<1>4. G = [n \in Nat |-> G[n]]
  OBVIOUS
<1> HIDE DEF G
<1>5. Is(G)
  <2> DEFINE H == [n \in Nat |-> IF n = 0 THEN <<>> ELSE BytesOver(n, G[n - 1])]
  <2>1. \A n \in Nat : G[n] = H[n]
    BY <1>3
  <2>2. H = [n \in Nat |-> H[n]]
    OBVIOUS
  <2> HIDE DEF H
  <2>3. G = H
    BY <1>4, <2>1, <2>2
  <2> QED BY <2>3 DEF H
<1>6. Is(BytesUpTo)
  <2>1. BytesUpTo = CHOOSE d : Is(d)
    BY DEF BytesUpTo, BytesOver
  <2> HIDE DEF Is
  <2> QED BY <1>5, <2>1
<1>7. BytesUpTo[0] = <<>>
  BY <1>6
<1>8. ASSUME NEW n \in Nat
      PROVE  BytesUpTo[n + 1] = BytesOver(n + 1, BytesUpTo[n])
  <2>1. PICK k \in Nat : k = n + 1 /\ k # 0 /\ k - 1 = n
    OBVIOUS
  <2>2. BytesUpTo[k] = BytesOver(k, BytesUpTo[k - 1])
    BY <1>6, <2>1
  <2> QED BY <2>1, <2>2
<1> QED BY <1>7, <1>8

\* What ParseUpTo says of a table of the depths up to m.
Parses(f, m) ==
    \A n \in 0 .. m : f[n] = IF n = 0 THEN NoStack ELSE ParseOver(f[n - 1])

LEMMA ParsesExists == \A m \in Nat : \E f : Parses(f, m)
<1> DEFINE S == {m \in Nat : \E f : Parses(f, m)}
<1>1. 0 \in S
  <2> DEFINE f == [n \in 0 .. 0 |-> NoStack]
  <2>1. f[0] = NoStack
    OBVIOUS
  <2> HIDE DEF f
  <2>2. Parses(f, 0)
    BY <2>1 DEF Parses
  <2> QED BY <2>2
<1>2. ASSUME NEW m \in Nat, m \in S
      PROVE  m + 1 \in S
  <2>1. PICK f : Parses(f, m)
    BY <1>2
  <2> DEFINE next == ParseOver(f[m])
  <2> HIDE DEF next
  <2> DEFINE g == [n \in 0 .. m + 1 |-> IF n = m + 1 THEN next ELSE f[n]]
  <2>2. g[m + 1] = next /\ \A n \in 0 .. m : g[n] = f[n]
    OBVIOUS
  <2> HIDE DEF g
  <2>3. ASSUME NEW n \in 0 .. m + 1
        PROVE  g[n] = IF n = 0 THEN NoStack ELSE ParseOver(g[n - 1])
    <3>1. CASE n = m + 1
      <4>1. n - 1 = m /\ n # 0
        BY <3>1
      <4>2. m \in 0 .. m
        OBVIOUS
      <4>3. g[m] = f[m]
        BY <2>2, <4>2
      <4> QED BY <2>2, <3>1, <4>1, <4>3 DEF next
    <3>2. CASE n # m + 1
      <4>1. n \in 0 .. m /\ (n # 0 => n - 1 \in 0 .. m)
        BY <3>2
      <4>2. f[n] = IF n = 0 THEN NoStack ELSE ParseOver(f[n - 1])
        BY <2>1, <4>1 DEF Parses
      <4>3. n # 0 => g[n - 1] = f[n - 1]
        BY <2>2, <4>1
      <4> QED BY <2>2, <4>1, <4>2, <4>3
    <3> QED BY <3>1, <3>2
  <2>4. Parses(g, m + 1)
    BY <2>3 DEF Parses
  <2> QED BY <2>4
<1> HIDE DEF S
<1>3. Nat \subseteq S
  BY <1>1, <1>2, Counting
<1> QED BY <1>3 DEF S

LEMMA ParsesOnce ==
    ASSUME NEW m \in Nat, NEW f, NEW g, Parses(f, m), Parses(g, m)
    PROVE  \A n \in 0 .. m : f[n] = g[n]
<1> DEFINE S == {n \in Nat : n <= m => f[n] = g[n]}
<1>1. 0 \in S
  BY DEF Parses
<1>2. ASSUME NEW n \in Nat, n \in S
      PROVE  n + 1 \in S
  <2> SUFFICES ASSUME n + 1 <= m PROVE f[n + 1] = g[n + 1]
    OBVIOUS
  <2>1. f[n] = g[n]
    BY <1>2
  <2>2. PICK k \in 0 .. m : k = n + 1 /\ k # 0 /\ k - 1 = n
    OBVIOUS
  <2>3. f[k] = ParseOver(f[k - 1]) /\ g[k] = ParseOver(g[k - 1])
    BY <2>2 DEF Parses
  <2> QED BY <2>1, <2>2, <2>3
<1> HIDE DEF S
<1>3. Nat \subseteq S
  BY <1>1, <1>2, Counting
<1> QED BY <1>3 DEF S

\* ParseUpTo, one depth at a time.
LEMMA ParseUpToUnfolds ==
    /\ ParseUpTo[0] = NoStack
    /\ \A n \in Nat : ParseUpTo[n + 1] = ParseOver(ParseUpTo[n])
<1> DEFINE Table(m) == CHOOSE f : Parses(f, m)
           Is(d) == d = [n \in Nat |-> IF n = 0 THEN NoStack ELSE ParseOver(d[n - 1])]
           G == [n \in Nat |-> Table(n)[n]]
<1>1. \A m \in Nat : Parses(Table(m), m)
  BY ParsesExists
<1> HIDE DEF Table
<1>2. \A n \in Nat : G[n] = Table(n)[n]
  OBVIOUS
<1>3. ASSUME NEW n \in Nat
      PROVE  G[n] = IF n = 0 THEN NoStack ELSE ParseOver(G[n - 1])
  <2>1. Table(n)[n] = IF n = 0 THEN NoStack ELSE ParseOver(Table(n)[n - 1])
    <3>1. n \in 0 .. n
      OBVIOUS
    <3> QED BY <1>1, <3>1 DEF Parses
  <2>2. CASE n = 0
    BY <1>2, <2>1, <2>2
  <2>3. CASE n # 0
    <3>1. PICK k \in Nat : k = n - 1
      BY <2>3
    <3>2. Parses(Table(n), k)
      <4>1. \A i \in 0 .. k : i \in 0 .. n
        BY <3>1
      <4>2. Parses(Table(n), n)
        BY <1>1
      <4> QED BY <4>1, <4>2 DEF Parses
    <3>3. k \in 0 .. k
      OBVIOUS
    <3>4. Table(n)[k] = Table(k)[k]
      BY <1>1, <3>2, <3>3, ParsesOnce
    <3>5. G[n] = Table(n)[n] /\ G[k] = Table(k)[k]
      BY <1>2
    <3> HIDE DEF G
    <3> QED BY <2>1, <2>3, <3>1, <3>4, <3>5
  <2> QED BY <2>2, <2>3
<1>4. G = [n \in Nat |-> G[n]]
  OBVIOUS
<1> HIDE DEF G
<1>5. Is(G)
  <2> DEFINE H == [n \in Nat |-> IF n = 0 THEN NoStack ELSE ParseOver(G[n - 1])]
  <2>1. \A n \in Nat : G[n] = H[n]
    BY <1>3
  <2>2. H = [n \in Nat |-> H[n]]
    OBVIOUS
  <2> HIDE DEF H
  <2>3. G = H
    BY <1>4, <2>1, <2>2
  <2> QED BY <2>3 DEF H
<1>6. Is(ParseUpTo)
  <2>1. ParseUpTo = CHOOSE d : Is(d)
    BY DEF ParseUpTo, ParseOver, NoStack
  <2> HIDE DEF Is
  <2> QED BY <1>5, <2>1
<1>7. ParseUpTo[0] = NoStack
  BY <1>6
<1>8. ASSUME NEW n \in Nat
      PROVE  ParseUpTo[n + 1] = ParseOver(ParseUpTo[n])
  <2>1. PICK k \in Nat : k = n + 1 /\ k # 0 /\ k - 1 = n
    OBVIOUS
  <2>2. ParseUpTo[k] = ParseOver(ParseUpTo[k - 1])
    BY <1>6, <2>1
  <2> QED BY <2>1, <2>2
<1> QED BY <1>7, <1>8

-----------------------------------------------------------------------------
(* Lines.                                                                    *)

LEMMA NoCr ==
    ASSUME NEW msg \in Seq(Byte), \A i \in 1 .. Len(msg) : msg[i] # CR
    PROVE  CrlfPositions(msg) = {}
<1> SUFFICES ASSUME NEW p \in CrlfPositions(msg) PROVE FALSE
  OBVIOUS
<1>1. Len(msg) \in Nat
  BY LenProperties
<1>2. p \in 0 .. Len(msg) - 2 /\ msg[p + 1] = CR
  BY DEF CrlfPositions
<1>3. p + 1 \in 1 .. Len(msg)
  BY <1>1, <1>2
<1> QED BY <1>2, <1>3

\* The limits, as numbers an i64 holds.
LEMMA Sizes ==
    /\ MaxDepth \in Nat /\ MaxCalls \in Nat /\ MaxI64 \in Nat
    /\ MaxCStringLength \in Nat /\ MaxCStringLength <= MaxI64
    /\ MaxCapacity \in Nat /\ MaxCapacity <= MaxI64
<1>1. MaxDepth \in Nat /\ MaxCalls \in Nat /\ MaxI64 \in Nat
  BY SizeAssumption
<1>2. MaxCStringLength \in 0 .. MaxI64 /\ MaxCapacity \in 0 .. MaxI64
  BY SizeAssumption
<1> QED BY <1>1, <1>2

LEMMA I64Reads ==
    ASSUME NEW n \in Nat, n <= MaxI64
    PROVE  IsI64(Decimal[n]) /\ I64Value(Decimal[n]) = n
<1>1. PICK d \in Seq(Digit) : d = Decimal[n] /\ d # <<>>
  BY DecimalReads
<1>2. Head(d) \in Digit
  BY <1>1, HeadTailProperties
<1>3. Head(d) # Minus
  BY <1>2 DEF Digit, Minus
<1>4. ~IsNegative(d)
  BY <1>3 DEF IsNegative
<1>5. IsUsize(d) /\ UsizeValue(d) = n
  BY <1>1, NumberReads
<1>6. IsSigned(d) /\ SignedValue(d) = n
  BY <1>4, <1>5 DEF IsSigned, SignedValue
<1>7. n \in I64
  BY Sizes DEF I64
<1> QED BY <1>1, <1>6, <1>7 DEF IsI64, I64Value

LEMMA SignedReads ==
    ASSUME NEW n \in I64
    PROVE  /\ SignedDecimal(n) \in Seq(Byte)
           /\ CrlfPositions(SignedDecimal(n)) = {}
           /\ IsI64(SignedDecimal(n))
           /\ I64Value(SignedDecimal(n)) = n
<1>0. n \in Int /\ n <= MaxI64
  BY Sizes DEF I64
<1>1. CASE ~(n < 0)
  <2>1. n \in Nat /\ n <= MaxI64
    BY <1>0, <1>1
  <2>2. SignedDecimal(n) = Decimal[n]
    BY <1>1 DEF SignedDecimal
  <2>3. PICK d \in Seq(Byte) : d = Decimal[n] /\ \A i \in 1 .. Len(d) : d[i] # CR
    BY <2>1, NumberReads
  <2>4. CrlfPositions(d) = {}
    BY <2>3, NoCr
  <2> QED BY <2>1, <2>2, <2>3, <2>4, I64Reads
<1>2. CASE n < 0
  <2>1. PICK k \in Nat : k = -n /\ -k = n
    BY <1>0, <1>2
  <2>2. SignedDecimal(n) = <<Minus>> \o Decimal[k]
    BY <1>2, <2>1 DEF SignedDecimal
  <2>3. PICK d \in Seq(Digit) : d = Decimal[k] /\ d # <<>> /\ DecimalValue(d) = k
    BY DecimalReads
  <2>4. d \in Seq(Byte) /\ \A i \in 1 .. Len(d) : d[i] # CR
    BY <2>3, NumberReads
  <2>5. Minus \in Byte /\ Minus # CR
    BY DEF Minus, Byte, CR
  <2>6. PICK body \in Seq(Byte) :
            /\ body = <<Minus>> \o d
            /\ Len(d) \in Nat
            /\ Len(body) = Len(d) + 1
            /\ body # <<>> /\ Head(body) = Minus /\ Tail(body) = d
            /\ body[1] = Minus
            /\ \A i \in 1 .. Len(d) : body[i + 1] = d[i]
            /\ LineBytes(Minus, d) = body \o CRLF
            /\ Len(LineBytes(Minus, d)) = Len(body) + 2
    BY <2>4, <2>5, LineBody, Zenon
  <2>7. \A i \in 1 .. Len(body) : body[i] # CR
    <3> SUFFICES ASSUME NEW i \in 1 .. Len(body) PROVE body[i] # CR
      OBVIOUS
    <3>1. CASE i = 1
      BY <2>5, <2>6, <3>1
    <3>2. CASE i # 1
      <4>1. PICK j \in 1 .. Len(d) : j = i - 1 /\ j + 1 = i
        BY <2>6, <3>2
      <4> QED BY <2>4, <2>6, <4>1
    <3> QED BY <3>1, <3>2
  <2>8. CrlfPositions(body) = {}
    BY <2>7, NoCr
  <2>9. IsDecimal(d)
    <3>1. DOMAIN d = 1 .. Len(d)
      BY LenProperties
    <3>2. \A i \in 1 .. Len(d) : d[i] \in Digit
      BY ElementOfSeq
    <3> QED BY <2>3, <3>1, <3>2 DEF IsDecimal
  <2>10. IsNegative(body)
    BY <2>6 DEF IsNegative
  <2>11. IsSigned(body) /\ SignedValue(body) = -k
    BY <2>3, <2>6, <2>9, <2>10 DEF IsSigned, SignedValue
  <2>12. IsI64(body) /\ I64Value(body) = n
    BY <2>1, <2>11 DEF IsI64, I64Value
  <2> QED BY <2>2, <2>3, <2>6, <2>8, <2>12
<1> QED BY <1>1, <1>2

LEMMA I64Type ==
    ASSUME NEW bytes \in Seq(Byte), IsI64(bytes)
    PROVE  I64Value(bytes) \in Int
<1>1. I64Value(bytes) \in I64
  BY DEF IsI64
<1> QED BY <1>1, Sizes DEF I64

\* Where a line that begins with a prefix byte ends.
LEMMA LineWithPrefix ==
    ASSUME NEW bytes \in Seq(Byte), bytes # <<>>, Head(bytes) \in PrefixBytes,
           ParseLine(bytes) # Incomplete
    PROVE  \E body \in Seq(Byte) :
               /\ ParseLine(bytes) = Parsed(body, Len(body) + 2)
               /\ body # <<>>
               /\ Tail(body) \in Seq(Byte)
               /\ Len(body) \in Nat
               /\ Len(body) + 2 \in 1 .. Len(bytes)
<1>1. PICK p : IsLineEnd(bytes, p)
  BY LineCases
<1>2. /\ p \in Nat /\ p + 2 <= Len(bytes)
      /\ ParseLine(bytes) = Parsed(SubSeq(bytes, 1, p), p + 2)
  BY <1>1, LineEnd
<1>3. Len(bytes) \in Nat
  BY LenProperties
<1>4. p # 0
  <2> SUFFICES ASSUME p = 0 PROVE FALSE
    OBVIOUS
  <2>1. bytes[1] = CR
    BY <1>1 DEF IsLineEnd, CrlfPositions
  <2>2. Head(bytes) = bytes[1]
    OBVIOUS
  <2> QED BY <2>1, <2>2 DEF PrefixBytes, SStrByte, ErrorByte, CStringByte, IntegerByte,
                            ArrayByte, Plus, Minus, CR
<1>5. p \in 0 .. Len(bytes)
  BY <1>2, <1>3
<1>6. PICK body \in Seq(Byte) : body = SubSeq(bytes, 1, p) /\ Len(body) = p
  BY <1>5, SliceBegins
<1>7. body # <<>>
  BY <1>4, <1>6
<1>8. Tail(body) \in Seq(Byte)
  BY <1>7, HeadTailProperties
<1>9. Len(body) + 2 \in 1 .. Len(bytes)
  BY <1>2, <1>3, <1>6
<1> QED BY <1>2, <1>6, <1>7, <1>8, <1>9

\* A line whose text holds no CRLF is found as it was written.
LEMMA LineFound ==
    ASSUME NEW prefix \in PrefixBytes, NEW msg \in Seq(Byte), CrlfPositions(msg) = {},
           NEW bytes \in Seq(Byte), Begins(LineBytes(prefix, msg), bytes)
    PROVE  \E body \in Seq(Byte) :
               /\ bytes # <<>> /\ Head(bytes) = prefix
               /\ ParseLine(bytes) = Parsed(body, Len(body) + 2)
               /\ Tail(body) = msg
               /\ Len(body) + 2 = Len(LineBytes(prefix, msg))
<1>1. prefix \in Byte /\ prefix # CR
  BY DEF PrefixBytes, SStrByte, ErrorByte, CStringByte, IntegerByte, ArrayByte, Plus, Minus,
         CR, Byte
<1>2. PICK body \in Seq(Byte) :
          /\ body = <<prefix>> \o msg
          /\ Len(msg) \in Nat
          /\ Len(body) = Len(msg) + 1
          /\ body # <<>> /\ Head(body) = prefix /\ Tail(body) = msg
          /\ body[1] = prefix
          /\ \A i \in 1 .. Len(msg) : body[i + 1] = msg[i]
          /\ LineBytes(prefix, msg) = body \o CRLF
          /\ Len(LineBytes(prefix, msg)) = Len(body) + 2
  BY <1>1, LineBody, Zenon
<1>3. PICK n \in Nat : n = Len(body) /\ n = Len(msg) + 1
  BY <1>2
<1>4. PICK crlf \in Seq(Byte) : crlf = CRLF /\ Len(crlf) = 2 /\ crlf[1] = CR /\ crlf[2] = LF
  BY CrlfType
<1>5. Begins(body \o crlf, bytes)
  BY <1>2, <1>4
<1>6. /\ Len(bytes) \in Nat
      /\ n + 2 <= Len(bytes)
      /\ Begins(body, bytes)
      /\ \A i \in 1 .. 2 : bytes[n + i] = crlf[i]
  <2>1. /\ Len(body) \in Nat /\ Len(crlf) \in Nat /\ Len(bytes) \in Nat
        /\ Len(body) + Len(crlf) <= Len(bytes)
        /\ Begins(body, bytes)
        /\ \A i \in 1 .. Len(crlf) : bytes[Len(body) + i] = crlf[i]
    BY <1>5, BehindBeginning
  <2> QED BY <1>3, <1>4, <2>1
<1>7. \A i \in 1 .. n : bytes[i] = body[i]
  BY <1>3, <1>6 DEF Begins
<1>8. bytes[n + 1] = CR /\ bytes[n + 2] = LF
  <2>1. 1 \in 1 .. 2 /\ 2 \in 1 .. 2
    OBVIOUS
  <2> QED BY <1>4, <1>6, <2>1
<1>9. n \in CrlfPositions(bytes)
  BY <1>6, <1>8 DEF CrlfPositions
<1>10. ASSUME NEW q \in CrlfPositions(bytes), q < n
       PROVE  FALSE
  <2>1. q \in Nat /\ bytes[q + 1] = CR /\ bytes[q + 2] = LF
    BY <1>6 DEF CrlfPositions
  <2>2. CASE q = 0
    <3>1. bytes[1] = body[1]
      BY <1>2, <1>3, <1>7
    <3> QED BY <1>1, <1>2, <2>1, <2>2, <3>1
  <2>3. CASE q + 2 = n + 1
    BY <1>8, <2>1, <2>3 DEF CR, LF
  <2>4. CASE q # 0 /\ q + 2 # n + 1
    <3>1. PICK k \in Nat : q = k + 1
      BY <2>1, <2>4
    <3>2. k + 1 \in 1 .. Len(msg) /\ k + 2 \in 1 .. Len(msg) /\ k \in 0 .. Len(msg) - 2
      BY <1>2, <1>3, <1>10, <2>1, <2>4, <3>1
    <3>3. q + 1 \in 1 .. n /\ q + 2 \in 1 .. n
      BY <1>3, <3>1, <3>2
    <3>4. bytes[q + 1] = body[q + 1] /\ bytes[q + 2] = body[q + 2]
      BY <1>7, <3>3
    <3>5. body[(k + 1) + 1] = msg[k + 1] /\ body[(k + 2) + 1] = msg[k + 2]
      BY <1>2, <3>2
    <3>6. (k + 1) + 1 = q + 1 /\ (k + 2) + 1 = q + 2
      BY <3>1
    <3>7. msg[k + 1] = CR /\ msg[k + 2] = LF
      BY <2>1, <3>4, <3>5, <3>6
    <3> QED BY <3>2, <3>7 DEF CrlfPositions
  <2> QED BY <2>2, <2>3, <2>4
<1>11. \A q \in CrlfPositions(bytes) : n <= q
  <2>1. CrlfPositions(bytes) \subseteq Nat
    BY <1>6 DEF CrlfPositions
  <2> QED BY <1>10, <2>1
<1>12. ParseLine(bytes) = Parsed(SubSeq(bytes, 1, n), n + 2)
  BY <1>9, <1>11, LineEnd DEF IsLineEnd
<1>13. SubSeq(bytes, 1, n) = body
  BY <1>3, <1>6, BeginningIsSlice
<1>14. bytes # <<>> /\ Head(bytes) = prefix
  <2>1. bytes # <<>>
    BY <1>3, <1>6
  <2>2. bytes[1] = body[1]
    BY <1>2, <1>3, <1>7
  <2>3. Head(bytes) = bytes[1]
    BY <2>1
  <2> QED BY <1>2, <2>1, <2>2, <2>3
<1> QED BY <1>2, <1>3, <1>12, <1>13, <1>14

-----------------------------------------------------------------------------
(* What follows a prefix byte.                                               *)

LEMMA SStrCases ==
    ASSUME NEW body, NEW h
    PROVE  ParseSStr(Parsed(body, h)) =
               IF Tail(body) # OkBody THEN Failed("UnexpectedSstr") ELSE Parsed(Ok, h)
<1>1. PICK line : line = Parsed(body, h)
  OBVIOUS
<1>2. line.data = body /\ line.num_bytes_parsed = h
  BY <1>1, ResultKinds
<1> QED BY <1>1, <1>2 DEF ParseSStr

LEMMA ErrorCases ==
    ASSUME NEW body, NEW h
    PROVE  ParseError(Parsed(body, h)) =
               IF Tail(body) \notin Utf8 THEN Failed("InvalidUtf8")
               ELSE Parsed(Error(Tail(body)), h)
<1>1. PICK line : line = Parsed(body, h)
  OBVIOUS
<1>2. line.data = body /\ line.num_bytes_parsed = h
  BY <1>1, ResultKinds
<1> QED BY <1>1, <1>2 DEF ParseError

LEMMA IntegerCases ==
    ASSUME NEW body, NEW h
    PROVE  ParseInteger(Parsed(body, h)) =
               IF ~IsI64(Tail(body)) THEN Failed("InvalidInt")
               ELSE Parsed(Integer(I64Value(Tail(body))), h)
<1>1. PICK line : line = Parsed(body, h)
  OBVIOUS
<1>2. line.data = body /\ line.num_bytes_parsed = h
  BY <1>1, ResultKinds
<1> QED BY <1>1, <1>2 DEF ParseInteger

\* What ParseCStr makes of its header.
CStrOf(bytes, body, h, len) ==
    IF ~IsI64(Tail(body)) THEN Failed("InvalidInt")
    ELSE IF len = -1 THEN Parsed(Null, h)
    ELSE IF len < 0 THEN Failed("InvalidCStringLength")
    ELSE IF len > MaxCStringLength THEN Failed("CStringTooLong")
    ELSE IF h + len + 2 > Len(bytes) THEN Incomplete
    ELSE IF SubSeq(bytes, h + len + 1, h + len + 2) # CRLF
    THEN Failed("MissingCrlf")
    ELSE Parsed(Cstr(SubSeq(bytes, h + 1, h + len)), h + len + 2)

LEMMA CStrCases ==
    ASSUME NEW bytes, NEW body, NEW h, NEW len, len = I64Value(Tail(body))
    PROVE  ParseCStr(bytes, Parsed(body, h)) =
               CStrOf(bytes, body, h, len)
<1>1. PICK line : line = Parsed(body, h)
  OBVIOUS
<1>2. line.data = body /\ line.num_bytes_parsed = h
  BY <1>1, ResultKinds
<1> QED BY <1>1, <1>2 DEF ParseCStr, CStrOf

LEMMA ArrayCases ==
    ASSUME NEW bytes, NEW body, NEW h, NEW parse, NEW len, len = I64Value(Tail(body)),
           NEW elements, elements = ParseElements(bytes, len, h, parse)
    PROVE  ParseArray(bytes, Parsed(body, h), parse) =
               IF ~IsI64(Tail(body)) THEN Failed("InvalidInt")
               ELSE IF len < 0 THEN Failed("InvalidArrayLength")
               ELSE IF len > MaxCapacity THEN Panicked
               ELSE IF elements.kind # "parsed" THEN elements
               ELSE Parsed(Array(elements.data), elements.num_bytes_parsed)
<1>1. PICK line : line = Parsed(body, h)
  OBVIOUS
<1>2. line.data = body /\ line.num_bytes_parsed = h
  BY <1>1, ResultKinds
<1> QED BY <1>1, <1>2 DEF ParseArray

LEMMA CStrOutcome ==
    ASSUME NEW bytes \in Seq(Byte), NEW body \in Seq(Byte), Tail(body) \in Seq(Byte),
           NEW h \in 1 .. Len(bytes)
    PROVE  IsOutcome(ParseCStr(bytes, Parsed(body, h)), Len(bytes))
<1>1. PICK len : len = I64Value(Tail(body))
  OBVIOUS
<1>2. PICK o : o = ParseCStr(bytes, Parsed(body, h))
  OBVIOUS
<1>3. o = CStrOf(bytes, body, h, len)
  BY <1>1, <1>2, CStrCases
<1>4. {"InvalidInt", "InvalidCStringLength", "CStringTooLong", "MissingCrlf"} \subseteq Errors
  BY DEF Errors
<1>5. \/ \E error \in Errors : o = Failed(error)
      \/ o = Parsed(Null, h)
      \/ o = Incomplete
      \/ /\ o = Parsed(Cstr(SubSeq(bytes, h + 1, h + len)), h + len + 2)
         /\ IsI64(Tail(body)) /\ ~(len < 0) /\ ~(h + len + 2 > Len(bytes))
  BY <1>3, <1>4 DEF CStrOf
<1>6. CASE \E error \in Errors : o = Failed(error)
  BY <1>2, <1>6 DEF IsOutcome
<1>7. CASE o = Parsed(Null, h)
  BY <1>2, <1>7 DEF IsOutcome
<1>8. CASE o = Incomplete
  BY <1>2, <1>8 DEF IsOutcome
<1>9. CASE /\ o = Parsed(Cstr(SubSeq(bytes, h + 1, h + len)), h + len + 2)
           /\ IsI64(Tail(body)) /\ ~(len < 0) /\ ~(h + len + 2 > Len(bytes))
  <2>1. len \in Int
    BY <1>1, <1>9, I64Type
  <2>2. h + len + 2 \in 1 .. Len(bytes)
    BY <1>9, <2>1, LenProperties
  <2> QED BY <1>2, <1>9, <2>2, OutcomeParsed
<1> QED BY <1>5, <1>6, <1>7, <1>8, <1>9

LEMMA CStrStays ==
    ASSUME NEW bytes \in Seq(Byte), NEW more \in Seq(Byte), Begins(bytes, more),
           NEW body \in Seq(Byte), Tail(body) \in Seq(Byte), NEW h \in 1 .. Len(bytes),
           ParseCStr(bytes, Parsed(body, h)) # Incomplete
    PROVE  ParseCStr(more, Parsed(body, h)) = ParseCStr(bytes, Parsed(body, h))
<1>1. PICK len : len = I64Value(Tail(body))
  OBVIOUS
<1>2. ParseCStr(bytes, Parsed(body, h)) = CStrOf(bytes, body, h, len)
  BY <1>1, CStrCases
<1>3. ParseCStr(more, Parsed(body, h)) = CStrOf(more, body, h, len)
  BY <1>1, CStrCases
<1>4. CASE ~IsI64(Tail(body)) \/ len = -1 \/ len < 0 \/ len > MaxCStringLength
  BY <1>2, <1>3, <1>4 DEF CStrOf
<1>5. CASE IsI64(Tail(body)) /\ len # -1 /\ ~(len < 0) /\ ~(len > MaxCStringLength)
  <2>1. PICK n \in Nat : n = len
    <3>1. len \in Int
      BY <1>1, <1>5, I64Type
    <3> QED BY <1>5, <3>1
  <2>2. Len(bytes) \in Nat /\ Len(more) \in Nat /\ Len(bytes) <= Len(more)
    BY LenProperties DEF Begins
  <2>3. ~(h + n + 2 > Len(bytes))
    BY <1>2, <1>5, <2>1 DEF CStrOf
  <2>4. h \in Nat /\ h + n + 2 <= Len(bytes) /\ ~(h + n + 2 > Len(more))
    BY <2>1, <2>2, <2>3
  <2>5. ASSUME NEW i \in Nat, NEW j \in Nat, i <= j, j <= Len(bytes)
        PROVE  SubSeq(more, i + 1, j) = SubSeq(bytes, i + 1, j)
    <3>1. PICK r \in Seq(Byte) : /\ r = SubSeq(bytes, i + 1, j)
                                 /\ Len(r) = j - i
                                 /\ \A k \in 1 .. j - i : r[k] = bytes[i + k]
      <4>1. /\ SubSeq(bytes, i + 1, j) \in Seq(Byte)
            /\ Len(SubSeq(bytes, i + 1, j)) = j - i
            /\ \A k \in 1 .. j - i : SubSeq(bytes, i + 1, j)[k] = bytes[i + k]
        BY <2>5, SliceProperties
      <4> QED BY <4>1
    <3>2. \A k \in 1 .. Len(r) : more[i + k] = r[k]
      <4> SUFFICES ASSUME NEW k \in 1 .. j - i PROVE more[i + k] = r[k]
        BY <3>1
      <4>1. i + k \in 1 .. Len(bytes)
        BY <2>2, <2>5
      <4>2. more[i + k] = bytes[i + k]
        BY <4>1 DEF Begins
      <4> QED BY <3>1, <4>2
    <3>3. j = i + Len(r) /\ j <= Len(more)
      BY <2>2, <2>5, <3>1
    <3>4. SubSeq(more, i + 1, j) = r
      BY <3>2, <3>3, SliceIs
    <3> QED BY <3>1, <3>4
  <2>6. SubSeq(more, (h + n) + 1, h + n + 2) = SubSeq(bytes, (h + n) + 1, h + n + 2)
    <3>1. h + n \in Nat /\ h + n + 2 \in Nat /\ h + n <= h + n + 2
      BY <2>1, <2>4
    <3> QED BY <2>4, <2>5, <3>1
  <2>7. SubSeq(more, h + 1, h + n) = SubSeq(bytes, h + 1, h + n)
    <3>1. h + n \in Nat /\ h <= h + n /\ h + n <= Len(bytes)
      BY <2>1, <2>2, <2>4
    <3> QED BY <2>4, <2>5, <3>1
  <2> QED BY <1>2, <1>3, <1>5, <2>1, <2>3, <2>4, <2>6, <2>7 DEF CStrOf
<1> QED BY <1>4, <1>5

LEMMA ArrayOutcome ==
    ASSUME NEW bytes \in Seq(Byte), NEW body \in Seq(Byte), Tail(body) \in Seq(Byte),
           NEW h \in 1 .. Len(bytes), NEW parse, Answers(parse)
    PROVE  IsOutcome(ParseArray(bytes, Parsed(body, h), parse), Len(bytes))
<1>1. PICK len : len = I64Value(Tail(body))
  OBVIOUS
<1>2. PICK elements : elements = ParseElements(bytes, len, h, parse)
  OBVIOUS
<1>3. PICK o : o = ParseArray(bytes, Parsed(body, h), parse)
  OBVIOUS
<1>4. o = IF ~IsI64(Tail(body)) THEN Failed("InvalidInt")
          ELSE IF len < 0 THEN Failed("InvalidArrayLength")
          ELSE IF len > MaxCapacity THEN Panicked
          ELSE IF elements.kind # "parsed" THEN elements
          ELSE Parsed(Array(elements.data), elements.num_bytes_parsed)
  BY <1>1, <1>2, <1>3, ArrayCases
<1>5. "InvalidInt" \in Errors /\ "InvalidArrayLength" \in Errors
  BY DEF Errors
<1>6. CASE ~IsI64(Tail(body)) \/ len < 0 \/ len > MaxCapacity
  <2>1. \/ o = Failed("InvalidInt")
        \/ o = Failed("InvalidArrayLength")
        \/ o = Panicked
    BY <1>4, <1>6
  <2> QED BY <1>3, <1>5, <2>1 DEF IsOutcome
<1>7. CASE IsI64(Tail(body)) /\ ~(len < 0) /\ ~(len > MaxCapacity)
  <2>1. len \in Nat
    <3>1. len \in Int
      BY <1>1, <1>7, I64Type
    <3> QED BY <1>7, <3>1
  <2>2. IsOutcome(elements, Len(bytes))
    BY <1>2, <2>1, ElementsOutcome
  <2>3. CASE elements.kind # "parsed"
    <3>1. o = elements
      BY <1>4, <1>7, <2>3
    <3> QED BY <1>3, <2>2, <3>1
  <2>4. CASE elements.kind = "parsed"
    <3>1. PICK num \in 1 .. Len(bytes) : num = elements.num_bytes_parsed
      BY <2>2, <2>4, OutcomeCases
    <3>2. o = Parsed(Array(elements.data), num)
      BY <1>4, <1>7, <2>4, <3>1
    <3> QED BY <1>3, <3>2, OutcomeParsed
  <2> QED BY <2>3, <2>4
<1> QED BY <1>6, <1>7

LEMMA ArrayStays ==
    ASSUME NEW bytes \in Seq(Byte), NEW more \in Seq(Byte), Begins(bytes, more),
           NEW body \in Seq(Byte), Tail(body) \in Seq(Byte), NEW h \in 1 .. Len(bytes),
           NEW parse, Answers(parse), Steady(parse),
           ParseArray(bytes, Parsed(body, h), parse) # Incomplete
    PROVE  ParseArray(more, Parsed(body, h), parse) = ParseArray(bytes, Parsed(body, h), parse)
<1>1. PICK len : len = I64Value(Tail(body))
  OBVIOUS
<1>2. PICK elements : elements = ParseElements(bytes, len, h, parse)
  OBVIOUS
<1>3. PICK others : others = ParseElements(more, len, h, parse)
  OBVIOUS
<1>4. ParseArray(bytes, Parsed(body, h), parse) =
          IF ~IsI64(Tail(body)) THEN Failed("InvalidInt")
          ELSE IF len < 0 THEN Failed("InvalidArrayLength")
          ELSE IF len > MaxCapacity THEN Panicked
          ELSE IF elements.kind # "parsed" THEN elements
          ELSE Parsed(Array(elements.data), elements.num_bytes_parsed)
  BY <1>1, <1>2, ArrayCases
<1>5. ParseArray(more, Parsed(body, h), parse) =
          IF ~IsI64(Tail(body)) THEN Failed("InvalidInt")
          ELSE IF len < 0 THEN Failed("InvalidArrayLength")
          ELSE IF len > MaxCapacity THEN Panicked
          ELSE IF others.kind # "parsed" THEN others
          ELSE Parsed(Array(others.data), others.num_bytes_parsed)
  BY <1>1, <1>3, ArrayCases
<1>6. CASE ~IsI64(Tail(body)) \/ len < 0 \/ len > MaxCapacity
  BY <1>4, <1>5, <1>6
<1>7. CASE IsI64(Tail(body)) /\ ~(len < 0) /\ ~(len > MaxCapacity)
  <2>1. len \in Nat
    <3>1. len \in Int
      BY <1>1, <1>7, I64Type
    <3> QED BY <1>7, <3>1
  <2>2. elements # Incomplete
    <3> SUFFICES ASSUME elements = Incomplete PROVE FALSE
      OBVIOUS
    <3>1. elements.kind # "parsed"
      BY ResultKinds
    <3> QED BY <1>4, <1>7, <3>1
  <2>3. others = elements
    BY <1>2, <1>3, <2>1, <2>2, ElementsStay
  <2> QED BY <1>4, <1>5, <2>3
<1> QED BY <1>6, <1>7

LEMMA PrefixCases ==
    ASSUME NEW bytes, NEW line, NEW parse
    PROVE  /\ Head(bytes) = SStrByte    => ParseLineOf(bytes, line, parse) = ParseSStr(line)
           /\ Head(bytes) = ErrorByte   => ParseLineOf(bytes, line, parse) = ParseError(line)
           /\ Head(bytes) = CStringByte => ParseLineOf(bytes, line, parse) = ParseCStr(bytes, line)
           /\ Head(bytes) = IntegerByte => ParseLineOf(bytes, line, parse) = ParseInteger(line)
           /\ Head(bytes) = ArrayByte   =>
                  ParseLineOf(bytes, line, parse) = ParseArray(bytes, line, parse)
BY DEF ParseLineOf, SStrByte, ErrorByte, CStringByte, IntegerByte, ArrayByte, Plus, Minus

LEMMA LineOutcome ==
    ASSUME NEW bytes \in Seq(Byte), bytes # <<>>, Head(bytes) \in PrefixBytes,
           ParseLine(bytes) # Incomplete, NEW parse, Answers(parse)
    PROVE  IsOutcome(ParseLineOf(bytes, ParseLine(bytes), parse), Len(bytes))
<1>1. PICK body \in Seq(Byte) :
          /\ ParseLine(bytes) = Parsed(body, Len(body) + 2)
          /\ body # <<>>
          /\ Tail(body) \in Seq(Byte)
          /\ Len(body) \in Nat
          /\ Len(body) + 2 \in 1 .. Len(bytes)
  BY LineWithPrefix, Zenon
<1>2. PICK h \in 1 .. Len(bytes) : h = Len(body) + 2
  BY <1>1
<1>3. PICK line : line = ParseLine(bytes) /\ line = Parsed(body, h)
  BY <1>1, <1>2
<1>4. PICK o : o = ParseLineOf(bytes, line, parse)
  OBVIOUS
<1>5. {"UnexpectedSstr", "InvalidUtf8", "InvalidInt"} \subseteq Errors
  BY DEF Errors
<1>6. CASE Head(bytes) = SStrByte
  <2>1. o = ParseSStr(Parsed(body, h))
    BY <1>3, <1>4, <1>6, PrefixCases
  <2>2. o = Failed("UnexpectedSstr") \/ o = Parsed(Ok, h)
    BY <2>1, SStrCases
  <2>3. IsOutcome(o, Len(bytes))
    BY <1>5, <2>2, OutcomeFailed, OutcomeParsed
  <2> QED BY <1>3, <1>4, <2>3
<1>7. CASE Head(bytes) = ErrorByte
  <2>1. o = ParseError(Parsed(body, h))
    BY <1>3, <1>4, <1>7, PrefixCases
  <2>2. o = Failed("InvalidUtf8") \/ o = Parsed(Error(Tail(body)), h)
    BY <2>1, ErrorCases
  <2>3. IsOutcome(o, Len(bytes))
    BY <1>5, <2>2, OutcomeFailed, OutcomeParsed
  <2> QED BY <1>3, <1>4, <2>3
<1>8. CASE Head(bytes) = IntegerByte
  <2>1. o = ParseInteger(Parsed(body, h))
    BY <1>3, <1>4, <1>8, PrefixCases
  <2>2. o = Failed("InvalidInt") \/ o = Parsed(Integer(I64Value(Tail(body))), h)
    BY <2>1, IntegerCases
  <2>3. IsOutcome(o, Len(bytes))
    BY <1>5, <2>2, OutcomeFailed, OutcomeParsed
  <2> QED BY <1>3, <1>4, <2>3
<1>9. CASE Head(bytes) = CStringByte
  <2>1. o = ParseCStr(bytes, Parsed(body, h))
    BY <1>3, <1>4, <1>9, PrefixCases
  <2>2. IsOutcome(o, Len(bytes))
    BY <1>1, <2>1, CStrOutcome
  <2> QED BY <1>3, <1>4, <2>2
<1>10. CASE Head(bytes) = ArrayByte
  <2>1. o = ParseArray(bytes, Parsed(body, h), parse)
    BY <1>3, <1>4, <1>10, PrefixCases
  <2>2. IsOutcome(o, Len(bytes))
    BY <1>1, <2>1, ArrayOutcome
  <2> QED BY <1>3, <1>4, <2>2
<1> QED BY <1>6, <1>7, <1>8, <1>9, <1>10 DEF PrefixBytes

LEMMA LineSteady ==
    ASSUME NEW bytes \in Seq(Byte), bytes # <<>>, Head(bytes) \in PrefixBytes,
           ParseLine(bytes) # Incomplete, NEW parse, Answers(parse), Steady(parse),
           NEW more \in Seq(Byte), Begins(bytes, more), Head(more) = Head(bytes),
           ParseLineOf(bytes, ParseLine(bytes), parse) # Incomplete
    PROVE  ParseLineOf(more, ParseLine(bytes), parse) =
               ParseLineOf(bytes, ParseLine(bytes), parse)
<1>1. PICK body \in Seq(Byte) :
          /\ ParseLine(bytes) = Parsed(body, Len(body) + 2)
          /\ body # <<>>
          /\ Tail(body) \in Seq(Byte)
          /\ Len(body) \in Nat
          /\ Len(body) + 2 \in 1 .. Len(bytes)
  BY LineWithPrefix, Zenon
<1>2. PICK h \in 1 .. Len(bytes) : h = Len(body) + 2
  BY <1>1
<1>3. PICK line : line = ParseLine(bytes) /\ line = Parsed(body, h)
  BY <1>1, <1>2
<1>4. CASE Head(bytes) = CStringByte
  <2>1. /\ ParseLineOf(bytes, line, parse) = ParseCStr(bytes, line)
        /\ ParseLineOf(more, line, parse) = ParseCStr(more, line)
    BY <1>4, PrefixCases
  <2>2. ParseCStr(bytes, Parsed(body, h)) # Incomplete
    BY <1>3, <2>1
  <2>3. ParseCStr(more, Parsed(body, h)) = ParseCStr(bytes, Parsed(body, h))
    BY <1>1, <2>2, CStrStays
  <2> QED BY <1>3, <2>1, <2>3
<1>5. CASE Head(bytes) = ArrayByte
  <2>1. /\ ParseLineOf(bytes, line, parse) = ParseArray(bytes, line, parse)
        /\ ParseLineOf(more, line, parse) = ParseArray(more, line, parse)
    BY <1>5, PrefixCases
  <2>2. ParseArray(bytes, Parsed(body, h), parse) # Incomplete
    BY <1>3, <2>1
  <2>3. ParseArray(more, Parsed(body, h), parse) = ParseArray(bytes, Parsed(body, h), parse)
    BY <1>1, <2>2, ArrayStays
  <2> QED BY <1>3, <2>1, <2>3
<1>6. CASE Head(bytes) \in {SStrByte, ErrorByte, IntegerByte}
  <2>1. \A prefix \in {SStrByte, ErrorByte, IntegerByte} :
            Head(bytes) = prefix =>
                ParseLineOf(more, line, parse) = ParseLineOf(bytes, line, parse)
    BY PrefixCases
  <2> QED BY <1>3, <1>6, <2>1
<1> QED BY <1>4, <1>5, <1>6 DEF PrefixBytes

(* One call answers and is steady when the calls inside it are. *)
LEMMA WithAnswers ==
    ASSUME NEW parse, Answers(parse), NEW bytes \in Seq(Byte)
    PROVE  IsOutcome(ParseWith(bytes, parse), Len(bytes))
<1>1. "UnexpectedPrefix" \in Errors
  BY DEF Errors
<1>2. PICK o : o = ParseLineOf(bytes, ParseLine(bytes), parse)
  OBVIOUS
<1>3. CASE bytes # <<>> /\ Head(bytes) \in PrefixBytes /\ ParseLine(bytes) # Incomplete
  <2>1. ParseWith(bytes, parse) = o
    BY <1>2, <1>3 DEF ParseWith
  <2>2. IsOutcome(o, Len(bytes))
    BY <1>2, <1>3, LineOutcome
  <2> QED BY <2>1, <2>2
<1>4. CASE ~(bytes # <<>> /\ Head(bytes) \in PrefixBytes /\ ParseLine(bytes) # Incomplete)
  <2>1. \/ ParseWith(bytes, parse) = Incomplete
        \/ ParseWith(bytes, parse) = Failed("UnexpectedPrefix")
    BY <1>4 DEF ParseWith
  <2> QED BY <1>1, <2>1 DEF IsOutcome
<1> QED BY <1>3, <1>4

LEMMA WithSteady ==
    ASSUME NEW parse, Answers(parse), Steady(parse),
           NEW bytes \in Seq(Byte), NEW more \in Seq(Byte), Begins(bytes, more),
           ParseWith(bytes, parse) # Incomplete
    PROVE  ParseWith(more, parse) = ParseWith(bytes, parse)
<1>1. bytes # <<>>
  BY DEF ParseWith
<1>2. more # <<>> /\ Head(more) = Head(bytes)
  <2>1. PICK n \in Nat, m \in Nat : n = Len(bytes) /\ m = Len(more)
    BY LenProperties
  <2>2. n >= 1
    BY <1>1, <2>1, EmptySeq
  <2>3. m >= n /\ \A i \in 1 .. n : bytes[i] = more[i]
    BY <2>1 DEF Begins
  <2>4. bytes[1] = more[1] /\ more # <<>>
    BY <2>1, <2>2, <2>3
  <2>5. Head(bytes) = bytes[1] /\ Head(more) = more[1]
    BY <1>1, <2>4
  <2> QED BY <2>4, <2>5
<1>3. CASE Head(bytes) \notin PrefixBytes
  BY <1>1, <1>2, <1>3 DEF ParseWith
<1>4. CASE Head(bytes) \in PrefixBytes
  <2>1. ParseLine(bytes) # Incomplete
    BY <1>1, <1>4 DEF ParseWith
  <2>2. ParseLine(more) = ParseLine(bytes)
    BY <2>1, LineStays
  <2>3. ParseWith(bytes, parse) = ParseLineOf(bytes, ParseLine(bytes), parse)
    BY <1>1, <1>4, <2>1 DEF ParseWith
  <2>4. ParseWith(more, parse) = ParseLineOf(more, ParseLine(bytes), parse)
    BY <1>2, <1>4, <2>1, <2>2 DEF ParseWith
  <2>5. ParseLineOf(more, ParseLine(bytes), parse) =
            ParseLineOf(bytes, ParseLine(bytes), parse)
    BY <1>1, <1>2, <1>4, <2>1, <2>3, LineSteady
  <2> QED BY <2>3, <2>4, <2>5
<1> QED BY <1>3, <1>4

LEMMA DepthZero == Answers(ParseUpTo[0]) /\ Steady(ParseUpTo[0])
<1>1. ParseUpTo[0] = NoStack
  BY ParseUpToUnfolds
<1>2. \A bytes \in Seq(Byte) : NoStack[bytes] = Overflowed
  BY DEF NoStack
<1>3. Answers(NoStack)
  BY <1>2 DEF Answers, IsOutcome
<1>4. Steady(NoStack)
  BY <1>2 DEF Steady
<1> QED BY <1>1, <1>3, <1>4

LEMMA OneDeeper ==
    ASSUME NEW n \in Nat, NEW bytes \in Seq(Byte)
    PROVE  ParseUpTo[n + 1][bytes] = ParseWith(bytes, ParseUpTo[n])
<1>1. ParseUpTo[n + 1] = ParseOver(ParseUpTo[n])
  BY ParseUpToUnfolds
<1>2. ParseOver(ParseUpTo[n])[bytes] = ParseWith(bytes, ParseUpTo[n])
  BY DEF ParseOver
<1> QED BY <1>1, <1>2

(* At every depth parse_response ends in one of its outcomes, with data that *)
(* take no more bytes than there are, and what it makes of some bytes other  *)
(* than to wait is what it makes of them with more behind.                   *)
LEMMA ParserAnswers == \A n \in Nat : Answers(ParseUpTo[n]) /\ Steady(ParseUpTo[n])
<1> DEFINE S == {n \in Nat : Answers(ParseUpTo[n]) /\ Steady(ParseUpTo[n])}
<1>1. 0 \in S
  BY DepthZero
<1>2. ASSUME NEW n \in Nat, n \in S
      PROVE  n + 1 \in S
  <2>1. PICK inner : inner = ParseUpTo[n]
    OBVIOUS
  <2>2. PICK parse : parse = ParseUpTo[n + 1]
    OBVIOUS
  <2>3. Answers(inner) /\ Steady(inner)
    BY <1>2, <2>1
  <2>4. \A bytes \in Seq(Byte) : parse[bytes] = ParseWith(bytes, inner)
    BY <2>1, <2>2, OneDeeper
  <2>5. Answers(parse)
    <3> SUFFICES ASSUME NEW bytes \in Seq(Byte) PROVE IsOutcome(parse[bytes], Len(bytes))
      BY DEF Answers
    <3>1. IsOutcome(ParseWith(bytes, inner), Len(bytes))
      BY <2>3, WithAnswers
    <3> QED BY <2>4, <3>1
  <2>6. Steady(parse)
    <3> SUFFICES ASSUME NEW bytes \in Seq(Byte), NEW more \in Seq(Byte), Begins(bytes, more),
                        parse[bytes] # Incomplete
                 PROVE  parse[more] = parse[bytes]
      BY DEF Steady
    <3>1. parse[bytes] = ParseWith(bytes, inner) /\ parse[more] = ParseWith(more, inner)
      BY <2>4
    <3>2. ParseWith(bytes, inner) # Incomplete
      BY <3>1
    <3>3. ParseWith(more, inner) = ParseWith(bytes, inner)
      BY <2>3, <3>2, WithSteady
    <3> QED BY <3>1, <3>3
  <2> QED BY <2>2, <2>5, <2>6
<1> HIDE DEF S
<1>3. Nat \subseteq S
  BY <1>1, <1>2, Counting
<1> QED BY <1>3 DEF S

-----------------------------------------------------------------------------
(* Reading what was written.                                                 *)

(* No text of an error holds a CRLF: what the quoting of input can break.    *)
MessagesAreLines == \A msg \in Messages : CrlfPositions(msg) = {}

LEMMA LineParses ==
    ASSUME NEW prefix \in PrefixBytes, NEW msg \in Seq(Byte), CrlfPositions(msg) = {},
           NEW bytes \in Seq(Byte), Begins(LineBytes(prefix, msg), bytes)
    PROVE  \E body \in Seq(Byte) :
               /\ Tail(body) = msg
               /\ Head(bytes) = prefix
               /\ \A parse :
                      ParseWith(bytes, parse) =
                          ParseLineOf(bytes, Parsed(body, Len(LineBytes(prefix, msg))), parse)
<1>1. PICK body \in Seq(Byte) :
          /\ bytes # <<>> /\ Head(bytes) = prefix
          /\ ParseLine(bytes) = Parsed(body, Len(body) + 2)
          /\ Tail(body) = msg
          /\ Len(body) + 2 = Len(LineBytes(prefix, msg))
  BY LineFound, Zenon
<1>2. PICK h : h = Len(body) + 2
  OBVIOUS
<1>3. PICK line : line = ParseLine(bytes) /\ line = Parsed(body, h)
  BY <1>1, <1>2
<1>4. line # Incomplete
  <2>1. line.kind = "parsed"
    BY <1>3, ResultKinds
  <2> QED BY <2>1, ResultKinds
<1>5. \A parse : ParseWith(bytes, parse) = ParseLineOf(bytes, line, parse)
  BY <1>1, <1>3, <1>4 DEF ParseWith
<1> QED BY <1>1, <1>2, <1>3, <1>5

\* The lines that are whole responses.
LEMMA OkReads ==
    ASSUME NEW parse
    PROVE  /\ LineBytes(SStrByte, OkBody) \in Seq(Byte)
           /\ ParseWith(LineBytes(SStrByte, OkBody), parse) =
                  Parsed(Ok, Len(LineBytes(SStrByte, OkBody)))
<1>1. PICK msg \in Seq(Byte) : msg = OkBody /\ \A i \in 1 .. Len(msg) : msg[i] # CR
  <2>1. 79 \in Byte /\ 75 \in Byte /\ 79 # CR /\ 75 # CR
    BY DEF Byte, CR
  <2>2. <<79, 75>> \in Seq(Byte)
    BY <2>1
  <2>3. \A i \in 1 .. Len(<<79, 75>>) : <<79, 75>>[i] # CR
    BY <2>1
  <2> QED BY <2>2, <2>3 DEF OkBody
<1>2. SStrByte \in PrefixBytes /\ SStrByte \in Byte
  BY DEF PrefixBytes, SStrByte, Plus, Byte
<1>3. PICK bytes \in Seq(Byte) : bytes = LineBytes(SStrByte, msg)
  BY <1>2, LineType
<1>4. CrlfPositions(msg) = {} /\ Begins(LineBytes(SStrByte, msg), bytes)
  BY <1>1, <1>3, NoCr, BeginsSelf
<1>5. PICK body \in Seq(Byte) :
          /\ Tail(body) = msg
          /\ Head(bytes) = SStrByte
          /\ \A q :
                 ParseWith(bytes, q) =
                     ParseLineOf(bytes, Parsed(body, Len(LineBytes(SStrByte, msg))), q)
  BY <1>2, <1>3, <1>4, LineParses, Zenon
<1>6. ParseLineOf(bytes, Parsed(body, Len(bytes)), parse) = ParseSStr(Parsed(body, Len(bytes)))
  BY <1>5, PrefixCases
<1>7. ParseSStr(Parsed(body, Len(bytes))) = Parsed(Ok, Len(bytes))
  BY <1>1, <1>5, SStrCases
<1> QED BY <1>1, <1>3, <1>5, <1>6, <1>7

LEMMA ErrorReads ==
    ASSUME NEW msg \in Messages, CrlfPositions(msg) = {}, NEW parse
    PROVE  /\ LineBytes(ErrorByte, msg) \in Seq(Byte)
           /\ ParseWith(LineBytes(ErrorByte, msg), parse) =
                  Parsed(Error(msg), Len(LineBytes(ErrorByte, msg)))
<1>1. msg \in Utf8 /\ msg \in Seq(Byte)
  BY MessageAssumption
<1>2. ErrorByte \in PrefixBytes /\ ErrorByte \in Byte
  BY DEF PrefixBytes, ErrorByte, Minus, Byte
<1>3. PICK bytes \in Seq(Byte) : bytes = LineBytes(ErrorByte, msg)
  BY <1>1, <1>2, LineType
<1>4. Begins(LineBytes(ErrorByte, msg), bytes)
  BY <1>3, BeginsSelf
<1>5. PICK body \in Seq(Byte) :
          /\ Tail(body) = msg
          /\ Head(bytes) = ErrorByte
          /\ \A q :
                 ParseWith(bytes, q) =
                     ParseLineOf(bytes, Parsed(body, Len(LineBytes(ErrorByte, msg))), q)
  BY <1>1, <1>2, <1>3, <1>4, LineParses, Zenon
<1>6. ParseLineOf(bytes, Parsed(body, Len(bytes)), parse) = ParseError(Parsed(body, Len(bytes)))
  BY <1>5, PrefixCases
<1>7. ParseError(Parsed(body, Len(bytes))) = Parsed(Error(msg), Len(bytes))
  BY <1>1, <1>5, ErrorCases
<1> QED BY <1>3, <1>5, <1>6, <1>7

LEMMA IntegerReads ==
    ASSUME NEW n \in I64, NEW parse
    PROVE  /\ LineBytes(IntegerByte, SignedDecimal(n)) \in Seq(Byte)
           /\ ParseWith(LineBytes(IntegerByte, SignedDecimal(n)), parse) =
                  Parsed(Integer(n), Len(LineBytes(IntegerByte, SignedDecimal(n))))
<1>1. PICK msg \in Seq(Byte) :
          msg = SignedDecimal(n) /\ CrlfPositions(msg) = {} /\ IsI64(msg) /\ I64Value(msg) = n
  BY SignedReads
<1>2. PICK prefix \in PrefixBytes : prefix = IntegerByte
  BY DEF PrefixBytes
<1>3. CrlfPositions(msg) = {} /\ prefix \in Byte
  BY <1>1, <1>2 DEF IntegerByte, Byte
<1>4. PICK bytes \in Seq(Byte) : bytes = LineBytes(prefix, msg)
  BY <1>3, LineType
<1>5. Begins(LineBytes(prefix, msg), bytes)
  BY <1>4, BeginsSelf
<1>6. PICK body \in Seq(Byte) :
          /\ Tail(body) = msg
          /\ Head(bytes) = prefix
          /\ \A q :
                 ParseWith(bytes, q) =
                     ParseLineOf(bytes, Parsed(body, Len(LineBytes(prefix, msg))), q)
  BY <1>3, <1>5, LineParses, Zenon
<1>7. ParseLineOf(bytes, Parsed(body, Len(bytes)), parse) =
          ParseInteger(Parsed(body, Len(bytes)))
  BY <1>2, <1>6, PrefixCases
<1>8. ParseInteger(Parsed(body, Len(bytes))) = Parsed(Integer(n), Len(bytes))
  BY <1>1, <1>6, IntegerCases
<1> QED BY <1>1, <1>2, <1>4, <1>6, <1>7, <1>8

LEMMA NullReads ==
    ASSUME NEW parse
    PROVE  /\ LineBytes(CStringByte, SignedDecimal(-1)) \in Seq(Byte)
           /\ ParseWith(LineBytes(CStringByte, SignedDecimal(-1)), parse) =
                  Parsed(Null, Len(LineBytes(CStringByte, SignedDecimal(-1))))
<1>1. PICK n \in I64 : n = -1
  <2>1. -1 \in I64
    BY Sizes DEF I64
  <2> QED BY <2>1
<1>2. PICK msg \in Seq(Byte) :
          msg = SignedDecimal(n) /\ CrlfPositions(msg) = {} /\ IsI64(msg) /\ I64Value(msg) = n
  BY SignedReads
<1>3. CStringByte \in PrefixBytes /\ CStringByte \in Byte
  BY DEF PrefixBytes, CStringByte, Byte
<1>4. PICK bytes \in Seq(Byte) : bytes = LineBytes(CStringByte, msg)
  BY <1>3, LineType
<1>5. Begins(LineBytes(CStringByte, msg), bytes) /\ CrlfPositions(msg) = {}
  BY <1>2, <1>4, BeginsSelf
<1>6. PICK body \in Seq(Byte) :
          /\ Tail(body) = msg
          /\ Head(bytes) = CStringByte
          /\ \A q :
                 ParseWith(bytes, q) =
                     ParseLineOf(bytes, Parsed(body, Len(LineBytes(CStringByte, msg))), q)
  BY <1>2, <1>3, <1>4, <1>5, LineParses, Zenon
<1>7. ParseLineOf(bytes, Parsed(body, Len(bytes)), parse) = ParseCStr(bytes, Parsed(body, Len(bytes)))
  BY <1>6, PrefixCases
<1>8. ParseCStr(bytes, Parsed(body, Len(bytes))) = CStrOf(bytes, body, Len(bytes), n)
  BY <1>2, <1>6, CStrCases
<1>9. CStrOf(bytes, body, Len(bytes), n) = Parsed(Null, Len(bytes))
  BY <1>1, <1>2, <1>6 DEF CStrOf
<1> QED BY <1>1, <1>2, <1>4, <1>6, <1>7, <1>8, <1>9

LEMMA CstrReads ==
    ASSUME NEW data \in CStrings, NEW parse
    PROVE  /\ CStringBytes(data) \in Seq(Byte)
           /\ ParseWith(CStringBytes(data), parse) =
                  Parsed(Cstr(data), Len(CStringBytes(data)))
<1>1. data \in Seq(Byte) /\ Len(data) <= MaxCStringLength
  BY DEF CStrings
<1>2. PICK n \in Nat : n = Len(data)
  BY <1>1, LenProperties
<1>3. PICK msg \in Seq(Byte) : msg = Decimal[n] /\ CrlfPositions(msg) = {}
  <2>1. PICK msg \in Seq(Byte) : msg = Decimal[n] /\ \A i \in 1 .. Len(msg) : msg[i] # CR
    BY NumberReads
  <2>2. CrlfPositions(msg) = {}
    BY <2>1, NoCr
  <2> QED BY <2>1, <2>2
<1>4. IsI64(msg) /\ I64Value(msg) = n
  <2>1. n <= MaxI64
    BY <1>1, <1>2, Sizes
  <2> QED BY <1>3, <2>1, I64Reads
<1>5. CStringByte \in PrefixBytes /\ CStringByte \in Byte
  BY DEF PrefixBytes, CStringByte, Byte
<1>6. PICK line \in Seq(Byte) : line = LineBytes(CStringByte, msg)
  BY <1>5, LineType
<1>7. PICK crlf \in Seq(Byte) : crlf = CRLF /\ Len(crlf) = 2
  BY CrlfType
<1>8. PICK rest \in Seq(Byte) :
          /\ rest = data \o crlf
          /\ Len(rest) = n + 2
          /\ Begins(data, rest)
          /\ \A i \in 1 .. 2 : rest[n + i] = crlf[i]
  <2>1. data \o crlf \in Seq(Byte) /\ Len(data \o crlf) = Len(data) + Len(crlf)
    BY <1>1, ConcatProperties
  <2>2. Begins(data \o crlf, data \o crlf)
    BY <2>1, BeginsSelf
  <2>3. Begins(data, data \o crlf) /\ \A i \in 1 .. Len(crlf) : (data \o crlf)[Len(data) + i] = crlf[i]
    BY <1>1, <2>1, <2>2, BehindBeginning
  <2> QED BY <1>2, <1>7, <2>1, <2>3
<1>9. CStringBytes(data) = line \o rest
  BY <1>1, <1>2, <1>3, <1>6, <1>7, <1>8, CStringType
<1>10. PICK bytes \in Seq(Byte) :
           /\ bytes = line \o rest
           /\ Begins(line, bytes)
           /\ Len(bytes) = Len(line) + Len(rest)
           /\ \A i \in 1 .. Len(rest) : bytes[Len(line) + i] = rest[i]
  <2>1. line \o rest \in Seq(Byte) /\ Len(line \o rest) = Len(line) + Len(rest)
    BY ConcatProperties
  <2>2. Begins(line \o rest, line \o rest)
    BY <2>1, BeginsSelf
  <2>3. /\ Begins(line, line \o rest)
        /\ \A i \in 1 .. Len(rest) : (line \o rest)[Len(line) + i] = rest[i]
    BY <2>1, <2>2, BehindBeginning
  <2> QED BY <2>1, <2>3
<1>11. PICK h \in Nat : h = Len(line)
  BY LenProperties
<1>12. Begins(LineBytes(CStringByte, msg), bytes)
  BY <1>6, <1>10
<1>13. PICK body \in Seq(Byte) :
           /\ Tail(body) = msg
           /\ Head(bytes) = CStringByte
           /\ \A q :
                  ParseWith(bytes, q) =
                      ParseLineOf(bytes, Parsed(body, Len(LineBytes(CStringByte, msg))), q)
  <2>1. CrlfPositions(msg) = {} /\ CStringByte \in PrefixBytes
    BY <1>3, <1>5
  <2> QED BY <1>12, <2>1, LineParses, Zenon
<1>14. ParseWith(bytes, parse) = ParseCStr(bytes, Parsed(body, h))
  BY <1>6, <1>11, <1>13, PrefixCases
<1>15. ParseCStr(bytes, Parsed(body, h)) = CStrOf(bytes, body, h, n)
  <2>1. n = I64Value(Tail(body))
    BY <1>4, <1>13
  <2> QED BY <2>1, CStrCases
<1>16. Len(bytes) = h + n + 2
  BY <1>8, <1>10, <1>11
<1>17. SubSeq(bytes, h + 1, h + n) = data
  <2>1. \A i \in 1 .. Len(data) : bytes[h + i] = data[i]
    <3> SUFFICES ASSUME NEW i \in 1 .. n PROVE bytes[h + i] = data[i]
      BY <1>2
    <3>1. i \in 1 .. Len(rest)
      BY <1>8
    <3>2. bytes[h + i] = rest[i]
      BY <1>10, <1>11, <3>1
    <3>3. rest[i] = data[i]
      BY <1>2, <1>8 DEF Begins
    <3> QED BY <3>2, <3>3
  <2>2. h + n \in Nat /\ h + n = h + Len(data) /\ h + n <= Len(bytes)
    BY <1>2, <1>16
  <2> QED BY <1>1, <2>1, <2>2, SliceIs
<1>18. SubSeq(bytes, h + n + 1, h + n + 2) = CRLF
  <2>1. PICK k \in Nat : k = h + n
    OBVIOUS
  <2>2. \A i \in 1 .. Len(crlf) : bytes[k + i] = crlf[i]
    <3> SUFFICES ASSUME NEW i \in 1 .. 2 PROVE bytes[k + i] = crlf[i]
      BY <1>7
    <3>1. PICK j \in 1 .. Len(rest) : j = n + i
      <4>1. Len(rest) = n + 2
        BY <1>8
      <4> QED BY <4>1
    <3>2. bytes[h + j] = rest[j]
      BY <1>10, <1>11
    <3>3. h + j = k + i
      BY <2>1, <3>1
    <3>4. rest[j] = crlf[i]
      BY <1>8, <3>1
    <3> QED BY <3>2, <3>3, <3>4
  <2>3. k + 2 \in Nat /\ k + 2 = k + Len(crlf) /\ k + 2 <= Len(bytes)
    BY <1>7, <1>16, <2>1
  <2>4. SubSeq(bytes, k + 1, k + 2) = crlf
    BY <2>2, <2>3, SliceIs
  <2> QED BY <1>7, <2>1, <2>4
<1>19. CStrOf(bytes, body, h, n) = Parsed(Cstr(data), Len(bytes))
  <2>1. n # -1 /\ ~(n < 0) /\ ~(h + n + 2 > Len(bytes)) /\ h + n + 2 = Len(bytes)
    BY <1>16
  <2>2. ~(n > MaxCStringLength)
    BY <1>1, <1>2, Sizes
  <2> QED BY <1>4, <1>13, <1>17, <1>18, <2>1, <2>2 DEF CStrOf
<1> QED BY <1>9, <1>10, <1>14, <1>15, <1>19

LEMMA ArrayReads ==
    ASSUME NEW R, NEW encoding \in [R -> Seq(Byte)], NEW rs \in Seq(R), Len(rs) <= MaxCapacity,
           NEW parse, Steady(parse), Reads(parse, encoding, R)
    PROVE  /\ LineBytes(ArrayByte, Decimal[Len(rs)]) \o Written(rs, encoding) \in Seq(Byte)
           /\ ParseWith(LineBytes(ArrayByte, Decimal[Len(rs)]) \o Written(rs, encoding), parse) =
                  Parsed(Array(rs),
                         Len(LineBytes(ArrayByte, Decimal[Len(rs)]) \o Written(rs, encoding)))
<1>0. ASSUME NEW head \in Seq(Byte), Len(head) > 0
      PROVE  ParseElements(head \o Written(rs, encoding), Len(rs), Len(head), parse) =
                 Parsed(rs, Len(head \o Written(rs, encoding)))
  BY <1>0, ElementsRead, ZenonT(40)
<1>1. PICK n \in Nat : n = Len(rs)
  BY LenProperties
<1>2. PICK msg \in Seq(Byte) : msg = Decimal[n] /\ CrlfPositions(msg) = {}
  <2>1. PICK msg \in Seq(Byte) : msg = Decimal[n] /\ \A i \in 1 .. Len(msg) : msg[i] # CR
    BY NumberReads
  <2>2. CrlfPositions(msg) = {}
    BY <2>1, NoCr
  <2> QED BY <2>1, <2>2
<1>3. IsI64(msg) /\ I64Value(msg) = n
  <2>1. n <= MaxI64
    BY <1>1, Sizes
  <2> QED BY <1>2, <2>1, I64Reads
<1>4. ArrayByte \in PrefixBytes /\ ArrayByte \in Byte
  BY DEF PrefixBytes, ArrayByte, Byte
<1>5. PICK header \in Seq(Byte) : header = LineBytes(ArrayByte, msg) /\ Len(header) > 0
  <2>1. LineBytes(ArrayByte, msg) \in Seq(Byte) /\ Len(LineBytes(ArrayByte, msg)) = Len(msg) + 3
    BY <1>4, LineType
  <2>2. Len(msg) + 3 > 0
    BY LenProperties
  <2> QED BY <2>1, <2>2
<1>6. PICK z \in Seq(Byte) : z = Written(rs, encoding)
  BY WrittenType
<1>7. PICK bytes \in Seq(Byte) : bytes = header \o z /\ Begins(header, bytes)
  <2>1. header \o z \in Seq(Byte)
    BY ConcatProperties
  <2>2. Begins(header, header \o z)
    BY BeginsConcat
  <2> QED BY <2>1, <2>2
<1>8. Begins(LineBytes(ArrayByte, msg), bytes)
  BY <1>5, <1>7
<1>9. PICK body \in Seq(Byte) :
          /\ Tail(body) = msg
          /\ Head(bytes) = ArrayByte
          /\ \A q :
                 ParseWith(bytes, q) =
                     ParseLineOf(bytes, Parsed(body, Len(LineBytes(ArrayByte, msg))), q)
  <2>1. CrlfPositions(msg) = {} /\ ArrayByte \in PrefixBytes
    BY <1>2, <1>4
  <2> QED BY <1>8, <2>1, LineParses, Zenon
<1>10. PICK h : h = Len(header)
  OBVIOUS
<1>11. ParseWith(bytes, parse) = ParseArray(bytes, Parsed(body, h), parse)
  BY <1>5, <1>9, <1>10, PrefixCases
<1>12. PICK elements : elements = ParseElements(bytes, n, h, parse)
  OBVIOUS
<1>13. elements = Parsed(rs, Len(bytes))
  <2>1. ParseElements(header \o Written(rs, encoding), Len(rs), Len(header), parse) =
            Parsed(rs, Len(header \o Written(rs, encoding)))
    <3>1. Len(header) > 0
      BY <1>5
    <3> QED BY <1>0, <3>1
  <2> QED BY <1>1, <1>6, <1>7, <1>10, <1>12, <2>1
<1>14. elements.kind = "parsed" /\ elements.data = rs /\ elements.num_bytes_parsed = Len(bytes)
  BY <1>13, ResultKinds
<1>15. ParseArray(bytes, Parsed(body, h), parse) =
           IF ~IsI64(Tail(body)) THEN Failed("InvalidInt")
           ELSE IF n < 0 THEN Failed("InvalidArrayLength")
           ELSE IF n > MaxCapacity THEN Panicked
           ELSE IF elements.kind # "parsed" THEN elements
           ELSE Parsed(Array(elements.data), elements.num_bytes_parsed)
  <2>1. n = I64Value(Tail(body))
    BY <1>3, <1>9
  <2> QED BY <1>12, <2>1, ArrayCases
<1>16. ~(n < 0) /\ ~(n > MaxCapacity)
  BY <1>1, Sizes
<1>17. ParseArray(bytes, Parsed(body, h), parse) = Parsed(Array(rs), Len(bytes))
  BY <1>3, <1>9, <1>14, <1>15, <1>16
<1> QED BY <1>1, <1>2, <1>5, <1>6, <1>7, <1>11, <1>17

LEMMA KindsOver ==
    ASSUME NEW inner, NEW r \in ResponsesOver(inner)
    PROVE  \/ r = Ok
           \/ r = Null
           \/ \E msg \in Messages : r = Error(msg)
           \/ \E data \in CStrings : r = Cstr(data)
           \/ \E n \in I64 : r = Integer(n)
           \/ \E rs \in Seq(inner) : Len(rs) <= MaxCapacity /\ r = Array(rs)
<1>1. CASE r \in {Ok, Null}
  BY <1>1
<1>2. CASE r \in [kind : {"Error"}, msg : Messages]
  <2>1. r.msg \in Messages /\ r = [kind |-> "Error", msg |-> r.msg]
    BY <1>2
  <2> QED BY <2>1 DEF Error
<1>3. CASE r \in [kind : {"Cstr"}, bytes : CStrings]
  <2>1. r.bytes \in CStrings /\ r = [kind |-> "Cstr", bytes |-> r.bytes]
    BY <1>3
  <2> QED BY <2>1 DEF Cstr
<1>4. CASE r \in [kind : {"Integer"}, n : I64]
  <2>1. r.n \in I64 /\ r = [kind |-> "Integer", n |-> r.n]
    BY <1>4
  <2> QED BY <2>1 DEF Integer
<1>5. CASE r \in [kind : {"Array"}, responses : {rs \in Seq(inner) : Len(rs) <= MaxCapacity}]
  <2>1. /\ r.responses \in Seq(inner) /\ Len(r.responses) <= MaxCapacity
        /\ r = [kind |-> "Array", responses |-> r.responses]
    BY <1>5
  <2> QED BY <2>1 DEF Array
<1> QED BY <1>1, <1>2, <1>3, <1>4, <1>5 DEF ResponsesOver, Leaves

LEMMA BytesCases ==
    ASSUME NEW encoding
    PROVE  /\ BytesWith(Ok, encoding) = LineBytes(SStrByte, OkBody)
           /\ BytesWith(Null, encoding) = LineBytes(CStringByte, SignedDecimal(-1))
           /\ \A msg : BytesWith(Error(msg), encoding) = LineBytes(ErrorByte, msg)
           /\ \A data : BytesWith(Cstr(data), encoding) = CStringBytes(data)
           /\ \A n : BytesWith(Integer(n), encoding) = LineBytes(IntegerByte, SignedDecimal(n))
           /\ \A rs : BytesWith(Array(rs), encoding) =
                          LineBytes(ArrayByte, Decimal[Len(rs)]) \o Written(rs, encoding)
<1>1. Ok.kind = "Ok" /\ Null.kind = "Null"
  BY DEF Ok, Null
<1>2. \A msg : Error(msg).kind = "Error" /\ Error(msg).msg = msg
  BY DEF Error
<1>3. \A data : Cstr(data).kind = "Cstr" /\ Cstr(data).bytes = data
  BY DEF Cstr
<1>4. \A n : Integer(n).kind = "Integer" /\ Integer(n).n = n
  BY DEF Integer
<1>5. \A rs : Array(rs).kind = "Array" /\ Array(rs).responses = rs
  BY DEF Array
<1>6. BytesWith(Ok, encoding) = LineBytes(SStrByte, OkBody)
  BY <1>1 DEF BytesWith
<1>7. BytesWith(Null, encoding) = LineBytes(CStringByte, SignedDecimal(-1))
  BY <1>1 DEF BytesWith
<1>8. \A msg : BytesWith(Error(msg), encoding) = LineBytes(ErrorByte, msg)
  BY <1>2 DEF BytesWith
<1>9. \A data : BytesWith(Cstr(data), encoding) = CStringBytes(data)
  BY <1>3 DEF BytesWith
<1>10. \A n : BytesWith(Integer(n), encoding) = LineBytes(IntegerByte, SignedDecimal(n))
  BY <1>4 DEF BytesWith
<1>11. \A rs : BytesWith(Array(rs), encoding) =
                   LineBytes(ArrayByte, Decimal[Len(rs)]) \o Written(rs, encoding)
  BY <1>5 DEF BytesWith
<1> QED BY <1>6, <1>7, <1>8, <1>9, <1>10, <1>11

LEMMA WithType ==
    ASSUME NEW R, NEW encoding \in [R -> Seq(Byte)], NEW r \in ResponsesOver(R)
    PROVE  BytesWith(r, encoding) \in Seq(Byte)
<1>1. {SStrByte, ErrorByte, CStringByte, IntegerByte, ArrayByte} \subseteq Byte
  BY DEF SStrByte, ErrorByte, CStringByte, IntegerByte, ArrayByte, Plus, Minus, Byte
<1>2. CASE r = Ok
  <2>1. OkBody \in Seq(Byte)
    <3>1. 79 \in Byte /\ 75 \in Byte
      BY DEF Byte
    <3> QED BY <3>1 DEF OkBody
  <2>2. LineBytes(SStrByte, OkBody) \in Seq(Byte)
    BY <1>1, <2>1, LineType
  <2> QED BY <1>2, <2>2, BytesCases
<1>3. CASE r = Null
  <2>1. SignedDecimal(-1) \in Seq(Byte)
    <3>1. -1 \in I64
      BY Sizes DEF I64
    <3> QED BY <3>1, SignedReads
  <2>2. LineBytes(CStringByte, SignedDecimal(-1)) \in Seq(Byte)
    BY <1>1, <2>1, LineType
  <2> QED BY <1>3, <2>2, BytesCases
<1>4. CASE \E msg \in Messages : r = Error(msg)
  <2>1. PICK msg \in Messages : r = Error(msg)
    BY <1>4
  <2>2. msg \in Seq(Byte)
    BY MessageAssumption
  <2>3. LineBytes(ErrorByte, msg) \in Seq(Byte)
    BY <1>1, <2>2, LineType
  <2> QED BY <2>1, <2>3, BytesCases
<1>5. CASE \E data \in CStrings : r = Cstr(data)
  <2>1. PICK data \in CStrings : r = Cstr(data)
    BY <1>5
  <2>2. data \in Seq(Byte)
    BY DEF CStrings
  <2>3. CStringBytes(data) \in Seq(Byte)
    BY <2>2, CStringType
  <2> QED BY <2>1, <2>3, BytesCases
<1>6. CASE \E n \in I64 : r = Integer(n)
  <2>1. PICK n \in I64 : r = Integer(n)
    BY <1>6
  <2>2. SignedDecimal(n) \in Seq(Byte)
    BY SignedReads
  <2>3. LineBytes(IntegerByte, SignedDecimal(n)) \in Seq(Byte)
    BY <1>1, <2>2, LineType
  <2> QED BY <2>1, <2>3, BytesCases
<1>7. CASE \E rs \in Seq(R) : Len(rs) <= MaxCapacity /\ r = Array(rs)
  <2>1. PICK rs \in Seq(R) : r = Array(rs)
    BY <1>7
  <2>2. Decimal[Len(rs)] \in Seq(Byte)
    BY LenProperties, NumberReads
  <2>3. LineBytes(ArrayByte, Decimal[Len(rs)]) \in Seq(Byte)
    BY <1>1, <2>2, LineType
  <2>4. Written(rs, encoding) \in Seq(Byte)
    BY WrittenType
  <2>5. LineBytes(ArrayByte, Decimal[Len(rs)]) \o Written(rs, encoding) \in Seq(Byte)
    BY <2>3, <2>4, ConcatProperties
  <2> QED BY <2>1, <2>5, BytesCases
<1> QED BY <1>2, <1>3, <1>4, <1>5, <1>6, <1>7, KindsOver

LEMMA BytesType == \A n \in Nat : BytesUpTo[n] \in [ResponsesUpTo[n] -> Seq(Byte)]
<1> DEFINE S == {n \in Nat : BytesUpTo[n] \in [ResponsesUpTo[n] -> Seq(Byte)]}
<1>1. 0 \in S
  <2>1. BytesUpTo[0] = <<>> /\ ResponsesUpTo[0] = {}
    BY BytesUpToUnfolds, ResponsesUpToUnfolds
  <2>2. <<>> = [i \in {} |-> <<>>]
    OBVIOUS
  <2> QED BY <2>1, <2>2
<1>2. ASSUME NEW n \in Nat, n \in S
      PROVE  n + 1 \in S
  <2>1. PICK R, encoding : R = ResponsesUpTo[n] /\ encoding = BytesUpTo[n]
    OBVIOUS
  <2>2. encoding \in [R -> Seq(Byte)]
    BY <1>2, <2>1
  <2>3. /\ ResponsesUpTo[n + 1] = ResponsesOver(R)
        /\ BytesUpTo[n + 1] = [r \in ResponsesOver(R) |-> BytesWith(r, encoding)]
    BY <2>1, BytesUpToUnfolds, ResponsesUpToUnfolds DEF BytesOver
  <2>4. \A r \in ResponsesOver(R) : BytesWith(r, encoding) \in Seq(Byte)
    BY <2>2, WithType
  <2> QED BY <2>3, <2>4
<1> HIDE DEF S
<1>3. Nat \subseteq S
  BY <1>1, <1>2, Counting
<1> QED BY <1>3 DEF S

LEMMA WithReads ==
    ASSUME MessagesAreLines, NEW R, NEW encoding \in [R -> Seq(Byte)],
           NEW parse, Steady(parse), Reads(parse, encoding, R),
           NEW r \in ResponsesOver(R)
    PROVE  ParseWith(BytesWith(r, encoding), parse) = Parsed(r, Len(BytesWith(r, encoding)))
<1>1. CASE r = Ok
  BY <1>1, BytesCases, OkReads
<1>2. CASE r = Null
  BY <1>2, BytesCases, NullReads
<1>3. CASE \E msg \in Messages : r = Error(msg)
  <2>1. PICK msg \in Messages : r = Error(msg)
    BY <1>3
  <2>2. CrlfPositions(msg) = {}
    BY DEF MessagesAreLines
  <2>3. BytesWith(r, encoding) = LineBytes(ErrorByte, msg)
    BY <2>1, BytesCases
  <2>4. /\ LineBytes(ErrorByte, msg) \in Seq(Byte)
        /\ ParseWith(LineBytes(ErrorByte, msg), parse) =
               Parsed(Error(msg), Len(LineBytes(ErrorByte, msg)))
    BY <2>2, ErrorReads
  <2> QED BY <2>1, <2>3, <2>4
<1>4. CASE \E data \in CStrings : r = Cstr(data)
  <2>1. PICK data \in CStrings : r = Cstr(data)
    BY <1>4
  <2>2. BytesWith(r, encoding) = CStringBytes(data)
    BY <2>1, BytesCases
  <2>3. /\ CStringBytes(data) \in Seq(Byte)
        /\ ParseWith(CStringBytes(data), parse) =
               Parsed(Cstr(data), Len(CStringBytes(data)))
    BY CstrReads
  <2> QED BY <2>1, <2>2, <2>3
<1>5. CASE \E n \in I64 : r = Integer(n)
  <2>1. PICK n \in I64 : r = Integer(n)
    BY <1>5
  <2>2. BytesWith(r, encoding) = LineBytes(IntegerByte, SignedDecimal(n))
    BY <2>1, BytesCases
  <2>3. /\ LineBytes(IntegerByte, SignedDecimal(n)) \in Seq(Byte)
        /\ ParseWith(LineBytes(IntegerByte, SignedDecimal(n)), parse) =
               Parsed(Integer(n), Len(LineBytes(IntegerByte, SignedDecimal(n))))
    BY IntegerReads
  <2> QED BY <2>1, <2>2, <2>3
<1>6. CASE \E rs \in Seq(R) : Len(rs) <= MaxCapacity /\ r = Array(rs)
  <2>1. PICK rs \in Seq(R) : Len(rs) <= MaxCapacity /\ r = Array(rs)
    BY <1>6
  <2>2. BytesWith(r, encoding) =
            LineBytes(ArrayByte, Decimal[Len(rs)]) \o Written(rs, encoding)
    BY <2>1, BytesCases
  <2>3. /\ LineBytes(ArrayByte, Decimal[Len(rs)]) \o Written(rs, encoding) \in Seq(Byte)
        /\ ParseWith(LineBytes(ArrayByte, Decimal[Len(rs)]) \o Written(rs, encoding), parse) =
               Parsed(Array(rs),
                      Len(LineBytes(ArrayByte, Decimal[Len(rs)]) \o Written(rs, encoding)))
    BY <2>1, ArrayReads
  <2> QED BY <2>1, <2>2, <2>3
<1> QED BY <1>1, <1>2, <1>3, <1>4, <1>5, <1>6, KindsOver

(* At every depth, what to_bytes wrote is parsed as the response it was.     *)
LEMMA ParserReads ==
    ASSUME MessagesAreLines
    PROVE  \A n \in Nat : Reads(ParseUpTo[n], BytesUpTo[n], ResponsesUpTo[n])
<1> DEFINE S == {n \in Nat : Reads(ParseUpTo[n], BytesUpTo[n], ResponsesUpTo[n])}
<1>1. 0 \in S
  BY ResponsesUpToUnfolds DEF Reads
<1>2. ASSUME NEW n \in Nat, n \in S
      PROVE  n + 1 \in S
  <2>1. PICK R, encoding, parse :
            R = ResponsesUpTo[n] /\ encoding = BytesUpTo[n] /\ parse = ParseUpTo[n]
    OBVIOUS
  <2>2. encoding \in [R -> Seq(Byte)] /\ Reads(parse, encoding, R) /\ Steady(parse)
    BY <1>2, <2>1, BytesType, ParserAnswers
  <2>3. PICK R2, encoding2, parse2 :
            /\ R2 = ResponsesUpTo[n + 1]
            /\ encoding2 = BytesUpTo[n + 1]
            /\ parse2 = ParseUpTo[n + 1]
    OBVIOUS
  <2>4. R2 = ResponsesOver(R) /\ encoding2 = [r \in R2 |-> BytesWith(r, encoding)]
    BY <2>1, <2>3, BytesUpToUnfolds, ResponsesUpToUnfolds DEF BytesOver
  <2>5. ASSUME NEW r \in R2
        PROVE  parse2[encoding2[r]] = Parsed(r, Len(encoding2[r]))
    <3>1. PICK bytes \in Seq(Byte) : bytes = BytesWith(r, encoding) /\ bytes = encoding2[r]
      BY <2>2, <2>4, WithType
    <3>2. parse2[bytes] = ParseWith(bytes, parse)
      BY <2>1, <2>3, OneDeeper
    <3>3. ParseWith(BytesWith(r, encoding), parse) = Parsed(r, Len(BytesWith(r, encoding)))
      BY <2>2, <2>4, WithReads
    <3> QED BY <3>1, <3>2, <3>3
  <2>6. Reads(parse2, encoding2, R2)
    BY <2>5 DEF Reads
  <2> QED BY <2>3, <2>6
<1> HIDE DEF S
<1>3. Nat \subseteq S
  BY <1>1, <1>2, Counting
<1> QED BY <1>3 DEF S

-----------------------------------------------------------------------------
(* What read_next has returned, with responses of T.                         *)

Results(T) ==
    {EndOfInput, Panicked, Overflowed} \cup {Failed(error) : error \in Errors}
        \cup {Response(data) : data \in T}

LEMMA ResultTypes ==
    ASSUME NEW T
    PROVE  /\ \A result \in {EndOfInput, Panicked, Overflowed} :
                  result \in Results(T) /\ result.kind # "response"
           /\ \A error \in Errors : /\ Failed(error) \in Results(T)
                                     /\ Failed(error).kind # "response"
           /\ \A data \in T : /\ Response(data) \in Results(T)
                              /\ Response(data).kind = "response"
                              /\ Response(data).data = data
           /\ \A result \in Results(T) : result.kind = "response" => result.data \in T
BY ResultKinds DEF Results

\* The responses up to each result.
Takes(rs, T) ==
    [i \in 1 .. Len(rs) |->
        [v \in Seq(T) |->
            IF rs[i].kind = "response" THEN Append(v, rs[i].data) ELSE v]]

LEMMA TakesAt ==
    ASSUME NEW T, NEW rs \in Seq(Results(T)), NEW i \in 1 .. Len(rs), NEW v \in Seq(T)
    PROVE  /\ Takes(rs, T)[i][v] =
                  IF rs[i].kind = "response" THEN Append(v, rs[i].data) ELSE v
           /\ Takes(rs, T)[i][v] \in Seq(T)
<1>1. rs[i] \in Results(T)
  BY ElementOfSeq
<1>2. rs[i].kind = "response" => Append(v, rs[i].data) \in Seq(T)
  <2> SUFFICES ASSUME rs[i].kind = "response" PROVE Append(v, rs[i].data) \in Seq(T)
    OBVIOUS
  <2>1. rs[i].data \in T
    BY <1>1, ResultTypes
  <2> QED BY <2>1, AppendProperties
<1>3. Takes(rs, T)[i][v] = IF rs[i].kind = "response" THEN Append(v, rs[i].data) ELSE v
  BY DEF Takes
<1> QED BY <1>2, <1>3

\* ResponsesIn, result by result.
LEMMA ResponsesUnroll ==
    ASSUME NEW T, NEW rs \in Seq(Results(T))
    PROVE  \E taken \in [0 .. Len(rs) -> Seq(T)] :
               /\ Unrolls(taken, <<>>, Takes(rs, T), Len(rs))
               /\ ResponsesIn(rs) = taken[Len(rs)]
<1>1. PICK n \in Nat : n = Len(rs)
  BY LenProperties
<1> DEFINE Is(f) == f = [i \in 0 .. n |->
                            IF i = 0 THEN <<>>
                            ELSE IF rs[i].kind = "response" THEN Append(f[i - 1], rs[i].data)
                            ELSE f[i - 1]]
           chosen == CHOOSE f : Is(f)
<1>2. Takes(rs, T) \in [1 .. n -> [Seq(T) -> Seq(T)]]
  <2>1. \A i \in 1 .. n, v \in Seq(T) : Takes(rs, T)[i][v] \in Seq(T)
    BY <1>1, TakesAt
  <2>2. Takes(rs, T) = [i \in 1 .. n |-> Takes(rs, T)[i]]
    BY <1>1 DEF Takes
  <2>3. \A i \in 1 .. n : Takes(rs, T)[i] = [v \in Seq(T) |-> Takes(rs, T)[i][v]]
    BY <1>1 DEF Takes
  <2>4. \A i \in 1 .. n : Takes(rs, T)[i] \in [Seq(T) -> Seq(T)]
    BY <2>1, <2>3
  <2> QED BY <2>2, <2>4
<1>3. PICK f \in [0 .. n -> Seq(T)] : Unrolls(f, <<>>, Takes(rs, T), n)
  <2>1. <<>> \in Seq(T)
    OBVIOUS
  <2> QED BY <1>2, <2>1, UnrollsExists, Zenon
<1>4. \A i \in 1 .. n :
          f[i] = IF rs[i].kind = "response" THEN Append(f[i - 1], rs[i].data) ELSE f[i - 1]
  <2> SUFFICES ASSUME NEW i \in 1 .. n
               PROVE  f[i] = IF rs[i].kind = "response" THEN Append(f[i - 1], rs[i].data)
                             ELSE f[i - 1]
    OBVIOUS
  <2>1. f[i - 1] \in Seq(T)
    OBVIOUS
  <2>2. f[i] = Takes(rs, T)[i][f[i - 1]]
    BY <1>3 DEF Unrolls
  <2> QED BY <1>1, <2>1, <2>2, TakesAt
<1>5. f[0] = <<>>
  BY <1>3 DEF Unrolls
<1>6. Is(f)
  <2> DEFINE F == [i \in 0 .. n |->
                      IF i = 0 THEN <<>>
                      ELSE IF rs[i].kind = "response" THEN Append(f[i - 1], rs[i].data)
                      ELSE f[i - 1]]
  <2>1. ASSUME NEW i \in 0 .. n
        PROVE  f[i] = F[i]
    <3>1. CASE i = 0
      BY <1>5, <3>1
    <3>2. CASE i # 0
      <4>1. i \in 1 .. n
        BY <3>2
      <4>2. F[i] = IF rs[i].kind = "response" THEN Append(f[i - 1], rs[i].data) ELSE f[i - 1]
        BY <3>2
      <4> QED BY <1>4, <4>1, <4>2
    <3> QED BY <3>1, <3>2
  <2>2. DOMAIN F = 0 .. n /\ F = [i \in 0 .. n |-> F[i]]
    OBVIOUS
  <2> HIDE DEF F
  <2>3. f = [i \in 0 .. n |-> f[i]]
    OBVIOUS
  <2>4. f = F
    BY <2>1, <2>2, <2>3
  <2> QED BY <2>4 DEF F
<1>7. Is(chosen)
  BY <1>6
<1>8. ResponsesIn(rs) = chosen[n]
  BY <1>1 DEF ResponsesIn
<1> HIDE DEF chosen
<1>9. chosen = f
  <2> DEFINE S == {i \in Nat : i <= n => chosen[i] = f[i]}
  <2>1. 0 \in S
    BY <1>5, <1>7
  <2>2. ASSUME NEW i \in Nat, i \in S
        PROVE  i + 1 \in S
    <3> SUFFICES ASSUME i + 1 <= n PROVE chosen[i + 1] = f[i + 1]
      OBVIOUS
    <3>1. chosen[i] = f[i] /\ i + 1 \in 1 .. n /\ (i + 1) - 1 = i
      BY <2>2
    <3>2. chosen[i + 1] = IF rs[i + 1].kind = "response"
                          THEN Append(chosen[i], rs[i + 1].data) ELSE chosen[i]
      <4>1. PICK m \in 1 .. n : m = i + 1 /\ m - 1 = i
        BY <3>1
      <4>2. m \in 0 .. n /\ m # 0
        OBVIOUS
      <4>3. chosen[m] = IF rs[m].kind = "response"
                        THEN Append(chosen[m - 1], rs[m].data) ELSE chosen[m - 1]
        BY <1>7, <4>2
      <4> QED BY <4>1, <4>3
    <3>3. f[i + 1] = IF rs[i + 1].kind = "response"
                     THEN Append(f[i], rs[i + 1].data) ELSE f[i]
      BY <1>4, <3>1
    <3> QED BY <3>1, <3>2, <3>3
  <2> HIDE DEF S
  <2>3. Nat \subseteq S
    BY <2>1, <2>2, Counting
  <2>4. \A i \in 0 .. n : chosen[i] = f[i]
    BY <2>3 DEF S
  <2> QED BY <1>7, <2>4
<1> QED BY <1>1, <1>3, <1>8, <1>9

LEMMA ResponsesInType ==
    ASSUME NEW T, NEW rs \in Seq(Results(T))
    PROVE  ResponsesIn(rs) \in Seq(T)
<1>1. PICK n \in Nat : n = Len(rs)
  BY LenProperties
<1>2. PICK f \in [0 .. n -> Seq(T)] : ResponsesIn(rs) = f[n]
  BY <1>1, ResponsesUnroll
<1> QED BY <1>2

LEMMA ResponsesInEmpty == ResponsesIn(<<>>) = <<>>
<1> DEFINE T == {}
<1> HIDE DEF T
<1>1. <<>> \in Seq(Results(T)) /\ Len(<<>>) = 0
  OBVIOUS
<1>2. PICK f \in [0 .. 0 -> Seq(T)] :
          Unrolls(f, <<>>, Takes(<<>>, T), 0) /\ ResponsesIn(<<>>) = f[0]
  BY <1>1, ResponsesUnroll
<1> QED BY <1>2 DEF Unrolls

(* What a function returns on a member of its domain. *)
LEMMA ValueOfFunction ==
    ASSUME NEW D, NEW R, NEW h \in [D -> R], NEW d \in D
    PROVE  h[d] \in R
OBVIOUS

(* One result more. *)
LEMMA ResponsesInAppend ==
    ASSUME NEW T, NEW rs \in Seq(Results(T)), NEW result \in Results(T)
    PROVE  ResponsesIn(Append(rs, result)) =
               IF result.kind = "response" THEN Append(ResponsesIn(rs), result.data)
               ELSE ResponsesIn(rs)
<1>1. PICK n \in Nat : n = Len(rs)
  BY LenProperties
<1>2. PICK longer \in Seq(Results(T)) : longer = Append(rs, result)
  BY AppendProperties
<1>3. Len(longer) = n + 1 /\ longer[n + 1] = result /\ \A i \in 1 .. n : longer[i] = rs[i]
  BY <1>1, <1>2, AppendProperties
<1>4. PICK f \in [0 .. n -> Seq(T)] :
          Unrolls(f, <<>>, Takes(rs, T), n) /\ ResponsesIn(rs) = f[n]
  BY <1>1, ResponsesUnroll
<1>5. PICK g \in [0 .. n + 1 -> Seq(T)] :
          Unrolls(g, <<>>, Takes(longer, T), n + 1) /\ ResponsesIn(longer) = g[n + 1]
  BY <1>3, ResponsesUnroll
<1>6. \A i \in 1 .. n :
          f[i] = IF rs[i].kind = "response" THEN Append(f[i - 1], rs[i].data) ELSE f[i - 1]
  <2> SUFFICES ASSUME NEW i \in 1 .. n
               PROVE  f[i] = IF rs[i].kind = "response" THEN Append(f[i - 1], rs[i].data)
                             ELSE f[i - 1]
    OBVIOUS
  <2>1. PICK before \in Seq(T) : before = f[i - 1]
    OBVIOUS
  <2>2. f[i] = Takes(rs, T)[i][f[i - 1]]
    BY <1>4 DEF Unrolls
  <2>3. Takes(rs, T)[i][before] =
            IF rs[i].kind = "response" THEN Append(before, rs[i].data) ELSE before
    BY <1>1, TakesAt
  <2> QED BY <2>1, <2>2, <2>3
<1>7. \A i \in 1 .. n + 1 :
          g[i] = IF longer[i].kind = "response" THEN Append(g[i - 1], longer[i].data)
                 ELSE g[i - 1]
  <2> SUFFICES ASSUME NEW i \in 1 .. n + 1
               PROVE  g[i] = IF longer[i].kind = "response"
                             THEN Append(g[i - 1], longer[i].data) ELSE g[i - 1]
    OBVIOUS
  <2>1. g[i - 1] \in Seq(T)
    <3>1. PICK j \in 0 .. n + 1 : j = i - 1
      OBVIOUS
    <3>2. g[j] \in Seq(T)
      BY ValueOfFunction
    <3> QED BY <3>1, <3>2
  <2>2. g[i] = Takes(longer, T)[i][g[i - 1]]
    BY <1>5 DEF Unrolls
  <2>3. i \in 1 .. Len(longer)
    BY <1>3
  <2>4. PICK before \in Seq(T) : before = g[i - 1]
    BY <2>1
  <2>5. Takes(longer, T)[i][before] =
            IF longer[i].kind = "response" THEN Append(before, longer[i].data) ELSE before
    BY <2>3, TakesAt
  <2> QED BY <2>2, <2>4, <2>5
<1>8. f[0] = <<>> /\ g[0] = <<>>
  BY <1>4, <1>5 DEF Unrolls
<1> DEFINE S == {i \in Nat : i <= n => f[i] = g[i]}
<1>9. 0 \in S
  BY <1>8
<1>10. ASSUME NEW i \in Nat, i \in S
       PROVE  i + 1 \in S
  <2> SUFFICES ASSUME i + 1 <= n PROVE f[i + 1] = g[i + 1]
    OBVIOUS
  <2>1. f[i] = g[i] /\ i + 1 \in 1 .. n /\ i + 1 \in 1 .. n + 1 /\ (i + 1) - 1 = i
    BY <1>10
  <2>2. longer[i + 1] = rs[i + 1]
    BY <1>3, <2>1
  <2>3. f[i + 1] = IF rs[i + 1].kind = "response"
                   THEN Append(f[i], rs[i + 1].data) ELSE f[i]
    BY <1>6, <2>1
  <2>4. g[i + 1] = IF longer[i + 1].kind = "response"
                   THEN Append(g[i], longer[i + 1].data) ELSE g[i]
    BY <1>7, <2>1
  <2> QED BY <2>1, <2>2, <2>3, <2>4
<1> HIDE DEF S
<1>11. f[n] = g[n]
  <2>1. Nat \subseteq S
    BY <1>9, <1>10, Counting
  <2> QED BY <2>1 DEF S
<1>12. g[n + 1] = IF result.kind = "response" THEN Append(g[n], result.data) ELSE g[n]
  <2>1. n + 1 \in 1 .. n + 1 /\ (n + 1) - 1 = n
    OBVIOUS
  <2> QED BY <1>3, <1>7, <2>1
<1> QED BY <1>2, <1>4, <1>5, <1>11, <1>12

-----------------------------------------------------------------------------
(* What is still to come when the responses in taken have come out.          *)

All == ResponsesUpTo[MaxDepth]

BytesAfter(s, taken) ==
    From(StreamBytes(s.sent) \o s.tail, Len(StreamBytes(taken)))

LEMMA WithTheStack ==
    /\ BytesUpTo[MaxDepth] \in [All -> Seq(Byte)]
    /\ \A bytes \in Seq(Byte) : IsOutcome(ParseResponse(bytes), Len(bytes))
    /\ \A bytes \in Seq(Byte), more \in Seq(Byte) :
           Begins(bytes, more) /\ ParseResponse(bytes) # Incomplete
               => ParseResponse(more) = ParseResponse(bytes)
    /\ MessagesAreLines =>
           \A r \in All : ParseResponse(ResponseBytes(r)) = Parsed(r, Len(ResponseBytes(r)))
<1>1. MaxDepth \in Nat
  BY Sizes
<1>2. BytesUpTo[MaxDepth] \in [All -> Seq(Byte)]
  BY <1>1, BytesType DEF All
<1>3. Answers(ParseUpTo[MaxDepth]) /\ Steady(ParseUpTo[MaxDepth])
  BY <1>1, ParserAnswers
<1>4. MessagesAreLines => Reads(ParseUpTo[MaxDepth], BytesUpTo[MaxDepth], All)
  BY <1>1, ParserReads DEF All
<1> QED BY <1>2, <1>3, <1>4 DEF Answers, Steady, Reads, ParseResponse, ResponseBytes

LEMMA AfterBytes ==
    ASSUME NEW s \in Scripts, NEW taken \in Seq(All), Begins(taken, s.sent)
    PROVE  \E whole \in Seq(Byte), x \in Seq(Byte) :
               /\ whole = StreamBytes(s.sent) \o s.tail
               /\ x = StreamBytes(taken)
               /\ Begins(x, whole)
               /\ BytesAfter(s, taken) = From(whole, Len(x))
               /\ BytesAfter(s, taken) \in Seq(Byte)
               /\ Len(BytesAfter(s, taken)) = Len(whole) - Len(x)
<1>1. PICK sent \in Seq(All), tail \in Seq(Byte) : sent = s.sent /\ tail = s.tail
  BY ScriptAssumption DEF All
<1>2. PICK all \in Seq(Byte), x \in Seq(Byte) : all = StreamBytes(sent) /\ x = StreamBytes(taken)
  BY WithTheStack, WrittenType DEF StreamBytes
<1>3. PICK whole \in Seq(Byte) : whole = all \o tail /\ Begins(all, whole)
  BY ConcatProperties, BeginsConcat
<1>4. Begins(x, all)
  <2>1. Begins(taken, sent)
    BY <1>1
  <2>2. Begins(Written(taken, BytesUpTo[MaxDepth]), Written(sent, BytesUpTo[MaxDepth]))
    BY <2>1, WithTheStack, WrittenGrows
  <2> QED BY <1>2, <2>2 DEF StreamBytes
<1>5. Begins(x, whole)
  BY <1>3, <1>4, BeginsTransitive
<1>6. Len(x) \in 0 .. Len(whole)
  BY <1>5, LenProperties DEF Begins
<1>7. From(whole, Len(x)) \in Seq(Byte) /\ Len(From(whole, Len(x))) = Len(whole) - Len(x)
  BY <1>6, FromProperties
<1>8. BytesAfter(s, taken) = From(whole, Len(x))
  BY <1>1, <1>2, <1>3 DEF BytesAfter
<1> QED BY <1>1, <1>2, <1>3, <1>5, <1>7, <1>8

(* Another response: it begins what is to come, and once some of that can be *)
(* parsed it is this response.                                               *)
LEMMA AfterSome ==
    ASSUME MessagesAreLines, NEW s \in Scripts, NEW taken \in Seq(All), Begins(taken, s.sent),
           Len(taken) < Len(s.sent),
           NEW bytes \in Seq(Byte), Begins(bytes, BytesAfter(s, taken))
    PROVE  \E r \in All, y \in Seq(Byte) :
               /\ r = s.sent[Len(taken) + 1]
               /\ Append(taken, r) \in Seq(All)
               /\ Begins(Append(taken, r), s.sent)
               /\ y = ResponseBytes(r)
               /\ Begins(y, BytesAfter(s, taken))
               /\ Len(StreamBytes(Append(taken, r))) = Len(StreamBytes(taken)) + Len(y)
               /\ ParseResponse(bytes) # Incomplete =>
                      ParseResponse(bytes) = Parsed(r, Len(y)) /\ Len(y) \in 1 .. Len(bytes)
               /\ Len(y) <= Len(bytes) => ParseResponse(bytes) # Incomplete
<1>1. PICK sent \in Seq(All), tail \in Seq(Byte) : sent = s.sent /\ tail = s.tail
  BY ScriptAssumption DEF All
<1>2. PICK encoding \in [All -> Seq(Byte)] : encoding = BytesUpTo[MaxDepth]
  BY WithTheStack
<1>3. Begins(taken, sent) /\ Len(taken) < Len(sent)
  BY <1>1
<1>4. PICK r \in All :
          /\ r = sent[Len(taken) + 1]
          /\ Append(taken, r) \in Seq(All)
          /\ Begins(Append(taken, r), sent)
          /\ Len(Written(taken, encoding)) \in 0 .. Len(Written(sent, encoding) \o tail)
          /\ Len(Written(Append(taken, r), encoding)) =
                 Len(Written(taken, encoding)) + Len(encoding[r])
          /\ Begins(encoding[r],
                    From(Written(sent, encoding) \o tail, Len(Written(taken, encoding))))
  BY <1>3, WrittenNext, Zenon
<1>5. PICK y \in Seq(Byte) : y = ResponseBytes(r) /\ y = encoding[r]
  BY <1>2 DEF ResponseBytes
<1>6. PICK coming \in Seq(Byte) : coming = BytesAfter(s, taken)
  BY AfterBytes
<1>7. Begins(y, coming)
  BY <1>1, <1>2, <1>4, <1>5, <1>6 DEF BytesAfter, StreamBytes
<1>8. Len(StreamBytes(Append(taken, r))) = Len(StreamBytes(taken)) + Len(y)
  BY <1>2, <1>4, <1>5 DEF StreamBytes
<1>9. ParseResponse(y) = Parsed(r, Len(y)) /\ ParseResponse(y) # Incomplete
  <2>1. ParseResponse(y) = Parsed(r, Len(y))
    BY <1>5, WithTheStack
  <2>2. Parsed(r, Len(y)).kind # Incomplete.kind
    BY ResultKinds
  <2> QED BY <2>1, <2>2
<1>10. ParseResponse(coming) = Parsed(r, Len(y))
  BY <1>7, <1>9, WithTheStack
<1>11. ASSUME ParseResponse(bytes) # Incomplete
       PROVE  ParseResponse(bytes) = Parsed(r, Len(y)) /\ Len(y) \in 1 .. Len(bytes)
  <2>1. Begins(bytes, coming)
    BY <1>6
  <2>2. ParseResponse(coming) = ParseResponse(bytes)
    BY <1>11, <2>1, WithTheStack
  <2>3. PICK o : o = ParseResponse(bytes) /\ o = Parsed(r, Len(y))
    BY <1>10, <2>2
  <2>4. IsOutcome(o, Len(bytes))
    BY <2>3, WithTheStack
  <2>5. o.kind = "parsed" /\ o.num_bytes_parsed = Len(y)
    BY <2>3, ResultKinds
  <2>6. o.num_bytes_parsed \in 1 .. Len(bytes)
    BY <2>4, <2>5, OutcomeCases
  <2> QED BY <2>3, <2>5, <2>6
<1>12. ASSUME Len(y) <= Len(bytes)
       PROVE  ParseResponse(bytes) # Incomplete
  <2>1. Begins(bytes, coming)
    BY <1>6
  <2>2. Begins(y, bytes)
    BY <1>7, <1>12, <2>1, BeginsComparable
  <2>3. ParseResponse(bytes) = ParseResponse(y)
    BY <1>9, <2>2, WithTheStack
  <2> QED BY <1>9, <2>3
<1> QED BY <1>1, <1>4, <1>5, <1>6, <1>7, <1>8, <1>11, <1>12

\* No more: what is parsed is the tail, up to its verdict.
LEMMA AfterAll ==
    ASSUME NEW s \in Scripts, NEW taken \in Seq(All), Begins(taken, s.sent),
           ~(Len(taken) < Len(s.sent)),
           NEW bytes \in Seq(Byte), Begins(bytes, BytesAfter(s, taken))
    PROVE  /\ Len(taken) = Len(s.sent)
           /\ ParseResponse(bytes) # Incomplete =>
                  ParseResponse(bytes) = s.verdict /\ ParseResponse(bytes).kind # "parsed"
           /\ bytes = BytesAfter(s, taken) /\ ParseResponse(bytes) = Incomplete =>
                  s.verdict = IF bytes = <<>> THEN EndOfInput ELSE Failed("UnexpectedEof")
<1>1. PICK sent \in Seq(All), tail \in Seq(Byte) :
          /\ sent = s.sent /\ tail = s.tail
          /\ ParseResponse(tail).kind # "parsed"
          /\ s.verdict = VerdictOn(tail)
  BY ScriptAssumption DEF All
<1>2. Begins(taken, sent) /\ Len(sent) <= Len(taken)
  BY <1>1, LenProperties
<1>3. taken = sent
  BY <1>2, BeginsEqual
<1>4. BytesAfter(s, taken) = tail
  <2>1. PICK all \in Seq(Byte) : all = StreamBytes(sent)
    BY WithTheStack, WrittenType DEF StreamBytes
  <2>2. From(all \o tail, Len(all)) = tail
    BY FromConcat
  <2> QED BY <1>1, <1>3, <2>1, <2>2 DEF BytesAfter
<1>5. ASSUME ParseResponse(bytes) # Incomplete
      PROVE  ParseResponse(bytes) = s.verdict /\ ParseResponse(bytes).kind # "parsed"
  <2>1. ParseResponse(tail) = ParseResponse(bytes)
    BY <1>4, <1>5, WithTheStack
  <2> QED BY <1>1, <1>5, <2>1 DEF VerdictOn
<1>6. ASSUME bytes = BytesAfter(s, taken), ParseResponse(bytes) = Incomplete
      PROVE  s.verdict = IF bytes = <<>> THEN EndOfInput ELSE Failed("UnexpectedEof")
  BY <1>1, <1>4, <1>6 DEF VerdictOn
<1> QED BY <1>1, <1>3, <1>5, <1>6

-----------------------------------------------------------------------------
(* The inductive invariant.  The buffer is a beginning of the bytes behind   *)
(* the responses that have come out, and a wait for bytes is a wait on a     *)
(* buffer that cannot be parsed yet.                                         *)

Waits == pc = "read" => ~poisoned /\ ParseResponse(buffer) = Incomplete

Ends ==
    \A i \in DOMAIN results :
        results[i].kind \in {"end", "error", "panic", "overflow"} =>
            \/ results[i] = Failed("Io")
            \/ results[i] = script.verdict /\ Len(Delivered) = Len(script.sent)
            \/ poisoned /\ results[i] = Failed("Poisoned")

Pcs == {"decode", "read", "returned", "dead"}

IInv ==
    /\ script \in Scripts
    /\ stream = StreamBytes(script.sent) \o script.tail
    /\ results \in Seq(Results(All))
    /\ Begins(Delivered, script.sent)
    /\ buffer \in Seq(Byte)
    /\ Begins(buffer, BytesAfter(script, Delivered))
    /\ pos = Len(StreamBytes(Delivered)) + Len(buffer)
    /\ poisoned \in BOOLEAN
    /\ pc \in Pcs
    /\ Waits
    /\ Ends

LEMMA Taken ==
    ASSUME IInv
    PROVE  /\ Delivered \in Seq(All)
           /\ Len(Delivered) \in Nat
           /\ Len(buffer) \in Nat
           /\ StreamBytes(Delivered) \in Seq(Byte)
           /\ Len(StreamBytes(Delivered)) \in Nat
           /\ BytesAfter(script, Delivered) \in Seq(Byte)
<1>1. Delivered \in Seq(All)
  BY ResponsesInType DEF IInv, Delivered
<1>2. BytesAfter(script, Delivered) \in Seq(Byte)
  BY <1>1, AfterBytes DEF IInv
<1>3. StreamBytes(Delivered) \in Seq(Byte)
  BY <1>1, WithTheStack, WrittenType DEF StreamBytes
<1> QED BY <1>1, <1>2, <1>3, LenProperties DEF IInv

\* The buffer as a beginning of what is still to come.
LEMMA Coming ==
    ASSUME IInv
    PROVE  \E whole \in Seq(Byte), x \in Seq(Byte), coming \in Seq(Byte) :
               /\ whole = stream
               /\ x = StreamBytes(Delivered)
               /\ coming = BytesAfter(script, Delivered)
               /\ Begins(x, whole)
               /\ coming = From(whole, Len(x))
               /\ Len(coming) = Len(whole) - Len(x)
               /\ Len(whole) \in Nat /\ Len(x) \in 0 .. Len(whole)
               /\ buffer \in Seq(Byte) /\ Len(buffer) \in Nat
               /\ Begins(buffer, coming)
               /\ pos = Len(x) + Len(buffer)
<1>1. /\ script \in Scripts
      /\ stream = StreamBytes(script.sent) \o script.tail
      /\ Delivered \in Seq(All) /\ Begins(Delivered, script.sent)
      /\ buffer \in Seq(Byte) /\ Len(buffer) \in Nat
      /\ Begins(buffer, BytesAfter(script, Delivered))
      /\ pos = Len(StreamBytes(Delivered)) + Len(buffer)
  BY Taken DEF IInv
<1>2. \E whole \in Seq(Byte), x \in Seq(Byte) :
          /\ whole = StreamBytes(script.sent) \o script.tail
          /\ x = StreamBytes(Delivered)
          /\ Begins(x, whole)
          /\ BytesAfter(script, Delivered) = From(whole, Len(x))
          /\ BytesAfter(script, Delivered) \in Seq(Byte)
          /\ Len(BytesAfter(script, Delivered)) = Len(whole) - Len(x)
  BY <1>1, AfterBytes
<1>3. PICK whole \in Seq(Byte), x \in Seq(Byte) :
          /\ whole = stream
          /\ x = StreamBytes(Delivered)
          /\ Begins(x, whole)
          /\ BytesAfter(script, Delivered) = From(whole, Len(x))
          /\ BytesAfter(script, Delivered) \in Seq(Byte)
          /\ Len(BytesAfter(script, Delivered)) = Len(whole) - Len(x)
  BY <1>1, <1>2
<1>4. PICK coming \in Seq(Byte) : coming = BytesAfter(script, Delivered)
  BY <1>3
<1>5. Len(whole) \in Nat /\ Len(x) \in 0 .. Len(whole)
  BY <1>3, LenProperties DEF Begins
<1> QED BY <1>1, <1>3, <1>4, <1>5

\* A new reader.
LEMMA InitInv == Init => IInv
<1> SUFFICES ASSUME Init PROVE IInv
  OBVIOUS
<1>1. /\ script \in Scripts /\ stream = StreamBytes(script.sent) \o script.tail
      /\ pos = 0 /\ buffer = <<>> /\ poisoned = FALSE /\ pc = "decode" /\ results = <<>>
  BY DEF Init
<1>2. Delivered = <<>> /\ <<>> \in Seq(All)
  BY <1>1, ResponsesInEmpty DEF Delivered
<1>3. script.sent \in Seq(All)
  BY <1>1, ScriptAssumption DEF All
<1>4. Begins(Delivered, script.sent)
  BY <1>2, <1>3, BeginsEmpty
<1>5. BytesAfter(script, Delivered) \in Seq(Byte)
  BY <1>1, <1>2, <1>4, AfterBytes
<1>6. buffer \in Seq(Byte) /\ Begins(buffer, BytesAfter(script, Delivered))
  BY <1>1, <1>5, BeginsEmpty
<1>7. pos = Len(StreamBytes(Delivered)) + Len(buffer)
  <2>1. Len(<<>>) = 0
    OBVIOUS
  <2>2. StreamBytes(<<>>) = <<>>
    BY WrittenEmpty DEF StreamBytes
  <2> QED BY <1>1, <1>2, <2>1, <2>2
<1>8. results \in Seq(Results(All))
  BY <1>1
<1>9. Waits
  BY <1>1 DEF Waits
<1>10. Ends
  BY <1>1 DEF Ends
<1> QED BY <1>1, <1>4, <1>6, <1>7, <1>8, <1>9, <1>10 DEF IInv, Pcs

\* A result that is no response is returned.
LEMMA ResultKeeps ==
    ASSUME IInv, NEW result \in Results(All), result.kind # "response",
           results' = Append(results, result), pc' \in {"returned", "dead"},
           UNCHANGED <<script, stream, pos, buffer>>,
           poisoned' \in BOOLEAN, poisoned => poisoned',
           \/ result = Failed("Io")
           \/ result = script.verdict /\ Len(Delivered) = Len(script.sent)
           \/ poisoned' /\ result = Failed("Poisoned")
    PROVE  IInv'
<1>1. results \in Seq(Results(All))
  BY DEF IInv
<1>2. results' \in Seq(Results(All))
  BY <1>1, AppendProperties
<1>3. Delivered' = Delivered
  BY <1>1, ResponsesInAppend DEF Delivered
<1>4. Waits'
  BY DEF Waits
<1>5. Ends'
  <2> SUFFICES ASSUME NEW i \in DOMAIN results',
                      results'[i].kind \in {"end", "error", "panic", "overflow"}
               PROVE  \/ results'[i] = Failed("Io")
                      \/ results'[i] = script.verdict /\ Len(Delivered) = Len(script.sent)
                      \/ poisoned' /\ results'[i] = Failed("Poisoned")
    BY <1>3 DEF Ends
  <2>1. PICK m \in Nat : m = Len(results) /\ DOMAIN results = 1 .. m
    BY <1>1, LenProperties
  <2>2. /\ DOMAIN results' = 1 .. m + 1
        /\ results'[m + 1] = result
        /\ \A j \in 1 .. m : results'[j] = results[j]
    <3>1. Len(results') = m + 1
      BY <1>1, <2>1, AppendProperties
    <3> QED BY <1>1, <1>2, <2>1, <3>1, AppendProperties, LenProperties
  <2>3. CASE i = m + 1
    BY <2>2, <2>3
  <2>4. CASE i # m + 1
    <3>1. i \in DOMAIN results /\ results'[i] = results[i]
      BY <2>1, <2>2, <2>4
    <3> QED BY <3>1 DEF IInv, Ends
  <2> QED BY <2>3, <2>4
<1>6. /\ script' \in Scripts
      /\ stream' = StreamBytes(script'.sent) \o script'.tail
      /\ Begins(Delivered', script'.sent)
      /\ buffer' \in Seq(Byte)
      /\ Begins(buffer', BytesAfter(script', Delivered'))
      /\ pos' = Len(StreamBytes(Delivered')) + Len(buffer')
      /\ pc' \in Pcs
  BY <1>3 DEF IInv, Pcs
<1> QED BY <1>2, <1>4, <1>5, <1>6 DEF IInv

\* Nothing but the place of read_next changes.
LEMMA PcKeeps ==
    ASSUME IInv, UNCHANGED <<script, stream, pos, buffer, poisoned, results>>,
           pc' \in Pcs, pc' = "read" => Waits'
    PROVE  IInv'
<1>1. Delivered' = Delivered
  BY DEF Delivered
<1>2. Waits'
  BY DEF Waits
<1>3. Ends'
  BY <1>1 DEF IInv, Ends
<1>4. /\ script' \in Scripts
      /\ stream' = StreamBytes(script'.sent) \o script'.tail
      /\ results' \in Seq(Results(All))
      /\ Begins(Delivered', script'.sent)
      /\ buffer' \in Seq(Byte)
      /\ Begins(buffer', BytesAfter(script', Delivered'))
      /\ pos' = Len(StreamBytes(Delivered')) + Len(buffer')
      /\ poisoned' \in BOOLEAN
  BY <1>1 DEF IInv
<1> QED BY <1>2, <1>3, <1>4 DEF IInv

\* The response delivered is the next one sent, and it gives up its bytes.
LEMMA DeliverKeeps ==
    ASSUME MessagesAreLines, IInv, NEW parsed, parsed = ParseResponse(buffer), Deliver(parsed)
    PROVE  IInv'
<1>1. /\ parsed.kind = "parsed"
      /\ buffer' = From(buffer, parsed.num_bytes_parsed)
      /\ pc' = "returned" /\ results' = Append(results, Response(parsed.data))
      /\ UNCHANGED <<script, stream, pos, poisoned>>
  BY DEF Deliver, Return
<1>2. /\ script \in Scripts
      /\ Delivered \in Seq(All) /\ Begins(Delivered, script.sent)
      /\ buffer \in Seq(Byte) /\ Begins(buffer, BytesAfter(script, Delivered))
      /\ results \in Seq(Results(All))
  BY Taken DEF IInv
<1>3. parsed # Incomplete
  BY <1>1, ResultKinds
<1>4. Len(Delivered) < Len(script.sent)
  <2> SUFFICES ASSUME ~(Len(Delivered) < Len(script.sent)) PROVE FALSE
    OBVIOUS
  <2> QED BY <1>1, <1>2, <1>3, AfterAll
<1>5. PICK r \in All, y \in Seq(Byte) :
          /\ Append(Delivered, r) \in Seq(All)
          /\ Begins(Append(Delivered, r), script.sent)
          /\ Len(StreamBytes(Append(Delivered, r))) = Len(StreamBytes(Delivered)) + Len(y)
          /\ parsed = Parsed(r, Len(y)) /\ Len(y) \in 1 .. Len(buffer)
  BY <1>2, <1>3, <1>4, AfterSome
<1>6. parsed.data = r /\ parsed.num_bytes_parsed = Len(y)
  BY <1>5, ResultKinds
<1>7. PICK result \in Results(All) :
          result = Response(r) /\ result.kind = "response" /\ result.data = r
  BY ResultTypes
<1>8. results' = Append(results, result)
  BY <1>1, <1>6, <1>7
<1>9. results' \in Seq(Results(All))
  BY <1>2, <1>8, AppendProperties
<1>10. Delivered' = Append(Delivered, r)
  BY <1>2, <1>7, <1>8, ResponsesInAppend DEF Delivered
<1>11. PICK whole \in Seq(Byte), x \in Seq(Byte), coming \in Seq(Byte) :
           /\ whole = stream
           /\ x = StreamBytes(Delivered)
           /\ coming = BytesAfter(script, Delivered)
           /\ coming = From(whole, Len(x))
           /\ Len(coming) = Len(whole) - Len(x)
           /\ Len(whole) \in Nat /\ Len(x) \in 0 .. Len(whole)
           /\ Len(buffer) \in Nat
           /\ Begins(buffer, coming)
           /\ pos = Len(x) + Len(buffer)
  BY Coming
<1>12. PICK k \in Nat, h \in Nat :
           k = Len(y) /\ k <= Len(buffer) /\ h = Len(x) /\ Len(StreamBytes(Delivered')) = h + k
  <2>1. PICK k \in Nat : k = Len(y) /\ k <= Len(buffer)
    BY <1>5, <1>11
  <2>2. PICK h \in Nat : h = Len(x)
    BY <1>11
  <2>3. Len(StreamBytes(Append(Delivered, r))) = h + k
    BY <1>5, <1>11, <2>1, <2>2
  <2> QED BY <1>10, <2>1, <2>2, <2>3
<1>13. buffer' \in Seq(Byte) /\ Len(buffer') = Len(buffer) - k
  <2>1. k \in 0 .. Len(buffer)
    BY <1>11, <1>12
  <2>2. buffer' = From(buffer, k)
    BY <1>1, <1>6, <1>12
  <2> QED BY <1>2, <2>1, <2>2, FromProperties
<1>14. Begins(buffer', BytesAfter(script, Delivered'))
  <2>1. k \in 0 .. Len(buffer)
    BY <1>11, <1>12
  <2>2. Begins(From(buffer, k), From(coming, k))
    BY <1>2, <1>11, <2>1, BeginsFrom
  <2>3. h + k <= Len(whole)
    <3>1. Len(buffer) <= Len(coming)
      BY <1>11 DEF Begins
    <3> QED BY <1>11, <1>12, <3>1
  <2>4. From(From(whole, h), k) = From(whole, h + k)
    BY <2>3, FromFrom
  <2>5. BytesAfter(script, Delivered') = From(whole, h + k)
    BY <1>11, <1>12 DEF BytesAfter, IInv
  <2>6. buffer' = From(buffer, k)
    BY <1>1, <1>6, <1>12
  <2>7. coming = From(whole, h)
    BY <1>11, <1>12
  <2> QED BY <2>2, <2>4, <2>5, <2>6, <2>7
<1>15. pos' = Len(StreamBytes(Delivered')) + Len(buffer')
  BY <1>1, <1>11, <1>12, <1>13
<1>16. Waits'
  BY <1>1 DEF Waits
<1>17. Ends'
  <2> SUFFICES ASSUME NEW i \in DOMAIN results',
                      results'[i].kind \in {"end", "error", "panic", "overflow"}
               PROVE  \/ results'[i] = Failed("Io")
                      \/ poisoned /\ results'[i] = Failed("Poisoned")
    BY <1>1 DEF Ends
  <2>1. PICK m \in Nat : m = Len(results) /\ DOMAIN results = 1 .. m
    BY <1>2, LenProperties
  <2>2. /\ DOMAIN results' = 1 .. m + 1
        /\ results'[m + 1] = result
        /\ \A j \in 1 .. m : results'[j] = results[j]
    <3>1. Len(results') = m + 1
      BY <1>2, <1>8, <2>1, AppendProperties
    <3> QED BY <1>2, <1>8, <1>9, <2>1, <3>1, AppendProperties, LenProperties
  <2>3. i # m + 1
    <3> SUFFICES ASSUME i = m + 1 PROVE FALSE
      OBVIOUS
    <3>1. results'[i].kind = "response"
      BY <1>7, <2>2
    <3> QED BY <3>1
  <2>4. i \in DOMAIN results /\ results'[i] = results[i]
    BY <2>1, <2>2, <2>3
  <2>5. Len(Delivered) # Len(script.sent)
    <3>1. PICK sent \in Seq(All) : sent = script.sent
      BY <1>2, ScriptAssumption DEF All
    <3>2. Len(sent) \in Nat /\ Len(Delivered) \in Nat /\ Len(Delivered) < Len(sent)
      BY <1>2, <1>4, <3>1, LenProperties
    <3> QED BY <3>1, <3>2
  <2> QED BY <2>4, <2>5 DEF IInv, Ends
<1>18. /\ script' \in Scripts
       /\ stream' = StreamBytes(script'.sent) \o script'.tail
       /\ Begins(Delivered', script'.sent)
       /\ Begins(buffer', BytesAfter(script', Delivered'))
       /\ poisoned' \in BOOLEAN
       /\ pc' \in Pcs
  BY <1>1, <1>5, <1>10, <1>14 DEF IInv, Pcs
<1> QED BY <1>9, <1>13, <1>15, <1>16, <1>17, <1>18 DEF IInv

\* What is no response once the buffer can be parsed is the script's verdict.
LEMMA VerdictComes ==
    ASSUME MessagesAreLines, IInv, NEW parsed, parsed = ParseResponse(buffer),
           parsed # Incomplete, parsed.kind # "parsed"
    PROVE  /\ parsed = script.verdict /\ Len(Delivered) = Len(script.sent)
           /\ parsed \in Results(All) /\ parsed.kind # "response"
<1>1. /\ script \in Scripts
      /\ Delivered \in Seq(All) /\ Begins(Delivered, script.sent)
      /\ buffer \in Seq(Byte) /\ Begins(buffer, BytesAfter(script, Delivered))
  BY Taken DEF IInv
<1>2. ~(Len(Delivered) < Len(script.sent))
  <2> SUFFICES ASSUME Len(Delivered) < Len(script.sent) PROVE FALSE
    OBVIOUS
  <2>1. PICK r \in All, y \in Seq(Byte) : parsed = Parsed(r, Len(y))
    BY <1>1, AfterSome
  <2> QED BY <2>1, ResultKinds
<1>3. parsed = script.verdict /\ Len(Delivered) = Len(script.sent)
  BY <1>1, <1>2, AfterAll
<1>4. IsOutcome(parsed, Len(buffer))
  BY <1>1, WithTheStack
<1>5. \/ parsed \in {Incomplete, Panicked, Overflowed}
      \/ \E error \in Errors : parsed = Failed(error)
  BY <1>4, OutcomeCases
<1>6. parsed \in Results(All) /\ parsed.kind # "response"
  BY <1>5, ResultTypes
<1> QED BY <1>3, <1>6

\* DecodeNext keeps the invariant.
LEMMA DecodeKeeps ==
    ASSUME MessagesAreLines, IInv, DecodeNext
    PROVE  IInv'
<1>1. ~poisoned /\ poisoned \in BOOLEAN
  BY DEF DecodeNext, IInv
<1>2. PICK parsed : /\ parsed = ParseResponse(buffer)
                    /\ Deliver(parsed) \/ WaitForMore(parsed) \/ Refuse(parsed) \/ Panic(parsed)
  BY DEF DecodeNext
<1>3. CASE Deliver(parsed)
  BY <1>2, <1>3, DeliverKeeps
<1>4. CASE WaitForMore(parsed)
  <2>1. /\ parsed = Incomplete /\ pc' = "read"
        /\ UNCHANGED <<script, stream, pos, buffer, poisoned, results>>
    BY <1>4 DEF WaitForMore
  <2>2. Waits' /\ pc' \in Pcs
    BY <1>1, <1>2, <2>1 DEF Waits, Pcs
  <2> QED BY <2>1, <2>2, PcKeeps
<1>5. CASE Refuse(parsed)
  <2>1. /\ parsed.kind = "error" /\ pc' = "returned" /\ results' = Append(results, parsed)
        /\ poisoned' = TRUE /\ UNCHANGED <<script, stream, pos, buffer>>
    BY <1>5 DEF Refuse, Return
  <2>2. parsed # Incomplete /\ parsed.kind # "parsed"
    BY <2>1, ResultKinds
  <2>3. /\ parsed = script.verdict /\ Len(Delivered) = Len(script.sent)
        /\ parsed \in Results(All) /\ parsed.kind # "response"
    BY <1>2, <2>2, VerdictComes
  <2> QED BY <2>1, <2>3, ResultKeeps
<1>6. CASE Panic(parsed)
  <2>1. /\ parsed \in {Panicked, Overflowed} /\ pc' = "dead"
        /\ results' = Append(results, parsed)
        /\ UNCHANGED <<script, stream, pos, buffer, poisoned>>
    BY <1>6 DEF Panic
  <2>2. parsed # Incomplete /\ parsed.kind # "parsed"
    BY <2>1, ResultKinds
  <2>3. /\ parsed = script.verdict /\ Len(Delivered) = Len(script.sent)
        /\ parsed \in Results(All) /\ parsed.kind # "response"
    BY <1>2, <2>2, VerdictComes
  <2>4. poisoned' \in BOOLEAN /\ (poisoned => poisoned')
    BY <1>1, <2>1
  <2> QED BY <2>1, <2>3, <2>4, ResultKeeps
<1> QED BY <1>2, <1>3, <1>4, <1>5, <1>6

\* Read keeps it: the bytes read are the next of those still to come.
LEMMA ReadKeeps ==
    ASSUME IInv, NEW n \in 1 .. ReadChunkSize, Read(n)
    PROVE  IInv'
<1>1. /\ pos + n <= Len(stream)
      /\ buffer' = buffer \o SubSeq(stream, pos + 1, pos + n)
      /\ pos' = pos + n
      /\ pc' = "decode"
      /\ UNCHANGED <<script, stream, poisoned, results>>
      /\ n \in Nat
  BY DEF Read
<1>2. /\ script \in Scripts
      /\ Delivered \in Seq(All) /\ Begins(Delivered, script.sent)
      /\ buffer \in Seq(Byte) /\ Len(buffer) \in Nat
      /\ pos = Len(StreamBytes(Delivered)) + Len(buffer)
  BY Taken DEF IInv
<1>3. PICK whole \in Seq(Byte), x \in Seq(Byte), coming \in Seq(Byte) :
          /\ whole = stream
          /\ x = StreamBytes(Delivered)
          /\ coming = BytesAfter(script, Delivered)
          /\ coming = From(whole, Len(x))
          /\ Len(coming) = Len(whole) - Len(x)
          /\ Len(whole) \in Nat /\ Len(x) \in 0 .. Len(whole)
          /\ Begins(buffer, coming)
  BY Coming
<1>4. PICK p \in Nat, q \in Nat : p = pos /\ q = pos + n /\ p = Len(x) + Len(buffer)
  BY <1>1, <1>2, <1>3
<1>5. PICK d \in Seq(Byte) : /\ d = SubSeq(whole, p + 1, q)
                             /\ Len(d) = n
                             /\ \A i \in 1 .. n : d[i] = whole[p + i]
  <2>1. p <= q /\ q <= Len(whole) /\ q - p = n
    BY <1>1, <1>3, <1>4
  <2>2. /\ SubSeq(whole, p + 1, q) \in Seq(Byte)
        /\ Len(SubSeq(whole, p + 1, q)) = q - p
        /\ \A i \in 1 .. q - p : SubSeq(whole, p + 1, q)[i] = whole[p + i]
    BY <2>1, SliceProperties
  <2> QED BY <2>1, <2>2
<1>6. buffer' = buffer \o d
  BY <1>1, <1>3, <1>4, <1>5
<1>7. buffer' \in Seq(Byte) /\ Len(buffer') = Len(buffer) + n
  BY <1>2, <1>5, <1>6, ConcatProperties
<1>8. Begins(buffer', coming)
  <2>1. Len(buffer) + Len(d) <= Len(coming)
    BY <1>1, <1>2, <1>3, <1>4, <1>5
  <2>2. ASSUME NEW i \in 1 .. Len(d)
        PROVE  d[i] = coming[Len(buffer) + i]
    <3>1. Len(buffer) + i \in 1 .. Len(whole) - Len(x) /\ i \in 1 .. n
      BY <1>2, <1>3, <1>5, <2>1
    <3>2. coming[Len(buffer) + i] = whole[Len(x) + (Len(buffer) + i)]
      <4>1. PICK k \in 0 .. Len(whole) : k = Len(x)
        BY <1>3
      <4>2. /\ From(whole, k) \in Seq(Byte)
            /\ Len(From(whole, k)) = Len(whole) - k
            /\ \A j \in 1 .. Len(whole) - k : From(whole, k)[j] = whole[k + j]
        BY FromProperties, Zenon
      <4>3. coming = From(whole, k)
        BY <1>3, <4>1
      <4> QED BY <3>1, <4>1, <4>2, <4>3
    <3>3. Len(x) + (Len(buffer) + i) = p + i
      BY <1>2, <1>3, <1>4
    <3> QED BY <1>5, <3>1, <3>2, <3>3
  <2> QED BY <1>2, <1>3, <1>6, <2>1, <2>2, BeginsFurther
<1>9. Delivered' = Delivered
  BY <1>1 DEF Delivered
<1>10. Waits'
  BY <1>1 DEF Waits
<1>11. Ends'
  BY <1>1, <1>9 DEF IInv, Ends
<1>12. pos' = Len(StreamBytes(Delivered')) + Len(buffer')
  BY <1>1, <1>2, <1>3, <1>7, <1>9
<1>13. /\ script' \in Scripts
       /\ stream' = StreamBytes(script'.sent) \o script'.tail
       /\ results' \in Seq(Results(All))
       /\ Begins(Delivered', script'.sent)
       /\ Begins(buffer', BytesAfter(script', Delivered'))
       /\ poisoned' \in BOOLEAN /\ pc' \in Pcs
  BY <1>1, <1>3, <1>8, <1>9 DEF IInv, Pcs
<1> QED BY <1>7, <1>10, <1>11, <1>12, <1>13 DEF IInv

\* ReadEof keeps it: when all the bytes have been read, a reader that waits
\* has delivered every response, and what it says of the rest is the verdict.
LEMMA EofKeeps ==
    ASSUME MessagesAreLines, IInv, ReadEof
    PROVE  IInv'
<1>1. /\ pc = "read" /\ pos = Len(stream)
      /\ Return(IF buffer # <<>> THEN Failed("UnexpectedEof") ELSE EndOfInput)
      /\ UNCHANGED <<script, stream, pos, buffer, poisoned>>
  BY DEF ReadEof
<1>2. /\ script \in Scripts
      /\ Delivered \in Seq(All) /\ Begins(Delivered, script.sent)
      /\ buffer \in Seq(Byte) /\ Begins(buffer, BytesAfter(script, Delivered))
      /\ BytesAfter(script, Delivered) \in Seq(Byte)
      /\ ParseResponse(buffer) = Incomplete
      /\ poisoned \in BOOLEAN
  BY <1>1, Taken DEF IInv, Waits
<1>3. PICK coming \in Seq(Byte) :
          /\ coming = BytesAfter(script, Delivered)
          /\ Len(coming) <= Len(buffer)
          /\ Begins(buffer, coming)
  <2>1. PICK whole \in Seq(Byte), x \in Seq(Byte), coming \in Seq(Byte) :
            /\ whole = stream
            /\ coming = BytesAfter(script, Delivered)
            /\ Len(coming) = Len(whole) - Len(x)
            /\ Len(whole) \in Nat /\ Len(x) \in 0 .. Len(whole)
            /\ Len(buffer) \in Nat
            /\ Begins(buffer, coming)
            /\ pos = Len(x) + Len(buffer)
    BY Coming
  <2>2. Len(coming) <= Len(buffer)
    BY <1>1, <2>1
  <2> QED BY <2>1, <2>2
<1>4. buffer = coming
  BY <1>2, <1>3, BeginsEqual
<1>5. ~(Len(Delivered) < Len(script.sent))
  <2> SUFFICES ASSUME Len(Delivered) < Len(script.sent) PROVE FALSE
    OBVIOUS
  <2>1. PICK r \in All, y \in Seq(Byte) :
            /\ y = ResponseBytes(r)
            /\ Begins(y, BytesAfter(script, Delivered))
            /\ Len(y) <= Len(buffer) => ParseResponse(buffer) # Incomplete
    BY <1>2, AfterSome
  <2>2. Len(y) <= Len(buffer)
    BY <1>3, <1>4, <2>1 DEF Begins
  <2> QED BY <1>2, <2>1, <2>2
<1>6. /\ Len(Delivered) = Len(script.sent)
      /\ script.verdict = IF buffer = <<>> THEN EndOfInput ELSE Failed("UnexpectedEof")
  BY <1>2, <1>3, <1>4, <1>5, AfterAll
<1>7. PICK result \in Results(All) :
          /\ result = IF buffer # <<>> THEN Failed("UnexpectedEof") ELSE EndOfInput
          /\ result.kind # "response"
          /\ result = script.verdict
  <2>1. "UnexpectedEof" \in Errors
    BY DEF Errors
  <2>2. PICK result :
            /\ result = IF buffer # <<>> THEN Failed("UnexpectedEof") ELSE EndOfInput
            /\ result \in {Failed("UnexpectedEof"), EndOfInput}
    OBVIOUS
  <2>3. result \in Results(All) /\ result.kind # "response"
    BY <2>1, <2>2, ResultTypes
  <2>4. result = script.verdict
    BY <1>6, <2>2
  <2> QED BY <2>2, <2>3, <2>4
<1>8. results' = Append(results, result) /\ pc' \in {"returned", "dead"}
  BY <1>1, <1>7 DEF Return
<1>9. poisoned' \in BOOLEAN /\ (poisoned => poisoned')
  BY <1>1, <1>2
<1> QED BY <1>1, <1>6, <1>7, <1>8, <1>9, ResultKeeps

\* ReadFails keeps it.
LEMMA FailsKeeps ==
    ASSUME IInv, ReadFails
    PROVE  IInv'
<1>1. PICK result \in Results(All) :
          /\ result = Failed("Io") /\ result.kind # "response"
          /\ results' = Append(results, result) /\ pc' \in {"returned", "dead"}
  <2>1. "Io" \in Errors
    BY DEF Errors
  <2> QED BY <2>1, ResultTypes DEF ReadFails, Return
<1>2. UNCHANGED <<script, stream, pos, buffer, poisoned>>
  BY DEF ReadFails
<1>3. poisoned' \in BOOLEAN /\ (poisoned => poisoned')
  BY <1>2 DEF IInv
<1> QED BY <1>1, <1>2, <1>3, ResultKeeps

\* RefusePoisoned keeps it.
LEMMA RefuseKeeps ==
    ASSUME IInv, RefusePoisoned
    PROVE  IInv'
<1>1. PICK result \in Results(All) :
          /\ result = Failed("Poisoned") /\ result.kind # "response"
          /\ results' = Append(results, result) /\ pc' \in {"returned", "dead"}
  <2>1. "Poisoned" \in Errors
    BY DEF Errors
  <2> QED BY <2>1, ResultTypes DEF RefusePoisoned, Return
<1>2. poisoned /\ UNCHANGED <<script, stream, pos, buffer, poisoned>>
  BY DEF RefusePoisoned
<1>3. poisoned' \in BOOLEAN /\ (poisoned => poisoned') /\ poisoned'
  BY <1>2 DEF IInv
<1> QED BY <1>1, <1>2, <1>3, ResultKeeps

\* Every step keeps the invariant.
LEMMA NextInv ==
    ASSUME MessagesAreLines
    PROVE  IInv /\ [Next]_vars => IInv'
<1> SUFFICES ASSUME IInv, [Next]_vars PROVE IInv'
  OBVIOUS
<1>1. CASE DecodeNext
  BY <1>1, DecodeKeeps
<1>2. CASE RefusePoisoned
  BY <1>2, RefuseKeeps
<1>3. CASE \E n \in 1 .. ReadChunkSize : Read(n)
  BY <1>3, ReadKeeps
<1>4. CASE ReadEof
  BY <1>4, EofKeeps
<1>5. CASE ReadFails
  BY <1>5, FailsKeeps
<1>6. CASE Call
  <2>1. pc' \in Pcs /\ pc' # "read"
    BY <1>6 DEF Call, Pcs
  <2>2. UNCHANGED <<script, stream, pos, buffer, poisoned, results>>
    BY <1>6 DEF Call
  <2> QED BY <2>1, <2>2, PcKeeps
<1>7. CASE UNCHANGED vars
  <2>1. UNCHANGED <<script, stream, pos, buffer, poisoned, results>> /\ pc' = pc
    BY <1>7 DEF vars
  <2>2. Waits' /\ pc' \in Pcs
    BY <2>1 DEF IInv, Waits
  <2> QED BY <2>1, <2>2, PcKeeps
<1> QED BY <1>1, <1>2, <1>3, <1>4, <1>5, <1>6, <1>7 DEF Next

\* The inductive invariant holds wherever the errors are lines.
LEMMA Holds ==
    ASSUME MessagesAreLines
    PROVE  Spec => []IInv
<1>1. IInv /\ [Next]_vars => IInv'
  BY NextInv
<1> QED BY <1>1, InitInv, PTL DEF Spec

LEMMA BytesFollows == IInv => BytesKept
<1> SUFFICES ASSUME IInv PROVE BytesKept
  OBVIOUS
<1>1. PICK whole \in Seq(Byte), x \in Seq(Byte), coming \in Seq(Byte) :
          /\ whole = stream
          /\ x = StreamBytes(Delivered)
          /\ Begins(x, whole)
          /\ coming = From(whole, Len(x))
          /\ Len(coming) = Len(whole) - Len(x)
          /\ Len(whole) \in Nat /\ Len(x) \in 0 .. Len(whole)
          /\ buffer \in Seq(Byte) /\ Len(buffer) \in Nat
          /\ Begins(buffer, coming)
          /\ pos = Len(x) + Len(buffer)
  BY Coming
<1>2. Len(x) + Len(buffer) <= Len(whole)
  <2>1. Len(buffer) <= Len(coming)
    BY <1>1 DEF Begins
  <2> QED BY <1>1, <2>1
<1>3. Begins(x \o buffer, whole)
  <2>1. ASSUME NEW i \in 1 .. Len(buffer)
        PROVE  buffer[i] = whole[Len(x) + i]
    <3>1. i \in 1 .. Len(whole) - Len(x)
      BY <1>1, <1>2
    <3>2. coming[i] = whole[Len(x) + i]
      BY <1>1, <3>1, FromProperties
    <3>3. buffer[i] = coming[i]
      BY <1>1 DEF Begins
    <3> QED BY <3>2, <3>3
  <2> QED BY <1>1, <1>2, <2>1, BeginsFurther
<1>4. PICK w \in Seq(Byte) : w = x \o buffer /\ Len(w) = Len(x) + Len(buffer)
  BY <1>1, ConcatProperties
<1>5. SubSeq(whole, 1, Len(w)) = w
  BY <1>3, <1>4, BeginningIsSlice
<1>6. StreamBytes(Delivered) \o buffer = SubSeq(stream, 1, pos)
  BY <1>1, <1>4, <1>5
<1>7. pos \in 0 .. Len(stream)
  BY <1>1, <1>2
<1> QED BY <1>6, <1>7 DEF IInv, Pcs, BytesKept

LEMMA DecodesFollows == IInv => DecodesWhatWasSent
<1> SUFFICES ASSUME IInv PROVE DecodesWhatWasSent
  OBVIOUS
<1>1. PICK d \in Seq(All), sent \in Seq(All) :
          d = Delivered /\ sent = script.sent /\ Begins(d, sent)
  BY Taken, ScriptAssumption DEF IInv, All
<1>2. SubSeq(sent, 1, Len(d)) = d
  BY <1>1, BeginningIsSlice
<1>3. SubSeq(d, 1, Len(d)) = d
  BY BeginsSelf, BeginningIsSlice
<1>4. IsPrefix(Delivered, script.sent)
  BY <1>1, <1>2, <1>3 DEF IsPrefix, Begins
<1> QED BY <1>4 DEF IInv, Ends, DecodesWhatWasSent

LEMMA NoWaitFollows ==
    ASSUME MessagesAreLines
    PROVE  IInv => NoWaitOnWholeResponse
<1> SUFFICES ASSUME IInv, pc = "read", NEW i \in 1 .. Len(script.sent),
                    pos >= Len(StreamBytes(SubSeq(script.sent, 1, i))),
                    ~(Len(Delivered) >= i)
             PROVE  FALSE
  BY DEF NoWaitOnWholeResponse
<1>1. /\ script \in Scripts
      /\ Delivered \in Seq(All) /\ Begins(Delivered, script.sent)
      /\ buffer \in Seq(Byte) /\ Begins(buffer, BytesAfter(script, Delivered))
      /\ ParseResponse(buffer) = Incomplete
      /\ Len(Delivered) \in Nat /\ Len(buffer) \in Nat
      /\ Len(StreamBytes(Delivered)) \in Nat
      /\ pos = Len(StreamBytes(Delivered)) + Len(buffer)
  BY Taken DEF IInv, Waits
<1>2. PICK sent \in Seq(All) : sent = script.sent
  BY <1>1, ScriptAssumption DEF All
<1>3. Len(Delivered) < Len(sent) /\ Len(Delivered) + 1 <= i /\ i \in 0 .. Len(sent)
  BY <1>1, <1>2, LenProperties
<1>4. PICK r \in All, y \in Seq(Byte) :
          /\ Append(Delivered, r) \in Seq(All)
          /\ Begins(Append(Delivered, r), script.sent)
          /\ Len(StreamBytes(Append(Delivered, r))) = Len(StreamBytes(Delivered)) + Len(y)
          /\ Len(y) <= Len(buffer) => ParseResponse(buffer) # Incomplete
  BY <1>1, <1>2, <1>3, AfterSome
<1>5. PICK longer \in Seq(All), first \in Seq(All) :
          /\ longer = Append(Delivered, r)
          /\ first = SubSeq(sent, 1, i)
          /\ Len(longer) = Len(Delivered) + 1
          /\ Len(first) = i
          /\ Begins(longer, sent) /\ Begins(first, sent)
  <2>1. Len(Append(Delivered, r)) = Len(Delivered) + 1
    BY <1>1, AppendProperties
  <2>2. /\ SubSeq(sent, 1, i) \in Seq(All) /\ Len(SubSeq(sent, 1, i)) = i
        /\ Begins(SubSeq(sent, 1, i), sent)
    BY <1>3, SliceBegins
  <2> QED BY <1>2, <1>4, <2>1, <2>2
<1>6. Begins(longer, first)
  <2>1. Len(longer) <= Len(first)
    BY <1>3, <1>5
  <2> QED BY <1>5, <2>1, BeginsComparable
<1>7. Len(StreamBytes(longer)) <= Len(StreamBytes(first))
  <2>1. Begins(Written(longer, BytesUpTo[MaxDepth]), Written(first, BytesUpTo[MaxDepth]))
    BY <1>6, WithTheStack, WrittenGrows
  <2> QED BY <2>1 DEF StreamBytes, Begins
<1>8. StreamBytes(first) \in Seq(Byte)
  BY WithTheStack, WrittenType DEF StreamBytes
<1>9. Len(y) <= Len(buffer)
  <2>1. PICK k \in Nat, h \in Nat, f \in Nat :
            /\ k = Len(y) /\ h = Len(StreamBytes(Delivered)) /\ f = Len(StreamBytes(first))
    BY <1>1, <1>8, LenProperties
  <2>2. h + k <= f
    BY <1>4, <1>5, <1>7, <2>1
  <2>3. f <= h + Len(buffer)
    BY <1>1, <1>2, <1>5, <2>1
  <2> QED BY <1>1, <2>1, <2>2, <2>3
<1> QED BY <1>1, <1>4, <1>9

-----------------------------------------------------------------------------
(* The poison, whatever the server's errors say: a second, smaller inductive *)
(* invariant.  An error in the bytes that has been returned has poisoned the *)
(* decoder.                                                                  *)

\* What can be parsed.
Data == {ParseResponse(bytes).data : bytes \in Seq(Byte)}

InTheBytes(result) ==
    result.kind = "error" /\ result \notin {Failed("Io"), Failed("UnexpectedEof")}

Refused == \E i \in DOMAIN results : InTheBytes(results[i])

PInv ==
    /\ stream \in Seq(Byte)
    /\ pos \in Nat
    /\ buffer \in Seq(Byte)
    /\ results \in Seq(Results(Data))
    /\ poisoned \in BOOLEAN
    /\ Refused => poisoned

LEMMA PInit == Init => PInv
<1> SUFFICES ASSUME Init PROVE PInv
  OBVIOUS
<1>1. /\ script \in Scripts /\ stream = StreamBytes(script.sent) \o script.tail
      /\ pos = 0 /\ buffer = <<>> /\ poisoned = FALSE /\ results = <<>>
  BY DEF Init
<1>2. PICK sent \in Seq(All), tail \in Seq(Byte) : sent = script.sent /\ tail = script.tail
  BY <1>1, ScriptAssumption DEF All
<1>3. StreamBytes(sent) \in Seq(Byte)
  BY WithTheStack, WrittenType DEF StreamBytes
<1>4. stream \in Seq(Byte)
  BY <1>1, <1>2, <1>3, ConcatProperties
<1>5. ~Refused
  BY <1>1 DEF Refused
<1>6. pos \in Nat /\ buffer \in Seq(Byte) /\ results \in Seq(Results(Data)) /\ poisoned \in BOOLEAN
  <2>1. pos \in Nat /\ poisoned \in BOOLEAN
    BY <1>1
  <2>2. buffer \in Seq(Byte)
    BY <1>1
  <2>3. results \in Seq(Results(Data))
    BY <1>1
  <2> QED BY <2>1, <2>2, <2>3
<1>7. Refused => poisoned
  BY <1>5
<1> QED BY <1>4, <1>6, <1>7 DEF PInv

\* A result is returned.
LEMMA ReturnPoisons ==
    ASSUME PInv, NEW result \in Results(Data), results' = Append(results, result),
           UNCHANGED <<stream, pos>>, buffer' \in Seq(Byte),
           poisoned' \in BOOLEAN, poisoned => poisoned', InTheBytes(result) => poisoned'
    PROVE  PInv'
<1>1. results \in Seq(Results(Data))
  BY DEF PInv
<1>2. results' \in Seq(Results(Data))
  BY <1>1, AppendProperties
<1>3. Refused' => poisoned'
  <2> SUFFICES ASSUME NEW i \in DOMAIN results', InTheBytes(results'[i])
               PROVE  poisoned'
    BY DEF Refused, InTheBytes
  <2>1. PICK m \in Nat : m = Len(results) /\ DOMAIN results = 1 .. m
    BY <1>1, LenProperties
  <2>2. /\ DOMAIN results' = 1 .. m + 1
        /\ results'[m + 1] = result
        /\ \A j \in 1 .. m : results'[j] = results[j]
    <3>1. Len(results') = m + 1
      BY <1>1, <2>1, AppendProperties
    <3> QED BY <1>1, <1>2, <2>1, <3>1, AppendProperties, LenProperties
  <2>3. CASE i = m + 1
    BY <2>2, <2>3
  <2>4. CASE i # m + 1
    <3>1. i \in DOMAIN results /\ results'[i] = results[i]
      BY <2>1, <2>2, <2>4
    <3>2. Refused
      BY <3>1 DEF Refused
    <3> QED BY <3>2 DEF PInv
  <2> QED BY <2>3, <2>4
<1>4. stream' \in Seq(Byte) /\ pos' \in Nat
  BY DEF PInv
<1> QED BY <1>2, <1>3, <1>4 DEF PInv

\* What has not been returned by now poisons nothing.
LEMMA WorkPoisons ==
    ASSUME PInv, UNCHANGED <<stream, poisoned, results>>, pos' \in Nat, buffer' \in Seq(Byte)
    PROVE  PInv'
<1>1. Refused' = Refused
  BY DEF Refused
<1> QED BY <1>1 DEF PInv

LEMMA DecodePoisons ==
    ASSUME PInv, DecodeNext
    PROVE  PInv'
<1>1. buffer \in Seq(Byte) /\ poisoned \in BOOLEAN /\ pos \in Nat
  BY DEF PInv
<1>2. PICK parsed : /\ parsed = ParseResponse(buffer)
                    /\ Deliver(parsed) \/ WaitForMore(parsed) \/ Refuse(parsed) \/ Panic(parsed)
  BY DEF DecodeNext
<1>3. IsOutcome(parsed, Len(buffer))
  BY <1>1, <1>2, WithTheStack
<1>4. CASE Deliver(parsed)
  <2>1. /\ parsed.kind = "parsed"
        /\ buffer' = From(buffer, parsed.num_bytes_parsed)
        /\ results' = Append(results, Response(parsed.data))
        /\ UNCHANGED <<stream, pos, poisoned>>
    BY <1>4 DEF Deliver, Return
  <2>2. parsed.num_bytes_parsed \in 0 .. Len(buffer)
    <3>1. parsed.num_bytes_parsed \in 1 .. Len(buffer)
      BY <1>3, <2>1, OutcomeCases
    <3> QED BY <1>1, <3>1, LenProperties
  <2>3. buffer' \in Seq(Byte)
    BY <1>1, <2>1, <2>2, FromProperties
  <2>4. parsed.data \in Data
    BY <1>1, <1>2 DEF Data
  <2>5. PICK result \in Results(Data) :
            result = Response(parsed.data) /\ result.kind = "response"
    BY <2>4, ResultTypes
  <2>6. ~InTheBytes(result)
    BY <2>5 DEF InTheBytes
  <2> QED BY <1>1, <2>1, <2>3, <2>5, <2>6, ReturnPoisons
<1>5. CASE WaitForMore(parsed)
  BY <1>1, <1>5, WorkPoisons DEF WaitForMore
<1>6. CASE Refuse(parsed)
  <2>1. /\ parsed.kind = "error" /\ results' = Append(results, parsed)
        /\ poisoned' = TRUE /\ UNCHANGED <<stream, pos, buffer>>
    BY <1>6 DEF Refuse, Return
  <2>2. parsed.kind # "parsed" /\ parsed # Incomplete
    BY <2>1, ResultKinds
  <2>3. \/ parsed \in {Panicked, Overflowed}
        \/ \E error \in Errors : parsed = Failed(error)
    BY <1>3, <2>2, OutcomeCases
  <2>4. parsed \in Results(Data)
    BY <2>3, ResultTypes
  <2> QED BY <1>1, <2>1, <2>4, ReturnPoisons
<1>7. CASE Panic(parsed)
  <2>1. /\ parsed \in {Panicked, Overflowed}
        /\ results' = Append(results, parsed)
        /\ UNCHANGED <<stream, pos, buffer, poisoned>>
    BY <1>7 DEF Panic
  <2>2. parsed \in Results(Data)
    BY <2>1, ResultTypes
  <2>3. ~InTheBytes(parsed)
    BY <2>1, ResultKinds DEF InTheBytes
  <2> QED BY <1>1, <2>1, <2>2, <2>3, ReturnPoisons
<1> QED BY <1>2, <1>4, <1>5, <1>6, <1>7

LEMMA PNext == PInv /\ [Next]_vars => PInv'
<1> SUFFICES ASSUME PInv, [Next]_vars PROVE PInv'
  OBVIOUS
<1>1. /\ buffer \in Seq(Byte) /\ stream \in Seq(Byte) /\ pos \in Nat
      /\ poisoned \in BOOLEAN
  BY DEF PInv
<1>2. CASE DecodeNext
  BY <1>2, DecodePoisons
<1>3. CASE RefusePoisoned
  <2>1. "Poisoned" \in Errors
    BY DEF Errors
  <2>2. PICK result \in Results(Data) :
            result = Failed("Poisoned") /\ results' = Append(results, result)
    BY <1>3, <2>1, ResultTypes DEF RefusePoisoned, Return
  <2>3. poisoned /\ UNCHANGED <<stream, pos, buffer, poisoned>>
    BY <1>3 DEF RefusePoisoned
  <2> QED BY <1>1, <2>2, <2>3, ReturnPoisons
<1>4. CASE \E n \in 1 .. ReadChunkSize : Read(n)
  <2>1. PICK n \in 1 .. ReadChunkSize : Read(n)
    BY <1>4
  <2>2. /\ pos + n <= Len(stream)
        /\ buffer' = buffer \o SubSeq(stream, pos + 1, pos + n)
        /\ pos' = pos + n
        /\ UNCHANGED <<stream, poisoned, results>>
        /\ n \in Nat
    BY <2>1 DEF Read
  <2>3. PICK p \in Nat, q \in Nat : p = pos /\ q = pos + n /\ p <= q /\ q <= Len(stream)
    BY <1>1, <2>2
  <2>4. SubSeq(stream, p + 1, q) \in Seq(Byte)
    BY <1>1, <2>3, SliceProperties
  <2>5. buffer' = buffer \o SubSeq(stream, p + 1, q)
    BY <2>2, <2>3
  <2>6. buffer' \in Seq(Byte) /\ pos' \in Nat
    BY <1>1, <2>2, <2>3, <2>4, <2>5, ConcatProperties
  <2> QED BY <2>2, <2>6, WorkPoisons
<1>5. CASE ReadEof
  <2>1. "UnexpectedEof" \in Errors
    BY DEF Errors
  <2>2. PICK result :
            /\ result = IF buffer # <<>> THEN Failed("UnexpectedEof") ELSE EndOfInput
            /\ result \in {Failed("UnexpectedEof"), EndOfInput}
            /\ results' = Append(results, result)
    BY <1>5 DEF ReadEof, Return
  <2>3. result \in Results(Data)
    BY <2>1, <2>2, ResultTypes
  <2>4. ~InTheBytes(result)
    BY <2>2, ResultKinds DEF InTheBytes, EndOfInput
  <2>5. UNCHANGED <<stream, pos, buffer, poisoned>>
    BY <1>5 DEF ReadEof
  <2> QED BY <1>1, <2>2, <2>3, <2>4, <2>5, ReturnPoisons
<1>6. CASE ReadFails
  <2>1. "Io" \in Errors
    BY DEF Errors
  <2>2. PICK result \in Results(Data) :
            result = Failed("Io") /\ results' = Append(results, result)
    BY <1>6, <2>1, ResultTypes DEF ReadFails, Return
  <2>3. ~InTheBytes(result)
    BY <2>2 DEF InTheBytes
  <2>4. UNCHANGED <<stream, pos, buffer, poisoned>>
    BY <1>6 DEF ReadFails
  <2> QED BY <1>1, <2>2, <2>3, <2>4, ReturnPoisons
<1>7. CASE Call
  BY <1>1, <1>7, WorkPoisons DEF Call
<1>8. CASE UNCHANGED vars
  BY <1>1, <1>8, WorkPoisons DEF vars
<1> QED BY <1>2, <1>3, <1>4, <1>5, <1>6, <1>7, <1>8 DEF Next

\* A poisoned decoder delivers nothing.
LEMMA PoisonStep == PInv /\ [Next]_vars => [Refused => Delivered' = Delivered]_vars
<1> SUFFICES ASSUME PInv, Next, Refused PROVE Delivered' = Delivered
  OBVIOUS
<1>1. poisoned /\ results \in Seq(Results(Data))
  BY DEF PInv
<1>2. ASSUME NEW result \in Results(Data), result.kind # "response",
             results' = Append(results, result)
      PROVE  Delivered' = Delivered
  BY <1>1, <1>2, ResponsesInAppend DEF Delivered
<1>3. ASSUME NEW error \in Errors, results' = Append(results, Failed(error))
      PROVE  Delivered' = Delivered
  <2>1. Failed(error) \in Results(Data) /\ Failed(error).kind # "response"
    BY ResultTypes
  <2> QED BY <1>2, <1>3, <2>1
<1>4. CASE RefusePoisoned
  <2>1. "Poisoned" \in Errors
    BY DEF Errors
  <2> QED BY <1>3, <1>4, <2>1 DEF RefusePoisoned, Return
<1>5. CASE ReadFails
  <2>1. "Io" \in Errors
    BY DEF Errors
  <2> QED BY <1>3, <1>5, <2>1 DEF ReadFails, Return
<1>6. CASE ReadEof
  <2>1. "UnexpectedEof" \in Errors
    BY DEF Errors
  <2>2. CASE buffer # <<>>
    BY <1>3, <1>6, <2>1, <2>2 DEF ReadEof, Return
  <2>3. CASE buffer = <<>>
    <3>1. EndOfInput \in Results(Data) /\ EndOfInput.kind # "response"
      BY ResultTypes
    <3>2. results' = Append(results, EndOfInput)
      BY <1>6, <2>3 DEF ReadEof, Return
    <3> QED BY <1>2, <3>1, <3>2
  <2> QED BY <2>2, <2>3
<1>7. CASE (\E n \in 1 .. ReadChunkSize : Read(n)) \/ Call
  <2>1. results' = results
    BY <1>7 DEF Read, Call
  <2> QED BY <2>1 DEF Delivered
<1>8. ~DecodeNext
  BY <1>1 DEF DecodeNext
<1> QED BY <1>4, <1>5, <1>6, <1>7, <1>8 DEF Next

-----------------------------------------------------------------------------
(* Where the errors are lines, the reader neither loses nor repeats a byte,  *)
(* however the stream is cut: a response parsed in part has taken nothing    *)
(* (decode_next, read_next).                                                 *)
THEOREM KeepsTheBytes ==
    ASSUME MessagesAreLines
    PROVE  Spec => []BytesKept
<1> QED BY Holds, BytesFollows, PTL

(* Where the errors are lines, the responses come out as they were sent      *)
(* through any cut of the stream, arrays within arrays too, and the stream   *)
(* ends with the verdict on its tail: to_bytes and parse_response are        *)
(* inverses for every response within the limits.                            *)
THEOREM RoundTrip ==
    ASSUME MessagesAreLines
    PROVE  Spec => []DecodesWhatWasSent
<1> QED BY Holds, DecodesFollows, PTL

(* Where the errors are lines, nobody waits for input while a whole response *)
(* lies in the buffer (read_next).                                           *)
THEOREM NeverWaitsInVain ==
    ASSUME MessagesAreLines
    PROVE  Spec => []NoWaitOnWholeResponse
<1>1. IInv => NoWaitOnWholeResponse
  BY NoWaitFollows
<1> QED BY <1>1, Holds, PTL

(* Whatever the errors say: once the bytes held an error, no response comes  *)
(* out any more (the poisoned flag).                                         *)
THEOREM PoisonIsForGood == Spec => PoisonLasts
<1>1. PInv /\ [Next]_vars => [Refused => Delivered' = Delivered]_vars
  BY PoisonStep
<1>2. (\E i \in DOMAIN results :
           results[i].kind = "error"
               /\ results[i] \notin {Failed("Io"), Failed("UnexpectedEof")}) <=> Refused
  BY DEF Refused, InTheBytes
<1>3. PInv /\ [Next]_vars =>
          [(\E i \in DOMAIN results :
                results[i].kind = "error"
                    /\ results[i] \notin {Failed("Io"), Failed("UnexpectedEof")})
             => Delivered' = Delivered]_vars
  BY <1>1, <1>2
<1> QED BY <1>3, PInit, PNext, PTL DEF Spec, PoisonLasts
=============================================================================
