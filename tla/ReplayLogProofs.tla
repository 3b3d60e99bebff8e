--------------------------- MODULE ReplayLogProofs ---------------------------
(***************************************************************************)
(* A log is replayed as what was acknowledged, and one that ends in a torn *)
(* record is refused: for every set of commands, whatever their arguments, *)
(* every limit and every size of the reads.                                *)
(*                                                                         *)
(* First, command by command, that try_from takes back what to_request     *)
(* made; then that a log, with a torn record at its end or without, is a   *)
(* script; then, on the proofs of RequestDecoder, one step per action.     *)
(***************************************************************************)
EXTENDS ReplayLog, RequestDecoderProofs

-----------------------------------------------------------------------------
(* Commands and their requests.                                              *)

LEMMA NameThenArguments ==
    ASSUME NEW T, NEW name, NEW rest \in Seq(T)
    PROVE  /\ <<name>> \o rest # <<>>
           /\ Head(<<name>> \o rest) = name
           /\ Tail(<<name>> \o rest) = rest
<1> DEFINE U == T \cup {name}
<1>1. <<name>> \in Seq(U) /\ Len(<<name>>) = 1 /\ <<name>>[1] = name
  OBVIOUS
<1>2. rest \in Seq(U)
  <2>1. T \subseteq U
    OBVIOUS
  <2> QED BY <2>1, SeqMonotonic
<1> HIDE DEF U
<1>3. PICK n \in Nat : n = Len(rest)
  BY LenProperties
<1>4. PICK first \in Seq(U) : first = <<name>> /\ Len(first) = 1 /\ first[1] = name
  BY <1>1
<1>5. PICK w \in Seq(U) :
          /\ w = first \o rest
          /\ Len(w) = n + 1
          /\ w[1] = name
          /\ \A i \in 1 .. n : w[i + 1] = rest[i]
  <2>1. PICK w \in Seq(U) :
            /\ w = first \o rest
            /\ Len(w) = Len(first) + Len(rest)
            /\ \A i \in 1 .. Len(first) + Len(rest) :
                   w[i] = IF i <= Len(first) THEN first[i] ELSE rest[i - Len(first)]
    <3>1. /\ first \o rest \in Seq(U)
          /\ Len(first \o rest) = Len(first) + Len(rest)
          /\ \A i \in 1 .. Len(first) + Len(rest) :
                 (first \o rest)[i] =
                     IF i <= Len(first) THEN first[i] ELSE rest[i - Len(first)]
      BY <1>2, ConcatProperties, Zenon
    <3> QED BY <3>1
  <2>2. Len(w) = n + 1 /\ w[1] = name
    BY <1>3, <1>4, <2>1
  <2>3. ASSUME NEW i \in 1 .. n
        PROVE  w[i + 1] = rest[i]
    <3>1. i + 1 \in 1 .. Len(first) + Len(rest) /\ ~(i + 1 <= Len(first))
      BY <1>3, <1>4
    <3>2. (i + 1) - Len(first) = i
      BY <1>4
    <3> QED BY <2>1, <3>1, <3>2
  <2> QED BY <2>1, <2>2, <2>3
<1>6. w # <<>>
  <2>1. Len(<<>>) = 0
    OBVIOUS
  <2> QED BY <1>5, <2>1
<1>7. Head(w) = name
  BY <1>5, <1>6
<1>8. PICK t \in Seq(U) :
          t = Tail(w) /\ Len(t) = n /\ \A i \in 1 .. n : t[i] = w[i + 1]
  <2>1. PICK t \in Seq(U) :
            t = Tail(w) /\ Len(t) = Len(w) - 1 /\ \A i \in 1 .. Len(t) : t[i] = w[i + 1]
    BY <1>6, HeadTailProperties
  <2>2. Len(t) = n
    BY <1>5, <2>1
  <2> QED BY <2>1, <2>2
<1>9. t = rest
  BY <1>2, <1>3, <1>5, <1>8, SeqEqual
<1> QED BY <1>4, <1>5, <1>6, <1>7, <1>8, <1>9

(* The name of a request chooses its parser. *)
LEMMA ParserOfName ==
    ASSUME NEW T, NEW name \in CommandNames, NEW rest \in Seq(T), NEW now
    PROVE  LET parsed == TryFrom(<<name>> \o rest, now)
           IN  /\ name = "GET"      => parsed = ParseGet(rest)
               /\ name = "SET"      => parsed = ParseSet(rest)
               /\ name = "MGET"     => parsed = ParseMGet(rest)
               /\ name = "MSET"     => parsed = ParseMSet(rest)
               /\ name = "DEL"      => parsed = ParseDel(rest)
               /\ name = "GETALL"   => parsed = ParseGetAll(rest)
               /\ name = "EXPIREAT" => parsed = ParseExpireAt(rest)
               /\ name = "TTL"      => parsed = ParseTtl(rest)
<1>1. PICK request : request = <<name>> \o rest
  OBVIOUS
<1>2. request # <<>> /\ Head(request) = name /\ Tail(request) = rest
  BY <1>1, NameThenArguments
<1>3. name \notin NotUtf8
  BY NameAssumption
<1>4. TryFrom(request, now) =
          CASE name = "GET"      -> ParseGet(rest)
            [] name = "SET"      -> ParseSet(rest)
            [] name = "MGET"     -> ParseMGet(rest)
            [] name = "MSET"     -> ParseMSet(rest)
            [] name = "DEL"      -> ParseDel(rest)
            [] name = "GETALL"   -> ParseGetAll(rest)
            [] name = "EXPIRE"   -> ParseExpire(rest, now)
            [] name = "EXPIREAT" -> ParseExpireAt(rest)
            [] name = "TTL"      -> ParseTtl(rest)
            [] OTHER             -> CommandError("UnrecognizedCommand")
  BY <1>2, <1>3 DEF TryFrom
<1> QED BY <1>1, <1>4

\* The arguments of MSET, pair by pair.
LaysOut(seq, entries) ==
    /\ Len(seq) = 2 * Len(entries)
    /\ \A i \in 1 .. Len(entries) :
           seq[2 * i - 1] = entries[i][1] /\ seq[2 * i] = entries[i][2]

LEMMA FlattenPairs ==
    ASSUME NEW T, NEW entries \in Seq(T \X T)
    PROVE  FlattenSeq(entries) \in Seq(T) /\ LaysOut(FlattenSeq(entries), entries)
<1> DEFINE P == {e \in Seq(T \X T) :
                     FlattenSeq(e) \in Seq(T) /\ LaysOut(FlattenSeq(e), e)}
<1>1. <<>> \in P /\ Begins(<<>>, entries)
  <2>1. <<>> \in Seq(T) /\ <<>> \in Seq(T \X T) /\ Len(<<>>) = 0
    OBVIOUS
  <2>2. LaysOut(<<>>, <<>>)
    BY <2>1 DEF LaysOut
  <2> QED BY <2>1, <2>2, FlattenEmpty, BeginsEmpty
<1>2. ASSUME NEW e \in Seq(T \X T), e \in P, Begins(e, entries), Len(e) < Len(entries)
      PROVE  Append(e, entries[Len(e) + 1]) \in P
  <2>1. PICK pair \in T \X T : pair = entries[Len(e) + 1]
    BY <1>2, BeginsAppend
  <2>2. PICK x \in Seq(T) : x = pair /\ Len(x) = 2
    <3>1. pair = <<pair[1], pair[2]>> /\ pair[1] \in T /\ pair[2] \in T
      OBVIOUS
    <3>2. PICK a \in T, b \in T : pair = <<a, b>>
      BY <3>1
    <3>3. <<a, b>> \in Seq(T) /\ Len(<<a, b>>) = 2
      OBVIOUS
    <3> QED BY <3>2, <3>3
  <2>3. PICK n \in Nat : n = Len(e)
    BY LenProperties
  <2>4. PICK s \in Seq(T) : s = FlattenSeq(e) /\ LaysOut(s, e)
    BY <1>2
  <2>5. Len(s) = 2 * n
    BY <2>3, <2>4 DEF LaysOut
  <2>6. PICK longer \in Seq(T \X T) :
            /\ longer = Append(e, pair)
            /\ Len(longer) = n + 1
            /\ longer[n + 1] = pair
            /\ \A i \in 1 .. n : longer[i] = e[i]
    <3>1. /\ Append(e, pair) \in Seq(T \X T)
          /\ Len(Append(e, pair)) = Len(e) + 1
          /\ \A i \in 1 .. Len(e) : Append(e, pair)[i] = e[i]
          /\ Append(e, pair)[Len(e) + 1] = pair
      BY AppendProperties
    <3> QED BY <2>3, <3>1
  <2>7. FlattenSeq(longer) = s \o x
    <3>1. e \in Seq(Seq(T))
      <4>1. ASSUME NEW p \in T \X T
            PROVE  p \in Seq(T)
        <5>1. PICK a \in T, b \in T : p = <<a, b>>
          OBVIOUS
        <5> QED BY <5>1
      <4>2. T \X T \subseteq Seq(T)
        BY <4>1
      <4> QED BY <4>2, SeqMonotonic
    <3>2. FlattenSeq(Append(e, x)) = FlattenSeq(e) \o x
      BY <3>1, FlattenAppend
    <3> QED BY <2>2, <2>4, <2>6, <3>2
  <2>8. PICK w \in Seq(T) :
            /\ w = s \o x
            /\ Len(w) = 2 * n + 2
            /\ \A i \in 1 .. 2 * n : w[i] = s[i]
            /\ w[2 * n + 1] = x[1]
            /\ w[2 * n + 2] = x[2]
    <3>1. PICK m \in Nat : m = 2 * n /\ m = Len(s)
      BY <2>5
    <3>2. /\ s \o x \in Seq(T)
          /\ Len(s \o x) = Len(s) + Len(x)
          /\ \A i \in 1 .. Len(s) + Len(x) :
                 (s \o x)[i] = IF i <= Len(s) THEN s[i] ELSE x[i - Len(s)]
      BY ConcatProperties, Zenon
    <3>3. Len(s \o x) = m + 2
      BY <2>2, <3>1, <3>2
    <3>4. \A i \in 1 .. m : (s \o x)[i] = s[i]
      BY <2>2, <3>1, <3>2
    <3>5. (s \o x)[m + 1] = x[1]
      <4>1. m + 1 \in 1 .. Len(s) + Len(x) /\ ~(m + 1 <= Len(s)) /\ (m + 1) - Len(s) = 1
        BY <2>2, <3>1
      <4> QED BY <3>2, <4>1
    <3>6. (s \o x)[m + 2] = x[2]
      <4>1. m + 2 \in 1 .. Len(s) + Len(x) /\ ~(m + 2 <= Len(s)) /\ (m + 2) - Len(s) = 2
        BY <2>2, <3>1
      <4> QED BY <3>2, <4>1
    <3> QED BY <3>1, <3>2, <3>3, <3>4, <3>5, <3>6
  <2>9. ASSUME NEW i \in 1 .. n + 1
        PROVE  w[2 * i - 1] = longer[i][1] /\ w[2 * i] = longer[i][2]
    <3>1. CASE i = n + 1
      <4>1. 2 * i - 1 = 2 * n + 1 /\ 2 * i = 2 * n + 2
        BY <3>1
      <4> QED BY <2>2, <2>6, <2>8, <3>1, <4>1
    <3>2. CASE i # n + 1
      <4>1. i \in 1 .. n /\ 2 * i - 1 \in 1 .. 2 * n /\ 2 * i \in 1 .. 2 * n
        BY <3>2
      <4>2. s[2 * i - 1] = e[i][1] /\ s[2 * i] = e[i][2]
        BY <2>3, <2>4, <4>1 DEF LaysOut
      <4> QED BY <2>6, <2>8, <4>1, <4>2
    <3> QED BY <3>1, <3>2
  <2>10. LaysOut(w, longer)
    <3>1. Len(w) = 2 * (n + 1)
      BY <2>8
    <3> QED BY <2>6, <2>9, <3>1 DEF LaysOut
  <2> QED BY <2>1, <2>6, <2>7, <2>8, <2>10
<1> HIDE DEF P
<1>3. entries \in P
  <2>1. <<>> \in Seq(T \X T)
    OBVIOUS
  <2> QED BY <1>1, <1>2, <2>1, BeginningGrows
<1> QED BY <1>3 DEF P

(* MSET's pairs come out of its arguments as they went in. *)
LEMMA PairsComeBack ==
    ASSUME NEW T, NEW entries \in Seq(T \X T), entries # <<>>
    PROVE  ParseMSet(FlattenSeq(entries)) = [op |-> "MSET", entries |-> entries]
<1>1. PICK n \in Nat : n = Len(entries) /\ n > 0
  BY LenProperties, EmptySeq
<1>2. PICK s \in Seq(T) :
          /\ s = FlattenSeq(entries)
          /\ Len(s) = 2 * n
          /\ \A i \in 1 .. n : s[2 * i - 1] = entries[i][1] /\ s[2 * i] = entries[i][2]
  <2>1. FlattenSeq(entries) \in Seq(T) /\ LaysOut(FlattenSeq(entries), entries)
    BY FlattenPairs
  <2> QED BY <1>1, <2>1 DEF LaysOut
<1>3. Len(s) % 2 = 0 /\ Len(s) \div 2 = n /\ ~(Len(s) < 2)
  BY <1>1, <1>2
<1>4. Pairs(s) = entries
  <2>1. \A i \in 1 .. n : /\ entries[i] \in T \X T
                          /\ entries[i] = <<s[2 * i - 1], s[2 * i]>>
    <3>1. ASSUME NEW i \in 1 .. n
          PROVE  entries[i] \in T \X T
      BY <1>1, ElementOfSeq
    <3> QED BY <1>2, <3>1
  <2>2. Pairs(s) = [i \in 1 .. n |-> <<s[2 * i - 1], s[2 * i]>>]
    BY <1>3 DEF Pairs
  <2>3. Pairs(s) \in Seq(T \X T) /\ Len(Pairs(s)) = n
    <3>1. [i \in 1 .. n |-> <<s[2 * i - 1], s[2 * i]>>] \in [1 .. n -> T \X T]
      BY <2>1
    <3> QED BY <2>2, <3>1
  <2>4. \A i \in 1 .. n : Pairs(s)[i] = entries[i]
    BY <2>1, <2>2
  <2> QED BY <1>1, <2>3, <2>4, SeqEqual
<1> QED BY <1>2, <1>3, <1>4 DEF ParseMSet, AtLeast

(* try_from takes back what to_request made of a command, at any time. *)
THEOREM CommandComesBack ==
    ASSUME NEW cmd, IsSpelled(cmd), NEW now
    PROVE  TryFrom(ToRequest(cmd), now) = cmd
<1> DEFINE T == Keys \cup Values \cup DOMAIN NumberOf
<1>1. cmd \in Commands
  BY DEF IsSpelled
<1>2. CASE cmd \in [op : {"SET"}, key : Keys, value : Values]
  <2>1. PICK k \in Keys, v \in Values : cmd = [op |-> "SET", key |-> k, value |-> v]
    BY <1>2
  <2>2. <<k, v>> \in Seq(T) /\ Len(<<k, v>>) = 2 /\ <<k, v>>[1] = k /\ <<k, v>>[2] = v
    OBVIOUS
  <2>3. ToRequest(cmd) = <<"SET">> \o <<k, v>>
    BY <2>1 DEF ToRequest
  <2>4. "SET" \in CommandNames
    BY DEF CommandNames
  <2>5. TryFrom(ToRequest(cmd), now) = ParseSet(<<k, v>>)
    BY <2>2, <2>3, <2>4, ParserOfName
  <2> QED BY <2>1, <2>2, <2>5 DEF ParseSet, Exactly, AtLeast
<1>3. CASE cmd \in [op : {"MSET"}, entries : EntryLists]
  <2>1. PICK entries \in EntryLists : cmd = [op |-> "MSET", entries |-> entries]
    BY <1>3
  <2>2. entries \in Seq(T \X T) /\ entries # <<>>
    <3>1. entries \in Seq(Keys \X Values)
      BY ArgumentAssumption
    <3>2. Keys \X Values \subseteq T \X T
      OBVIOUS
    <3>3. cmd.op = "MSET" /\ cmd.entries = entries
      BY <2>1
    <3>4. entries # <<>>
      BY <3>3 DEF IsSpelled
    <3> QED BY <3>1, <3>2, <3>4, SeqMonotonic
  <2> HIDE DEF T
  <2>3. PICK seq \in Seq(T) : seq = FlattenSeq(entries)
    BY <2>2, FlattenPairs
  <2>4. ToRequest(cmd) = <<"MSET">> \o seq
    BY <2>1, <2>3 DEF ToRequest
  <2>5. "MSET" \in CommandNames
    BY DEF CommandNames
  <2>6. TryFrom(ToRequest(cmd), now) = ParseMSet(seq)
    BY <2>4, <2>5, ParserOfName
  <2> QED BY <2>1, <2>2, <2>3, <2>6, PairsComeBack
<1>4. CASE cmd \in [op : {"DEL"}, keys : KeyLists]
  <2>1. PICK keys \in KeyLists : cmd = [op |-> "DEL", keys |-> keys]
    BY <1>4
  <2>2. keys \in Seq(Keys) /\ keys # <<>>
    <3>1. cmd.op = "DEL" /\ cmd.keys = keys
      BY <2>1
    <3> QED BY <3>1, ArgumentAssumption DEF IsSpelled
  <2>3. ToRequest(cmd) = <<"DEL">> \o keys
    BY <2>1 DEF ToRequest
  <2>4. "DEL" \in CommandNames
    BY DEF CommandNames
  <2>5. TryFrom(ToRequest(cmd), now) = ParseDel(keys)
    BY <2>2, <2>3, <2>4, ParserOfName
  <2>6. ~(Len(keys) < 1)
    BY <2>2, LenProperties, EmptySeq
  <2> QED BY <2>1, <2>5, <2>6 DEF ParseDel, AtLeast
<1>5. CASE cmd \in [op : {"EXPIREAT"}, key : Keys, at : Timestamps]
  <2>1. PICK k \in Keys, n \in Timestamps : cmd = [op |-> "EXPIREAT", key |-> k, at |-> n]
    BY <1>5
  <2>2. PICK text \in DOMAIN NumberOf : text = TextOf(n) /\ NumberOf[text] = n
    <3>1. cmd.op = "EXPIREAT" /\ cmd.at = n
      BY <2>1
    <3>2. \E text \in DOMAIN NumberOf : NumberOf[text] = n
      BY <3>1 DEF IsSpelled
    <3> QED BY <3>2 DEF TextOf
  <2>3. /\ <<k, text>> \in Seq(T) /\ Len(<<k, text>>) = 2
        /\ <<k, text>>[1] = k /\ <<k, text>>[2] = text
    OBVIOUS
  <2>4. ToRequest(cmd) = <<"EXPIREAT">> \o <<k, text>>
    BY <2>1, <2>2 DEF ToRequest
  <2>5. "EXPIREAT" \in CommandNames
    BY DEF CommandNames
  <2>6. TryFrom(ToRequest(cmd), now) = ParseExpireAt(<<k, text>>)
    BY <2>3, <2>4, <2>5, ParserOfName
  <2>7. text \notin NotUtf8
    BY NumberAssumption
  <2> QED BY <2>1, <2>2, <2>3, <2>6, <2>7
          DEF ParseExpireAt, ParseExpiration, ExpireAt, Exactly, AtLeast
<1>6. CASE cmd \in [op : {"GET", "TTL"}, key : Keys]
  <2>1. PICK name \in {"GET", "TTL"}, k \in Keys : cmd = [op |-> name, key |-> k]
    BY <1>6
  <2>2. <<k>> \in Seq(T) /\ Len(<<k>>) = 1 /\ <<k>>[1] = k
    OBVIOUS
  <2>3. ToRequest(cmd) = <<name>> \o <<k>>
    BY <2>1 DEF ToRequest
  <2>4. name \in CommandNames
    BY DEF CommandNames
  <2>5. /\ name = "GET" => TryFrom(ToRequest(cmd), now) = ParseGet(<<k>>)
        /\ name = "TTL" => TryFrom(ToRequest(cmd), now) = ParseTtl(<<k>>)
    <3>1. /\ name = "GET" => TryFrom(<<name>> \o <<k>>, now) = ParseGet(<<k>>)
          /\ name = "TTL" => TryFrom(<<name>> \o <<k>>, now) = ParseTtl(<<k>>)
      BY <2>2, <2>4, ParserOfName, Zenon
    <3> QED BY <2>3, <3>1, Zenon
  <2> QED BY <2>1, <2>2, <2>5 DEF ParseGet, ParseTtl, Exactly, AtLeast
<1>7. CASE cmd \in [op : {"MGET"}, keys : KeyLists]
  <2>1. PICK keys \in KeyLists : cmd = [op |-> "MGET", keys |-> keys]
    BY <1>7
  <2>2. keys \in Seq(Keys) /\ keys # <<>>
    <3>1. cmd.op = "MGET" /\ cmd.keys = keys
      BY <2>1
    <3> QED BY <3>1, ArgumentAssumption DEF IsSpelled
  <2>3. ToRequest(cmd) = <<"MGET">> \o keys
    BY <2>1 DEF ToRequest
  <2>4. "MGET" \in CommandNames
    BY DEF CommandNames
  <2>5. TryFrom(ToRequest(cmd), now) = ParseMGet(keys)
    BY <2>2, <2>3, <2>4, ParserOfName
  <2>6. ~(Len(keys) < 1)
    BY <2>2, LenProperties, EmptySeq
  <2> QED BY <2>1, <2>5, <2>6 DEF ParseMGet, AtLeast
<1>8. CASE cmd \in [op : {"GETALL"}]
  <2>1. cmd = [op |-> "GETALL"]
    BY <1>8
  <2>2. <<>> \in Seq(T) /\ Len(<<>>) = 0
    OBVIOUS
  <2>3. ToRequest(cmd) = <<"GETALL">> \o <<>>
    BY <2>1 DEF ToRequest
  <2>4. "GETALL" \in CommandNames
    BY DEF CommandNames
  <2>5. TryFrom(ToRequest(cmd), now) = ParseGetAll(<<>>)
    BY <2>2, <2>3, <2>4, ParserOfName
  <2> QED BY <2>1, <2>2, <2>5 DEF ParseGetAll, Exactly, AtLeast
<1> QED BY <1>1, <1>2, <1>3, <1>4, <1>5, <1>6, <1>7, <1>8
        DEF Commands, WriteCommands, ReadCommands

-----------------------------------------------------------------------------
(* Logged commands and the script of a log.                                  *)

\* The bytes of an argument tell which it is.
LEMMA ArgumentComesBack ==
    ASSUME NEW text \in DOMAIN BytesOf
    PROVE  ArgumentOf(BytesOf[text]) = text
<1>1. \A s, t \in DOMAIN BytesOf : BytesOf[s] = BytesOf[t] => s = t
  BY LogAssumption
<1>2. PICK bytes : bytes = BytesOf[text]
  OBVIOUS
<1>3. PICK found \in DOMAIN BytesOf :
          found = ArgumentOf(bytes) /\ BytesOf[found] = bytes
  <2>1. \E t \in DOMAIN BytesOf : BytesOf[t] = bytes
    BY <1>2
  <2> QED BY <2>1 DEF ArgumentOf
<1> QED BY <1>1, <1>2, <1>3

(* What is logged comes back from the bytes of its arguments. *)
LEMMA LoggedComesBack ==
    ASSUME NEW cmd \in Logged
    PROVE  /\ IsWriteOp(cmd)
           /\ Cstrs(cmd) \in Requests
           /\ FromCstrs(Cstrs(cmd)) = cmd
<1>1. /\ IsWriteOp(cmd) /\ IsSpelled(cmd)
      /\ ToRequest(cmd) \in Seq(DOMAIN BytesOf)
      /\ Cstrs(cmd) \in Requests
  BY LogAssumption
<1>2. PICK request \in Seq(DOMAIN BytesOf), n \in Nat :
          request = ToRequest(cmd) /\ Len(request) = n /\ DOMAIN request = 1 .. n
  BY <1>1, LenProperties
<1>3. PICK c : /\ c = Cstrs(cmd)
               /\ c = [i \in 1 .. n |-> BytesOf[request[i]]]
  BY <1>2 DEF Cstrs
<1>4. PICK r : r = [i \in DOMAIN c |-> ArgumentOf(c[i])]
  OBVIOUS
<1>5. \A i \in 1 .. n : request[i] \in DOMAIN BytesOf /\ ArgumentOf(c[i]) = request[i]
  <2>1. \A i \in 1 .. n : request[i] \in DOMAIN BytesOf
    BY <1>2, ElementOfSeq
  <2> QED BY <1>3, <2>1, ArgumentComesBack
<1>6. r = request
  <2>1. r = [i \in 1 .. n |-> ArgumentOf(c[i])]
    BY <1>3, <1>4
  <2>2. r \in [1 .. n -> DOMAIN BytesOf]
    BY <1>5, <2>1
  <2>3. r \in Seq(DOMAIN BytesOf) /\ Len(r) = n /\ \A i \in 1 .. n : r[i] = request[i]
    BY <1>5, <2>1, <2>2
  <2> QED BY <1>2, <2>3, SeqEqual
<1>7. FromCstrs(c) = TryFrom(ToRequest(cmd), Now)
  BY <1>2, <1>4, <1>6 DEF FromCstrs
<1> QED BY <1>1, <1>3, <1>7, CommandComesBack

\* The requests of a log.
Sent(cmds) == [i \in DOMAIN cmds |-> Cstrs(cmds[i])]

LEMMA SentType ==
    ASSUME NEW cmds \in Seq(Logged)
    PROVE  /\ Sent(cmds) \in Seq(Requests)
           /\ Len(Sent(cmds)) = Len(cmds)
           /\ \A i \in 1 .. Len(cmds) : Sent(cmds)[i] = Cstrs(cmds[i])
<1>1. PICK n \in Nat : n = Len(cmds) /\ DOMAIN cmds = 1 .. n
  BY LenProperties
<1>2. \A i \in 1 .. n : Cstrs(cmds[i]) \in Requests
  <2>1. \A i \in 1 .. n : cmds[i] \in Logged
    BY <1>1, ElementOfSeq
  <2> QED BY <2>1, LoggedComesBack
<1>3. Sent(cmds) = [i \in 1 .. n |-> Cstrs(cmds[i])]
  BY <1>1 DEF Sent
<1>4. Sent(cmds) \in [1 .. n -> Requests]
  BY <1>2, <1>3
<1> QED BY <1>1, <1>3, <1>4

LEMMA SentAppend ==
    ASSUME NEW cmds \in Seq(Logged), NEW cmd \in Logged
    PROVE  /\ Append(cmds, cmd) \in Seq(Logged)
           /\ Sent(Append(cmds, cmd)) = Append(Sent(cmds), Cstrs(cmd))
<1>1. PICK n \in Nat : n = Len(cmds)
  BY LenProperties
<1>2. PICK longer \in Seq(Logged) :
          /\ longer = Append(cmds, cmd)
          /\ Len(longer) = n + 1
          /\ longer[n + 1] = cmd
          /\ \A i \in 1 .. n : longer[i] = cmds[i]
  <2>1. /\ Append(cmds, cmd) \in Seq(Logged)
        /\ Len(Append(cmds, cmd)) = Len(cmds) + 1
        /\ \A i \in 1 .. Len(cmds) : Append(cmds, cmd)[i] = cmds[i]
        /\ Append(cmds, cmd)[Len(cmds) + 1] = cmd
    BY AppendProperties
  <2> QED BY <1>1, <2>1
<1>3. PICK c \in Requests : c = Cstrs(cmd)
  BY LoggedComesBack
<1>4. PICK s \in Seq(Requests) :
          s = Sent(cmds) /\ Len(s) = n /\ \A i \in 1 .. n : s[i] = Cstrs(cmds[i])
  BY <1>1, SentType
<1>5. PICK t \in Seq(Requests) :
          /\ t = Sent(longer) /\ Len(t) = n + 1
          /\ \A i \in 1 .. n + 1 : t[i] = Cstrs(longer[i])
  BY <1>2, SentType
<1>6. PICK u \in Seq(Requests) :
          /\ u = Append(s, c)
          /\ Len(u) = n + 1
          /\ u[n + 1] = c
          /\ \A i \in 1 .. n : u[i] = s[i]
  <2>1. /\ Append(s, c) \in Seq(Requests)
        /\ Len(Append(s, c)) = Len(s) + 1
        /\ \A i \in 1 .. Len(s) : Append(s, c)[i] = s[i]
        /\ Append(s, c)[Len(s) + 1] = c
    BY AppendProperties
  <2> QED BY <1>4, <2>1
<1>7. ASSUME NEW i \in 1 .. n + 1
      PROVE  t[i] = u[i]
  <2>1. CASE i = n + 1
    BY <1>2, <1>3, <1>5, <1>6, <2>1
  <2>2. CASE i # n + 1
    <3>1. i \in 1 .. n
      BY <2>2
    <3> QED BY <1>2, <1>4, <1>5, <1>6, <3>1
  <2> QED BY <2>1, <2>2
<1>8. t = u
  BY <1>5, <1>6, <1>7, SeqEqual
<1> QED BY <1>2, <1>3, <1>4, <1>5, <1>6, <1>8

(* A whole log is a script, and its bytes are those of its requests. *)
LEMMA LogIsScript ==
    ASSUME NEW cmds \in Seq(Logged)
    PROVE  /\ IsScript(ScriptOf(cmds))
           /\ ScriptOf(cmds).sent = Sent(cmds)
           /\ ScriptOf(cmds).verdict = EndOfInput
           /\ StreamBytes(Sent(cmds)) \in Seq(Byte)
           /\ StreamBytes(Sent(cmds)) = StreamBytes(ScriptOf(cmds).sent) \o TailBytes(ScriptOf(cmds))
<1>1. PICK s : s = ScriptOf(cmds)
  OBVIOUS
<1>2. /\ s.sent = Sent(cmds) /\ s.count = None /\ s.rest = <<>>
      /\ s.verdict = EndOfInput
  BY <1>1 DEF ScriptOf, Sent
<1>3. Sent(cmds) \in Seq(Requests)
  BY SentType
<1>4. <<>> \in Seq(Byte) /\ Len(<<>>) = 0
  OBVIOUS
<1>5. TailBytes(s) = <<>>
  BY <1>2 DEF TailBytes
<1>6. RestParsed(s) = Incomplete
  <2>1. CrlfPositions(<<>>) = {}
    BY <1>4 DEF CrlfPositions
  <2>2. ParseLine(<<>>) = Incomplete
    BY <2>1 DEF ParseLine
  <2>3. HeaderOn(<<>>) = Incomplete
    BY <2>2 DEF HeaderOn, ParseHeader
  <2> QED BY <1>2, <2>3 DEF RestParsed, HeaderOn
<1>7. IsScript(s)
  BY <1>2, <1>3, <1>4, <1>5, <1>6, ResultKinds DEF IsScript
<1>8. PICK bytes \in Seq(Byte) : bytes = StreamBytes(Sent(cmds))
  BY <1>3, StreamType
<1>9. bytes \o <<>> = bytes
  BY ConcatEmptySeq
<1> QED BY <1>1, <1>2, <1>5, <1>7, <1>8, <1>9

-----------------------------------------------------------------------------
(* The script of a torn record.                                              *)

\* The header and the first arguments of a request begin its bytes.
LEMMA BegunType ==
    ASSUME NEW request \in Requests, NEW k \in 0 .. Len(request)
    PROVE  /\ request \in Seq(CStrings) /\ Len(request) \in Nat
           /\ SubSeq(request, 1, k) \in Seq(CStrings)
           /\ Len(SubSeq(request, 1, k)) = k
           /\ Begins(SubSeq(request, 1, k), request)
           /\ Begun(request, k) \in Seq(Byte)
           /\ Begins(Begun(request, k), RequestBytes(request))
<1>1. request \in Seq(CStrings) /\ Len(request) \in Nat
  BY CStringsType, LenProperties
<1>2. PICK some \in Seq(CStrings) :
          some = SubSeq(request, 1, k) /\ Len(some) = k /\ Begins(some, request)
  BY <1>1, SliceBegins
<1>3. Opening(Len(request), some) \in Seq(Byte)
  BY <1>1, OpeningType
<1>4. Begins(Opening(Len(request), some), Opening(Len(request), request))
  BY <1>1, <1>2, OpeningGrows
<1> QED BY <1>1, <1>2, <1>3, <1>4 DEF Begun, RequestBytes

LEMMA BegunNext ==
    ASSUME NEW request \in Requests, NEW k \in 0 .. Len(request), k < Len(request)
    PROVE  /\ request[k + 1] \in CStrings
           /\ CStringBytes(request[k + 1]) \in Seq(Byte)
           /\ Begun(request, k + 1) = Begun(request, k) \o CStringBytes(request[k + 1])
<1>1. request \in Seq(CStrings) /\ Len(request) \in Nat
  BY BegunType
<1>2. PICK some \in Seq(CStrings) :
          some = SubSeq(request, 1, k) /\ Len(some) = k /\ Begins(some, request)
  BY BegunType
<1>3. PICK data \in CStrings : data = request[k + 1]
  BY <1>1, <1>2, BeginsAppend
<1>4. PICK more \in Seq(CStrings) :
          more = Append(some, data) /\ Len(more) = k + 1 /\ Begins(more, request)
  <2>1. Len(some) < Len(request) /\ request[Len(some) + 1] = data
    BY <1>2, <1>3
  <2>2. /\ Append(some, request[Len(some) + 1]) \in Seq(CStrings)
        /\ Len(Append(some, request[Len(some) + 1])) = Len(some) + 1
        /\ Begins(Append(some, request[Len(some) + 1]), request)
    BY <1>1, <1>2, <2>1, BeginsAppend
  <2> QED BY <1>2, <2>1, <2>2
<1>5. SubSeq(request, 1, k + 1) = more
  BY <1>1, <1>4, BeginningIsSlice
<1>6. /\ CStringBytes(data) \in Seq(Byte)
      /\ Opening(Len(request), Append(some, data)) =
             Opening(Len(request), some) \o CStringBytes(data)
  BY <1>1, OpeningAppend
<1> QED BY <1>2, <1>3, <1>4, <1>5, <1>6 DEF Begun

LEMMA BegunWhole ==
    ASSUME NEW request \in Requests
    PROVE  Begun(request, Len(request)) = RequestBytes(request)
<1>1. request \in Seq(CStrings)
  BY CStringsType
<1>2. SubSeq(request, 1, Len(request)) = request
  BY <1>1, BeginsSelf, BeginningIsSlice
<1> QED BY <1>2 DEF Begun, RequestBytes

(* A cut behind the header is in some argument, or just before it. *)
LEMMA CutIsInArgument ==
    ASSUME NEW request \in Requests, NEW n \in Nat,
           Len(Begun(request, 0)) <= n, n < Len(RequestBytes(request))
    PROVE  \E k \in 0 .. Len(request) - 1 :
               Len(Begun(request, k)) <= n /\ n < Len(Begun(request, k + 1))
<1>1. PICK m \in Nat : m = Len(request)
  BY CStringsType, LenProperties
<1> DEFINE S == {j \in 0 .. m : n < Len(Begun(request, j))}
<1>2. m \in S /\ S \subseteq Nat
  BY <1>1, BegunWhole
<1>3. PICK j \in S : \A i \in S : j <= i
  BY <1>2, Least
<1>4. j \in 0 .. m /\ n < Len(Begun(request, j))
  BY <1>3
<1>5. \A i \in 0 .. m : n < Len(Begun(request, i)) => j <= i
  BY <1>3
<1> HIDE DEF S
<1>6. ASSUME NEW i \in 0 .. m
      PROVE  Len(Begun(request, i)) \in Nat
  <2>1. Begun(request, i) \in Seq(Byte)
    BY <1>1, BegunType
  <2> QED BY <2>1, LenProperties
<1>7. j # 0
  <2>1. CASE j = 0
    <3>1. Len(Begun(request, 0)) \in Nat
      BY <1>1, <1>6
    <3>2. n < Len(Begun(request, 0))
      BY <1>4, <2>1
    <3> QED BY <3>1, <3>2
  <2> QED BY <2>1
<1>8. PICK k \in 0 .. m - 1 : j = k + 1
  <2>1. j - 1 \in 0 .. m - 1 /\ j = (j - 1) + 1
    BY <1>4, <1>7
  <2> QED BY <2>1
<1>9. k \in 0 .. m /\ ~(j <= k)
  BY <1>8
<1>10. Len(Begun(request, k)) \in Nat /\ ~(n < Len(Begun(request, k)))
  BY <1>5, <1>6, <1>9
<1>11. Len(Begun(request, k)) <= n
  BY <1>10
<1> QED BY <1>1, <1>4, <1>8, <1>11

(* What an append has left is the beginning of a request and then bytes to be *)
(* waited with, so its end is unexpected wherever it is.                      *)
LEMMA TornIsScript ==
    ASSUME NEW cmds \in Seq(Logged), NEW request \in Requests,
           NEW n \in Nat, 1 <= n, n < Len(RequestBytes(request))
    PROVE  /\ IsScript(TornScriptOf(cmds, request, n))
           /\ TornScriptOf(cmds, request, n).sent = Sent(cmds)
           /\ TornScriptOf(cmds, request, n).verdict = Failed("UnexpectedEof")
           /\ TailBytes(TornScriptOf(cmds, request, n)) =
                  SubSeq(RequestBytes(request), 1, n)
<1>1. /\ Sent(cmds) \in Seq(Requests)
      /\ request \in Seq(CStrings)
      /\ Len(request) \in 0 .. MaxArrayLength
  BY SentType, CStringsType
<1>2. PICK whole \in Seq(Byte) : whole = RequestBytes(request) /\ Len(whole) \in Nat
  BY RequestType, LenProperties
<1>3. PICK part \in Seq(Byte) :
          /\ part = SubSeq(RequestBytes(request), 1, n)
          /\ Len(part) = n /\ Begins(part, whole) /\ part # <<>>
  <2>1. n \in 0 .. Len(whole)
    BY <1>2
  <2>2. PICK some \in Seq(Byte) :
            some = SubSeq(whole, 1, n) /\ Len(some) = n /\ Begins(some, whole)
    BY <2>1, SliceBegins
  <2>3. some # <<>>
    <3> SUFFICES ASSUME some = <<>> PROVE FALSE
      OBVIOUS
    <3>1. Len(some) = 0
      BY EmptySeq
    <3>2. Len(some) # 0
      BY <2>2
    <3> QED BY <3>1, <3>2
  <2> QED BY <1>2, <2>2, <2>3
<1>4. 0 \in 0 .. Len(request)
  BY <1>1, SizeAssumption
<1>5. /\ Begun(request, 0) \in Seq(Byte) /\ Len(Begun(request, 0)) \in Nat
      /\ Begins(Begun(request, 0), whole)
      /\ Begun(request, 0) = LineBytes(ArrayByte, Decimal[Len(request)])
  <2>1. Begun(request, 0) \in Seq(Byte) /\ Begins(Begun(request, 0), whole)
    BY <1>2, <1>4, BegunType
  <2>2. SubSeq(request, 1, 0) = <<>>
    <3>1. SubSeq(request, 1, 0) \in Seq(CStrings) /\ Len(SubSeq(request, 1, 0)) = 0
      BY <1>4, BegunType
    <3> QED BY <3>1, EmptySeq
  <2>3. Len(request) \in Nat
    BY <1>1, SizeAssumption
  <2> QED BY <2>1, <2>2, <2>3, OpeningEmpty, LenProperties DEF Begun
<1> DEFINE s == TornScriptOf(cmds, request, n)
<1>6. CASE n < Len(Begun(request, 0))
  <2>1. s = [sent |-> Sent(cmds), count |-> None, args |-> <<>>, rest |-> part,
             verdict |-> Failed("UnexpectedEof")]
    BY <1>3, <1>6 DEF TornScriptOf, ScriptOf, Sent
  <2>2. /\ s.sent = Sent(cmds) /\ s.count = None /\ s.rest = part
        /\ s.verdict = Failed("UnexpectedEof")
    BY <2>1
  <2> HIDE DEF s
  <2>3. TailBytes(s) = part
    BY <2>2 DEF TailBytes
  <2>4. Begins(part, Begun(request, 0))
    <3>1. PICK first \in Seq(Byte) :
              first = Begun(request, 0) /\ Begins(first, whole) /\ Len(first) \in Nat
      BY <1>5
    <3>2. Len(part) <= Len(first)
      BY <1>3, <1>6, <3>1
    <3> QED BY <1>3, <3>1, <3>2, BeginsComparable
  <2>5. HeaderOn(part) = Incomplete
    <3>1. ArrayByte \in Byte /\ ArrayByte # CR
      BY DEF ArrayByte, Byte, CR
    <3>2. Len(request) \in Nat
      BY <1>1, SizeAssumption
    <3>3. PICK first : first = LineBytes(ArrayByte, Decimal[Len(request)])
      OBVIOUS
    <3>4. Begins(part, first) /\ Len(part) < Len(first)
      BY <1>3, <1>5, <1>6, <2>4, <3>3
    <3>5. ParseHeader(part, ArrayByte, MaxArrayLength, "ExpectedArray", "ArrayTooLong")
              = Incomplete
      BY <3>1, <3>2, <3>3, <3>4, HeaderWaits
    <3> QED BY <3>5 DEF HeaderOn
  <2>6. RestParsed(s) = Incomplete
    BY <2>2, <2>5 DEF RestParsed, HeaderOn
  <2>7. IsScript(s)
    BY <1>1, <1>3, <2>2, <2>3, <2>6, ResultKinds DEF IsScript
  <2> QED BY <1>3, <2>2, <2>3, <2>7 DEF s
<1>7. CASE ~(n < Len(Begun(request, 0)))
  <2> DEFINE at == CHOOSE k \in 0 .. Len(request) - 1 :
                       Len(Begun(request, k)) <= n /\ n < Len(Begun(request, k + 1))
  <2>1. PICK k \in 0 .. Len(request) - 1 :
            k = at /\ Len(Begun(request, k)) <= n /\ n < Len(Begun(request, k + 1))
    <3>1. Len(Begun(request, 0)) <= n
      BY <1>5, <1>7
    <3>2. \E k \in 0 .. Len(request) - 1 :
              Len(Begun(request, k)) <= n /\ n < Len(Begun(request, k + 1))
      BY <3>1, CutIsInArgument
    <3> QED BY <3>2
  <2>2. s = [sent |-> Sent(cmds), count |-> Len(request),
             args |-> SubSeq(request, 1, k), rest |-> From(part, Len(Begun(request, k))),
             verdict |-> Failed("UnexpectedEof")]
    <3>1. s = [[ScriptOf(cmds) EXCEPT !.verdict = Failed("UnexpectedEof")]
                  EXCEPT !.count = Len(request),
                         !.args = SubSeq(request, 1, at),
                         !.rest = From(part, Len(Begun(request, at)))]
      BY <1>3, <1>7 DEF TornScriptOf
    <3> HIDE DEF at
    <3> QED BY <2>1, <3>1 DEF ScriptOf, Sent
  <2> HIDE DEF at
  <2>3. /\ s.sent = Sent(cmds) /\ s.count = Len(request)
        /\ s.args = SubSeq(request, 1, k)
        /\ s.rest = From(part, Len(Begun(request, k)))
        /\ s.verdict = Failed("UnexpectedEof")
    BY <2>2
  <2> HIDE DEF s
  <2>4. /\ k \in 0 .. Len(request) /\ k + 1 \in 0 .. Len(request) /\ k < Len(request)
        /\ Len(request) \in 1 .. MaxArrayLength /\ Len(request) # None
    <3>1. Len(request) \in Nat /\ MaxArrayLength \in Nat /\ None \notin Nat
      BY <1>1, SizeAssumption
    <3>2. /\ k \in 0 .. Len(request) /\ k + 1 \in 0 .. Len(request) /\ k < Len(request)
          /\ Len(request) \in 1 .. MaxArrayLength
      BY <1>1, <2>1, <3>1
    <3>3. Len(request) # None
      BY <3>1
    <3> QED BY <3>2, <3>3
  <2>5. PICK begun \in Seq(Byte) :
            /\ begun = Begun(request, k) /\ Begins(begun, whole)
            /\ begun = Opening(Len(request), SubSeq(request, 1, k))
            /\ SubSeq(request, 1, k) \in Seq(CStrings)
            /\ Len(SubSeq(request, 1, k)) < Len(request)
    BY <1>2, <2>4, BegunType DEF Begun
  <2>6. PICK next \in Seq(Byte) :
            /\ next = CStringBytes(request[k + 1])
            /\ request[k + 1] \in CStrings
            /\ begun \o next = Begun(request, k + 1)
            /\ begun \o next \in Seq(Byte)
            /\ Begins(begun \o next, whole)
    <3>1. /\ request[k + 1] \in CStrings
          /\ CStringBytes(request[k + 1]) \in Seq(Byte)
          /\ Begun(request, k + 1) = Begun(request, k) \o CStringBytes(request[k + 1])
      BY <2>4, BegunNext
    <3>2. /\ Begun(request, k + 1) \in Seq(Byte)
          /\ Begins(Begun(request, k + 1), RequestBytes(request))
      BY <2>4, BegunType
    <3> QED BY <1>2, <2>5, <3>1, <3>2
  <2>7. /\ Len(begun) \in Nat /\ Len(next) \in Nat
        /\ Len(begun) <= n /\ n < Len(begun) + Len(next)
    BY <2>1, <2>5, <2>6, LenProperties, ConcatProperties
  <2>8. Begins(begun, part) /\ Begins(part, begun \o next)
    <3>1. Len(begun) <= Len(part) /\ Len(part) <= Len(begun \o next)
      BY <1>3, <2>1, <2>5, <2>6, <2>7
    <3>2. Begins(begun, part)
      BY <1>2, <1>3, <2>5, <3>1, BeginsComparable
    <3>3. Begins(part, begun \o next)
      BY <1>2, <1>3, <2>6, <3>1, BeginsComparable
    <3> QED BY <3>2, <3>3
  <2>9. PICK rest \in Seq(Byte) :
            /\ rest = From(part, Len(begun)) /\ Len(rest) = n - Len(begun)
            /\ Begins(rest, next)
            /\ part = begun \o rest
    <3>1. Len(begun) \in 0 .. Len(part)
      BY <1>3, <2>7
    <3>2. From(part, Len(begun)) \in Seq(Byte) /\ Len(From(part, Len(begun))) = n - Len(begun)
      BY <1>3, <3>1, FromProperties
    <3>3. Begins(From(part, Len(begun)), From(begun \o next, Len(begun)))
      BY <2>6, <2>8, <3>1, BeginsFrom
    <3>4. From(begun \o next, Len(begun)) = next
      BY FromConcat
    <3>5. part = begun \o From(part, Len(begun))
      BY <2>8, FromBeginning
    <3> QED BY <3>2, <3>3, <3>4, <3>5
  <2>10. s.rest = rest
    BY <2>3, <2>5, <2>9
  <2>11. TailBytes(s) = part
    BY <2>3, <2>4, <2>5, <2>9, <2>10 DEF TailBytes
  <2>12. ParseCStr(rest) = Incomplete
    <3>1. Len(rest) < Len(next)
      BY <2>7, <2>9
    <3> QED BY <2>6, <2>9, <3>1, CStrWaits
  <2>13. RestParsed(s) = Incomplete
    BY <2>3, <2>4, <2>10, <2>12 DEF RestParsed
  <2>14. IsScript(s)
    BY <1>1, <1>3, <2>3, <2>4, <2>5, <2>10, <2>11, <2>13, ResultKinds DEF IsScript
  <2> QED BY <1>3, <2>3, <2>11, <2>14 DEF s
<1> QED BY <1>6, <1>7

-----------------------------------------------------------------------------
(* The invariant.                                                            *)

\* A replay of a log: the commands applied are the first of the acknowledged
\* ones, and what the reader has delivered are their requests, and perhaps the
\* one that it has just returned; a failed read delivers nothing.
Replaying ==
    /\ IInv
    /\ applied \in Seq(Logged)
    /\ Begins(applied, acknowledged)
    /\ pc # "returned" => Delivered = Sent(applied)
    /\ pc = "returned" =>
           \/ /\ LastResult.kind = "request"
              /\ LastResult.cstrs \in Requests
              /\ Delivered = Append(Sent(applied), LastResult.cstrs)
           \/ /\ LastResult = script.verdict
              /\ Delivered = Sent(applied)
              /\ Len(Delivered) = Len(script.sent)
           \/ /\ LastResult = Failed("Io")
              /\ Delivered = Sent(applied)

\* The file is the acknowledged commands and perhaps a torn one, as long as
\* nothing is behind that.
LogIsScripted ==
    /\ IsScript(script)
    /\ stream = StreamBytes(script.sent) \o TailBytes(script)
    /\ script.sent = Sent(acknowledged)
    /\ script.verdict = IF tears = 0 THEN EndOfInput ELSE Failed("UnexpectedEof")
    /\ tears = 0 => stream = StreamBytes(Sent(acknowledged))
    /\ phase = "serving" => applied = acknowledged
    /\ phase = "restoring" => Replaying
    /\ phase = "failed" => tears # 0 \/ LastResult = Failed("Io")

LInv ==
    /\ phase \in {"serving", "down", "restoring", "failed"}
    /\ acknowledged \in Seq(Logged)
    /\ tears \in Nat
    /\ tears = 0 => ~behind
    /\ ~behind => LogIsScripted

-----------------------------------------------------------------------------
(* A replay, step by step.                                                   *)

LEMMA EndIsNoError ==
    \A error : EndOfInput # Failed(error) /\ EndOfInput.kind # "error"
<1>1. EndOfInput.kind = "end"
  BY DEF EndOfInput
<1> QED BY <1>1, ResultKinds

\* A step of the reader that returns nothing.
LEMMA StillReading ==
    ASSUME Replaying, IInv', UNCHANGED <<results, applied, acknowledged>>,
           pc # "returned", pc' # "returned"
    PROVE  Replaying'
<1>1. Delivered' = Delivered
  BY DEF Delivered
<1>2. Sent(applied)' = Sent(applied)
  BY DEF Sent
<1> QED BY <1>1, <1>2 DEF Replaying

\* What has just been returned is the last of the results.
LEMMA JustReturned ==
    ASSUME IInv, NEW result \in Results, Return(result)
    PROVE  LastResult' = result
<1>1. results \in Seq(Results) /\ results' = Append(results, result)
  BY DEF IInv, Return
<1>2. Len(results') = Len(results) + 1 /\ results'[Len(results) + 1] = result
  BY <1>1, AppendProperties
<1> QED BY <1>2 DEF LastResult

\* A step of the reader that returns the verdict, every request being out.
LEMMA VerdictReplays ==
    ASSUME Replaying, IInv', NEW result \in Results, result.kind # "request",
           Return(result), pc # "returned",
           result = script.verdict, Len(Delivered) = Len(script.sent),
           UNCHANGED <<script, applied, acknowledged>>
    PROVE  Replaying'
<1>1. IInv /\ results \in Seq(Results)
  BY DEF Replaying, IInv
<1>2. results' = Append(results, result) /\ pc' = "returned"
  BY DEF Return
<1>3. LastResult' = result
  BY <1>1, JustReturned
<1>4. Delivered' = Delivered
  BY <1>1, <1>2, RequestsInAppend DEF Delivered
<1>5. Sent(applied)' = Sent(applied) /\ Delivered = Sent(applied)
  BY DEF Replaying, Sent
<1>6. applied' \in Seq(Logged) /\ Begins(applied', acknowledged')
  BY DEF Replaying
<1>7. /\ LastResult' = script'.verdict
      /\ Delivered' = Sent(applied)'
      /\ Len(Delivered') = Len(script'.sent)
  BY <1>3, <1>4, <1>5
<1> QED BY <1>2, <1>6, <1>7 DEF Replaying

LEMMA HeaderReplays ==
    ASSUME Replaying, DecodeArrayHeader, UNCHANGED <<applied, acknowledged>>
    PROVE  Replaying'
<1>1. IInv /\ IInv' /\ pc = "decode"
  BY HeaderKeeps DEF Replaying, DecodeArrayHeader, Decoding
<1>2. CASE NoData(ArrayHeader) /\ ArrayHeader # Incomplete
  <2>1. ArrayHeader.kind # "parsed" /\ Return(ArrayHeader) /\ script' = script
    BY <1>2 DEF NoData
  <2>2. /\ Len(Delivered) = Len(script.sent)
        /\ ArrayHeader = script.verdict
        /\ \E error \in Errors : ArrayHeader = Failed(error)
    BY <1>1, <1>2, <2>1, HeaderRefused
  <2>3. ArrayHeader \in Results /\ ArrayHeader.kind # "request"
    BY <2>2, ResultTypes
  <2> QED BY <1>1, <2>1, <2>2, <2>3, VerdictReplays
<1>3. CASE NoData(ArrayHeader) /\ ArrayHeader = Incomplete
  <2>1. pc' = "read" /\ results' = results
    BY <1>3 DEF NoData
  <2> QED BY <1>1, <2>1, StillReading
<1>4. CASE ~NoData(ArrayHeader)
  <2>1. pc' = pc /\ results' = results
    BY <1>4 DEF DecodeArrayHeader
  <2> QED BY <1>1, <2>1, StillReading
<1> QED BY <1>2, <1>3, <1>4

LEMMA ArgumentReplays ==
    ASSUME Replaying, DecodeArgument, UNCHANGED <<applied, acknowledged>>
    PROVE  Replaying'
<1>1. /\ IInv /\ IInv' /\ pc = "decode"
      /\ expected_arg_count # None /\ Len(args) < expected_arg_count
  BY ArgumentKeeps DEF Replaying, DecodeArgument, Decoding
<1>2. CASE NoData(CStr) /\ CStr # Incomplete
  <2>1. CStr.kind # "parsed" /\ Return(CStr) /\ script' = script
    BY <1>2 DEF NoData
  <2>2. /\ Len(Delivered) = Len(script.sent)
        /\ CStr = script.verdict
        /\ \E error \in Errors : CStr = Failed(error)
    BY <1>1, <1>2, <2>1, ArgumentRefused
  <2>3. CStr \in Results /\ CStr.kind # "request"
    BY <2>2, ResultTypes
  <2> QED BY <1>1, <2>1, <2>2, <2>3, VerdictReplays
<1>3. CASE NoData(CStr) /\ CStr = Incomplete
  <2>1. pc' = "read" /\ results' = results
    BY <1>3 DEF NoData
  <2> QED BY <1>1, <2>1, StillReading
<1>4. CASE ~NoData(CStr)
  <2>1. pc' = pc /\ results' = results
    BY <1>4 DEF DecodeArgument
  <2> QED BY <1>1, <2>1, StillReading
<1> QED BY <1>2, <1>3, <1>4

LEMMA TakeReplays ==
    ASSUME Replaying, TakeRequest, UNCHANGED <<applied, acknowledged>>
    PROVE  Replaying'
<1>1. /\ IInv /\ IInv' /\ Delivered' = Append(Delivered, args)
      /\ pc = "decode" /\ pc' = "returned" /\ Return(Request(args))
  BY TakeKeeps DEF Replaying, TakeRequest, Decoding, Return
<1>2. args \in Requests
  <2>1. PICK d \in Seq(Requests) : d = Delivered'
    BY <1>1, RequestsInType DEF IInv, Delivered
  <2>2. expected_arg_count # None /\ Len(args) = expected_arg_count
    BY DEF TakeRequest
  <2>3. /\ args \in Seq(CStrings) /\ expected_arg_count \in 0 .. MaxArrayLength
    BY <1>1, <2>2, Inside
  <2>4. Len(args) <= MaxArrayLength
    BY <2>2, <2>3, SizeAssumption
  <2> QED BY <2>3, <2>4 DEF Requests
<1>3. /\ Request(args) \in Results /\ Request(args).kind = "request"
      /\ Request(args).cstrs = args
  BY <1>2, ResultTypes
<1>4. LastResult' = Request(args)
  BY <1>1, <1>3, JustReturned
<1>5. Sent(applied)' = Sent(applied)
  BY DEF Sent
<1>6. Delivered = Sent(applied)
  BY <1>1 DEF Replaying
<1>7. applied' \in Seq(Logged) /\ Begins(applied', acknowledged')
  BY DEF Replaying
<1>8. /\ LastResult'.kind = "request"
      /\ LastResult'.cstrs \in Requests
      /\ Delivered' = Append(Sent(applied'), LastResult'.cstrs)
  BY <1>1, <1>2, <1>3, <1>4, <1>5, <1>6
<1> QED BY <1>1, <1>7, <1>8 DEF Replaying

LEMMA ReadReplays ==
    ASSUME Replaying, ReadFile, UNCHANGED <<applied, acknowledged>>
    PROVE  Replaying'
<1>1. PICK n \in 1 .. ReadChunkSize : Read(n)
  BY DEF ReadFile
<1>2. IInv'
  BY <1>1, ReadKeeps DEF Replaying
<1>3. pc = "read" /\ pc' = "decode" /\ results' = results
  BY <1>1 DEF Read
<1> QED BY <1>2, <1>3, StillReading

\* The end of the file comes when every request is out, and not within one.
LEMMA EofReplays ==
    ASSUME Replaying, ReadEof, UNCHANGED <<applied, acknowledged>>
    PROVE  Replaying'
<1>1. /\ IInv /\ IInv' /\ pc = "read" /\ pc' = "returned"
      /\ UNCHANGED <<script, stream, pos, decoder>>
      /\ Return(IF buffer # <<>> THEN Failed("UnexpectedEof") ELSE EndOfInput)
  BY EofKeeps DEF Replaying, ReadEof, Return
<1>2. PICK result \in Results :
          /\ Return(result)
          /\ result = Failed("UnexpectedEof") \/ result = EndOfInput
          /\ result.kind \in {"end", "error"} /\ result.kind # "request"
  <2>1. "UnexpectedEof" \in Errors
    BY DEF Errors
  <2>2. EndOfInput \in Results /\ EndOfInput.kind = "end"
    BY ResultTypes DEF EndOfInput
  <2>3. Failed("UnexpectedEof") \in Results /\ Failed("UnexpectedEof").kind = "error"
    BY <2>1, ResultTypes, ResultKinds
  <2> QED BY <1>1, <2>2, <2>3
<1>3. results \in Seq(Results) /\ results' = Append(results, result)
  BY <1>1, <1>2 DEF IInv, Return
<1>4. PICK m \in Nat : m = Len(results)
  BY <1>3, LenProperties
<1>5. m + 1 \in DOMAIN results' /\ results'[m + 1] = result
  BY <1>3, <1>4, AppendProperties, LenProperties
<1>6. Delivered' = Delivered
  BY <1>2, <1>3, RequestsInAppend DEF Delivered
<1>7. \/ result = Failed("Io")
      \/ result = script.verdict /\ Len(Delivered) = Len(script.sent)
      \/ result = Failed("Poisoned")
  <2>1. Ends'
    BY <1>1 DEF IInv
  <2>2. script' = script
    BY <1>1
  <2> QED BY <1>2, <1>5, <1>6, <2>1, <2>2 DEF Ends
<1>8. result = script.verdict /\ Len(Delivered) = Len(script.sent)
  <2>1. Failed("UnexpectedEof") # Failed("Io") /\ Failed("UnexpectedEof") # Failed("Poisoned")
    BY DEF Failed
  <2> QED BY <1>2, <1>7, <2>1, EndIsNoError
<1> QED BY <1>1, <1>2, <1>8, VerdictReplays

\* A read may fail anywhere.
LEMMA IoReplays ==
    ASSUME Replaying, ReadFails, UNCHANGED <<applied, acknowledged>>
    PROVE  Replaying'
<1>1. /\ IInv /\ IInv' /\ pc = "read" /\ pc' = "returned" /\ Return(Failed("Io"))
  BY FailsKeeps DEF Replaying, ReadFails, Return
<1>2. Failed("Io") \in Results /\ Failed("Io").kind # "request"
  <2>1. "Io" \in Errors
    BY DEF Errors
  <2> QED BY <2>1, ResultTypes, ResultKinds
<1>3. results \in Seq(Results) /\ results' = Append(results, Failed("Io"))
  BY <1>1 DEF IInv, Return
<1>4. Delivered' = Delivered
  BY <1>2, <1>3, RequestsInAppend DEF Delivered
<1>5. LastResult' = Failed("Io")
  BY <1>1, <1>2, JustReturned
<1>6. Sent(applied)' = Sent(applied) /\ Delivered = Sent(applied)
  BY <1>1 DEF Replaying, Sent
<1>7. applied' \in Seq(Logged) /\ Begins(applied', acknowledged')
  BY DEF Replaying
<1> QED BY <1>1, <1>4, <1>5, <1>6, <1>7 DEF Replaying

-----------------------------------------------------------------------------
(* Every step keeps the invariant.                                           *)

\* The ghost behind tells whether a record was torn before this append.
LEMMA BehindTears ==
    ASSUME LInv, behind' = (tears > 0)
    PROVE  (tears = 0 => ~behind') /\ (~behind' => tears = 0)
<1>1. tears \in Nat
  BY DEF LInv
<1>2. CASE tears = 0
  <2>1. ~(tears > 0)
    BY <1>2
  <2> QED BY <1>2, <2>1, Zenon
<1>3. CASE tears # 0
  <2>1. tears > 0
    BY <1>1, <1>3
  <2>2. behind'
    BY <2>1, Zenon
  <2> QED BY <1>3, <2>2, Zenon
<1> QED BY <1>2, <1>3

\* A step that leaves the file alone.
LEMMA SameLog ==
    ASSUME LInv, UNCHANGED <<script, stream, acknowledged, tears, behind>>,
           phase' \in {"serving", "down", "restoring", "failed"},
           ~behind => /\ phase' = "serving" => applied' = acknowledged
                      /\ phase' = "restoring" => Replaying'
                      /\ phase' = "failed" => tears # 0 \/ LastResult' = Failed("Io")
    PROVE  LInv'
<1>1. Sent(acknowledged)' = Sent(acknowledged)
  BY DEF Sent
<1>2. ASSUME ~behind'
      PROVE  LogIsScripted'
  <2>1. /\ IsScript(script)
        /\ stream = StreamBytes(script.sent) \o TailBytes(script)
        /\ script.sent = Sent(acknowledged)
        /\ script.verdict = IF tears = 0 THEN EndOfInput ELSE Failed("UnexpectedEof")
        /\ tears = 0 => stream = StreamBytes(Sent(acknowledged))
    BY <1>2 DEF LInv, LogIsScripted
  <2>2. IsScript(script') /\ stream' = StreamBytes(script'.sent) \o TailBytes(script')
    BY <2>1
  <2>3. script'.sent = Sent(acknowledged)'
    BY <1>1, <2>1
  <2>4. script'.verdict = IF tears' = 0 THEN EndOfInput ELSE Failed("UnexpectedEof")
    BY <2>1
  <2>5. tears' = 0 => stream' = StreamBytes(Sent(acknowledged))'
    BY <1>1, <2>1
  <2>6. /\ phase' = "serving" => applied' = acknowledged'
        /\ phase' = "restoring" => Replaying'
        /\ phase' = "failed" => tears' # 0 \/ LastResult' = Failed("Io")
    BY <1>2
  <2> QED BY <2>2, <2>3, <2>4, <2>5, <2>6 DEF LogIsScripted
<1>3. acknowledged' \in Seq(Logged) /\ tears' \in Nat /\ (tears' = 0 => ~behind')
  BY DEF LInv
<1> QED BY <1>2, <1>3 DEF LInv

LEMMA ReadNextKeeps ==
    ASSUME LInv, ReadNext
    PROVE  LInv'
<1>1. phase = "restoring" /\ UNCHANGED <<phase, applied, acknowledged, tears, behind>>
  BY DEF ReadNext
<1>2. UNCHANGED <<script, stream>>
  <2>1. CASE DecodeArrayHeader
    BY <2>1 DEF DecodeArrayHeader, NoData
  <2>2. CASE DecodeArgument
    BY <2>2 DEF DecodeArgument, NoData
  <2>3. CASE TakeRequest
    BY <2>3 DEF TakeRequest
  <2>4. CASE ReadFile
    BY <2>4 DEF ReadFile, Read
  <2>5. CASE ReadEof
    BY <2>5 DEF ReadEof
  <2>6. CASE ReadFails
    BY <2>6 DEF ReadFails
  <2> QED BY <2>1, <2>2, <2>3, <2>4, <2>5, <2>6 DEF ReadNext
<1>3. ASSUME ~behind
      PROVE  Replaying'
  <2>1. Replaying /\ UNCHANGED <<applied, acknowledged>>
    BY <1>1, <1>3 DEF LInv, LogIsScripted
  <2>2. CASE DecodeArrayHeader
    BY <2>1, <2>2, HeaderReplays
  <2>3. CASE DecodeArgument
    BY <2>1, <2>3, ArgumentReplays
  <2>4. CASE TakeRequest
    BY <2>1, <2>4, TakeReplays
  <2>5. CASE ReadFile
    BY <2>1, <2>5, ReadReplays
  <2>6. CASE ReadEof
    BY <2>1, <2>6, EofReplays
  <2>7. CASE ReadFails
    BY <2>1, <2>7, IoReplays
  <2> QED BY <2>2, <2>3, <2>4, <2>5, <2>6, <2>7 DEF ReadNext
<1> QED BY <1>1, <1>2, <1>3, SameLog

\* Where nothing is behind a torn record, what the reader has returned is the
\* next of the acknowledged commands, or the verdict when they are all applied.
LEMMA NextOfLog ==
    ASSUME LInv, ~behind, phase = "restoring", pc = "returned",
           LastResult.kind = "request"
    PROVE  /\ Len(applied) < Len(acknowledged)
           /\ acknowledged[Len(applied) + 1] \in Logged
           /\ FromCstrs(LastResult.cstrs) = acknowledged[Len(applied) + 1]
           /\ Delivered = Sent(Append(applied, FromCstrs(LastResult.cstrs)))
<1>1. /\ Replaying /\ acknowledged \in Seq(Logged) /\ applied \in Seq(Logged)
      /\ script.sent = Sent(acknowledged)
      /\ script.verdict = EndOfInput \/ script.verdict = Failed("UnexpectedEof")
  BY DEF LInv, LogIsScripted, Replaying
<1>2. PICK n \in Nat : n = Len(applied)
  BY <1>1, LenProperties
<1>3. PICK m \in Nat : m = Len(acknowledged)
  BY <1>1, LenProperties
<1>4. PICK all \in Seq(Requests) :
          /\ all = script.sent /\ Len(all) = m
          /\ \A i \in 1 .. m : all[i] = Cstrs(acknowledged[i])
  BY <1>1, <1>3, SentType
<1>5. PICK some \in Seq(Requests) : some = Sent(applied) /\ Len(some) = n
  BY <1>1, <1>2, SentType
<1>6. PICK c \in Requests : c = LastResult.cstrs /\ Delivered = Append(some, c)
  <2>1. LastResult # script.verdict /\ LastResult # Failed("Io")
    <3>1. EndOfInput.kind # "request"
      BY ResultTypes
    <3>2. Failed("UnexpectedEof").kind # "request" /\ Failed("Io").kind # "request"
      BY ResultKinds
    <3> QED BY <1>1, <3>1, <3>2
  <2> QED BY <1>1, <1>5, <2>1 DEF Replaying
<1>7. PICK longer \in Seq(Requests) :
          /\ longer = Append(some, c) /\ Len(longer) = n + 1 /\ longer[n + 1] = c
  <2>1. /\ Append(some, c) \in Seq(Requests)
        /\ Len(Append(some, c)) = Len(some) + 1
        /\ Append(some, c)[Len(some) + 1] = c
    BY AppendProperties
  <2> QED BY <1>5, <2>1
<1>8. Begins(longer, all)
  BY <1>1, <1>4, <1>6, <1>7 DEF Replaying, IInv
<1>9. n + 1 <= m /\ longer[n + 1] = all[n + 1]
  <2>1. n + 1 \in 1 .. n + 1
    OBVIOUS
  <2> QED BY <1>4, <1>7, <1>8, <2>1 DEF Begins
<1>10. n + 1 \in 1 .. m
  BY <1>9
<1>11. PICK cmd \in Logged : cmd = acknowledged[n + 1]
  BY <1>1, <1>3, <1>10, ElementOfSeq
<1>12. c = Cstrs(cmd)
  BY <1>4, <1>7, <1>9, <1>10, <1>11
<1>13. FromCstrs(c) = cmd
  BY <1>12, LoggedComesBack
<1>14. Sent(Append(applied, cmd)) = Append(some, c)
  BY <1>1, <1>5, <1>12, SentAppend
<1> QED BY <1>2, <1>3, <1>6, <1>9, <1>11, <1>13, <1>14

LEMMA LastOfLog ==
    ASSUME LInv, ~behind, phase = "restoring", pc = "returned",
           LastResult.kind # "request", LastResult # Failed("Io")
    PROVE  applied = acknowledged /\ LastResult = script.verdict
<1>1. /\ applied \in Seq(Logged) /\ acknowledged \in Seq(Logged)
      /\ Begins(applied, acknowledged)
      /\ script.sent = Sent(acknowledged)
  BY DEF LInv, LogIsScripted, Replaying
<1>2. /\ LastResult = script.verdict
      /\ Delivered = Sent(applied) /\ Len(Delivered) = Len(script.sent)
  BY DEF LInv, LogIsScripted, Replaying
<1>3. Len(Sent(applied)) = Len(applied) /\ Len(Sent(acknowledged)) = Len(acknowledged)
  BY <1>1, SentType
<1>4. Len(acknowledged) <= Len(applied)
  <2>1. Len(applied) \in Nat /\ Len(acknowledged) = Len(applied)
    BY <1>1, <1>2, <1>3, LenProperties
  <2> QED BY <2>1
<1> QED BY <1>1, <1>2, <1>4, BeginsEqual

LEMMA ReplayRequestKeeps ==
    ASSUME LInv, ReplayRequest
    PROVE  LInv'
<1>1. /\ phase = "restoring" /\ pc = "returned" /\ LastResult.kind = "request"
      /\ applied' = Append(applied, FromCstrs(LastResult.cstrs))
      /\ pc' = "decode"
      /\ UNCHANGED <<script, stream, acknowledged, tears, behind, phase>>
      /\ UNCHANGED <<pos, decoder, results>>
  BY DEF ReplayRequest, Returned, log
<1>2. ASSUME ~behind
      PROVE  Replaying'
  <2>1. /\ Replaying
        /\ applied \in Seq(Logged) /\ acknowledged \in Seq(Logged)
        /\ Begins(applied, acknowledged)
    BY <1>1, <1>2 DEF LInv, LogIsScripted, Replaying
  <2>2. PICK cmd \in Logged :
            /\ cmd = FromCstrs(LastResult.cstrs)
            /\ cmd = acknowledged[Len(applied) + 1]
            /\ Len(applied) < Len(acknowledged)
            /\ Delivered = Sent(Append(applied, cmd))
    BY <1>1, <1>2, NextOfLog
  <2>3. PICK longer \in Seq(Logged) :
            longer = Append(applied, cmd) /\ Begins(longer, acknowledged)
    BY <2>1, <2>2, BeginsAppend
  <2>4. applied' = longer /\ acknowledged' = acknowledged
    BY <1>1, <2>2, <2>3
  <2>5. IInv'
    <3>1. IInv /\ pc' \in {"decode", "read", "returned"} /\ pc' # "read"
      BY <1>1, <2>1 DEF Replaying
    <3> QED BY <1>1, <3>1, PcKeeps
  <2>6. Delivered' = Sent(applied)'
    <3>1. Delivered' = Delivered
      BY <1>1 DEF Delivered
    <3>2. Sent(applied)' = Sent(longer)
      BY <2>4 DEF Sent
    <3> QED BY <2>2, <2>3, <3>1, <3>2
  <2>7. pc' # "returned"
    BY <1>1
  <2>8. applied' \in Seq(Logged) /\ Begins(applied', acknowledged')
    BY <2>3, <2>4
  <2> QED BY <2>5, <2>6, <2>7, <2>8 DEF Replaying
<1> QED BY <1>1, <1>2, SameLog

LEMMA ReplayFailsKeeps ==
    ASSUME LInv, ReplayFails
    PROVE  LInv'
<1>1. /\ phase = "restoring" /\ pc = "returned"
      /\ \/ LastResult.kind = "error"
         \/ LastResult.kind = "request" /\ ~IsWriteOp(FromCstrs(LastResult.cstrs))
      /\ phase' = "failed"
      /\ UNCHANGED <<script, stream, acknowledged, tears, behind>>
  BY DEF ReplayFails, Returned, log
<1>2. ASSUME ~behind
      PROVE  tears # 0 \/ LastResult = Failed("Io")
  <2>1. CASE LastResult.kind = "error" /\ LastResult # Failed("Io")
    <3>1. LastResult = script.verdict
      BY <1>1, <1>2, <2>1, LastOfLog
    <3>2. tears = 0 => script.verdict = EndOfInput
      BY <1>2 DEF LInv, LogIsScripted
    <3> QED BY <2>1, <3>1, <3>2, EndIsNoError
  <2>2. CASE LastResult.kind = "request" /\ ~IsWriteOp(FromCstrs(LastResult.cstrs))
    <3>1. FromCstrs(LastResult.cstrs) \in Logged
      BY <1>1, <1>2, <2>2, NextOfLog
    <3>2. IsWriteOp(FromCstrs(LastResult.cstrs))
      BY <3>1, LoggedComesBack
    <3> QED BY <2>2, <3>2
  <2> QED BY <1>1, <2>1, <2>2
<1>3. LastResult' = LastResult
  BY DEF ReplayFails, reader, LastResult
<1> QED BY <1>1, <1>2, <1>3, SameLog

\* A replay that ends well was of a whole log, or of one with a torn record
\* that something is behind.
LEMMA DoneMeansWhole ==
    ASSUME LInv, ReplayDone, ~behind
    PROVE  applied = acknowledged /\ tears = 0
<1>1. phase = "restoring" /\ pc = "returned" /\ LastResult.kind = "end"
  BY DEF ReplayDone, Returned
<1>2. applied = acknowledged /\ LastResult = script.verdict
  <2>1. LastResult # Failed("Io")
    BY <1>1, ResultKinds
  <2> QED BY <1>1, <2>1, LastOfLog
<1>3. script.verdict = IF tears = 0 THEN EndOfInput ELSE Failed("UnexpectedEof")
  BY DEF LInv, LogIsScripted
<1>4. Failed("UnexpectedEof").kind = "error"
  BY ResultKinds
<1> QED BY <1>1, <1>2, <1>3, <1>4

LEMMA ReplayDoneKeeps ==
    ASSUME LInv, ReplayDone
    PROVE  LInv'
<1>1. /\ phase' = "serving" /\ applied' = applied
      /\ UNCHANGED <<script, stream, acknowledged, tears, behind>>
  BY DEF ReplayDone, log
<1>2. ~behind => applied = acknowledged
  BY DoneMeansWhole
<1> QED BY <1>1, <1>2, SameLog

LEMMA LogCommandKeeps ==
    ASSUME LInv, NEW cmd \in Logged, LogCommand(cmd)
    PROVE  LInv'
<1>1. /\ phase = "serving" /\ phase' = "serving" /\ tears' = tears
      /\ behind' = (tears > 0)
      /\ stream' = stream \o ToBytes(cmd)
      /\ applied' = Append(applied, cmd)
      /\ acknowledged' = Append(acknowledged, cmd)
      /\ tears = 0 => script' = ScriptOf(acknowledged')
  BY DEF LogCommand, Appending
<1>2. PICK longer \in Seq(Logged) :
          /\ longer = Append(acknowledged, cmd)
          /\ acknowledged' = longer
          /\ Sent(longer) = Append(Sent(acknowledged), Cstrs(cmd))
  BY <1>1, SentAppend DEF LInv
<1>3. /\ tears \in Nat
      /\ tears = 0 => ~behind'
      /\ ~behind' => tears = 0
  BY <1>1, BehindTears DEF LInv
<1>4. ASSUME ~behind'
      PROVE  LogIsScripted'
  <2>1. tears = 0 /\ stream = StreamBytes(Sent(acknowledged)) /\ applied = acknowledged
    BY <1>1, <1>3, <1>4 DEF LInv, LogIsScripted
  <2>2. PICK sent \in Seq(Requests) : sent = Sent(acknowledged)
    BY SentType DEF LInv
  <2>3. Cstrs(cmd) \in Requests
    BY LoggedComesBack
  <2>4. StreamBytes(Append(sent, Cstrs(cmd))) = StreamBytes(sent) \o RequestBytes(Cstrs(cmd))
    BY <2>3, StreamAppend
  <2>5. stream' = StreamBytes(Sent(longer))
    BY <1>1, <1>2, <2>1, <2>2, <2>4 DEF ToBytes
  <2>6. PICK s : s = ScriptOf(longer)
    OBVIOUS
  <2>7. /\ IsScript(s) /\ s.sent = Sent(longer) /\ s.verdict = EndOfInput
        /\ StreamBytes(Sent(longer)) = StreamBytes(s.sent) \o TailBytes(s)
    BY <2>6, LogIsScript
  <2>8. script' = s /\ tears' = 0
    BY <1>1, <1>2, <2>1, <2>6
  <2>9. Sent(acknowledged)' = Sent(longer)
    BY <1>2 DEF Sent
  <2>10. IsScript(script') /\ stream' = StreamBytes(script'.sent) \o TailBytes(script')
    BY <2>5, <2>7, <2>8
  <2>11. script'.sent = Sent(acknowledged)' /\ stream' = StreamBytes(Sent(acknowledged))'
    BY <2>5, <2>7, <2>8, <2>9
  <2>12. script'.verdict = IF tears' = 0 THEN EndOfInput ELSE Failed("UnexpectedEof")
    BY <2>7, <2>8
  <2>13. applied' = acknowledged'
    BY <1>1, <2>1
  <2> QED BY <1>1, <2>10, <2>11, <2>12, <2>13 DEF LogIsScripted
<1>5. tears' = 0 => ~behind'
  BY <1>1, <1>3
<1> QED BY <1>1, <1>2, <1>3, <1>4, <1>5 DEF LInv

\* The first torn record makes the log a script that ends too early; the second
\* is behind the first.
LEMMA TearKeeps ==
    ASSUME LInv, NEW cmd \in Logged, NEW n, Tear(cmd, n), phase' \in {"serving", "down"}
    PROVE  LInv'
<1>1. /\ phase = "serving"
      /\ behind' = (tears > 0) /\ tears' = tears + 1
      /\ n \in 1 .. Len(ToBytes(cmd)) - 1
      /\ stream' = stream \o SubSeq(ToBytes(cmd), 1, n)
      /\ tears = 0 => script' = TornScriptOf(acknowledged, Cstrs(cmd), n)
      /\ UNCHANGED <<applied, acknowledged>>
  BY DEF Tear, Appending
<1>2. tears \in Nat /\ tears' \in Nat /\ tears' # 0 /\ (~behind' => tears = 0)
  <2>1. tears \in Nat
    BY DEF LInv
  <2>2. tears' \in Nat /\ tears' # 0
    BY <1>1, <2>1
  <2>3. ~behind' => tears = 0
    BY <1>1, BehindTears
  <2> QED BY <2>1, <2>2, <2>3
<1>3. acknowledged \in Seq(Logged)
  BY DEF LInv
<1>4. ASSUME ~behind'
      PROVE  LogIsScripted'
  <2>1. tears = 0 /\ stream = StreamBytes(Sent(acknowledged)) /\ applied = acknowledged
    BY <1>1, <1>2, <1>4 DEF LInv, LogIsScripted
  <2>2. PICK request \in Requests : request = Cstrs(cmd)
    BY LoggedComesBack
  <2>3. n \in Nat /\ 1 <= n /\ n < Len(RequestBytes(request))
    <3>1. Len(RequestBytes(request)) \in Nat
      BY RequestType, LenProperties
    <3>2. n \in 1 .. Len(RequestBytes(request)) - 1
      BY <1>1, <2>2 DEF ToBytes
    <3> QED BY <3>1, <3>2
  <2>4. PICK s : s = TornScriptOf(acknowledged, request, n)
    OBVIOUS
  <2>5. /\ IsScript(s) /\ s.sent = Sent(acknowledged)
        /\ s.verdict = Failed("UnexpectedEof")
        /\ TailBytes(s) = SubSeq(RequestBytes(request), 1, n)
    BY <1>3, <2>3, <2>4, TornIsScript
  <2>6. script' = s
    BY <1>1, <2>1, <2>2, <2>4
  <2>7. Sent(acknowledged)' = Sent(acknowledged)
    BY <1>1 DEF Sent
  <2>8. IsScript(script') /\ stream' = StreamBytes(script'.sent) \o TailBytes(script')
    BY <1>1, <2>1, <2>2, <2>5, <2>6 DEF ToBytes
  <2>9. script'.sent = Sent(acknowledged)'
    BY <2>5, <2>6, <2>7
  <2>10. script'.verdict = IF tears' = 0 THEN EndOfInput ELSE Failed("UnexpectedEof")
    BY <1>2, <2>5, <2>6
  <2>11. applied' = acknowledged' /\ phase' # "restoring" /\ phase' # "failed"
    BY <1>1, <2>1
  <2> QED BY <1>2, <2>8, <2>9, <2>10, <2>11 DEF LogIsScripted
<1>5. acknowledged' \in Seq(Logged)
  BY <1>1, <1>3
<1> QED BY <1>2, <1>4, <1>5 DEF LInv

LEMMA KillKeeps ==
    ASSUME LInv, Kill
    PROVE  LInv'
<1>1. phase' = "down" /\ UNCHANGED <<script, stream, acknowledged, tears, behind>>
  BY DEF Kill, log
<1> QED BY <1>1, SameLog

\* A new process reads the file from its start, with nothing applied.
LEMMA StartKeeps ==
    ASSUME LInv, Start
    PROVE  LInv'
<1>1. /\ phase' = "restoring" /\ applied' = <<>> /\ NewReader
      /\ UNCHANGED <<script, stream, acknowledged, tears, behind>>
  BY DEF Start, log
<1>2. ASSUME ~behind
      PROVE  Replaying'
  <2>1. /\ acknowledged \in Seq(Logged)
        /\ IsScript(script)
        /\ stream = StreamBytes(script.sent) \o TailBytes(script)
    BY <1>2 DEF LInv, LogIsScripted
  <2>2. /\ IsScript(script')
        /\ stream' = StreamBytes(script'.sent) \o TailBytes(script')
    BY <1>1, <2>1
  <2>3. Fresh'
    BY <1>1, <2>2 DEF Fresh, NewReader
  <2>4. IInv' /\ Delivered' = <<>>
    <3>1. (Fresh => IInv /\ Delivered = <<>>)'
      BY FreshInv, PTL
    <3> QED BY <2>3, <3>1
  <2>5. Sent(<<>>) = <<>>
    BY DEF Sent
  <2>6. Delivered' = Sent(applied)'
    <3>1. Sent(applied)' = Sent(<<>>)
      BY <1>1 DEF Sent
    <3> QED BY <2>4, <2>5, <3>1
  <2>7. applied' \in Seq(Logged) /\ Begins(applied', acknowledged')
    BY <1>1, <2>1, BeginsEmpty
  <2>8. pc' # "returned"
    BY <1>1 DEF NewReader
  <2> QED BY <2>4, <2>6, <2>7, <2>8 DEF Replaying
<1> QED BY <1>1, <1>2, SameLog

LEMMA LogIdleKeeps ==
    ASSUME LInv, UNCHANGED logVars
    PROVE  LInv'
<1>1. /\ UNCHANGED <<script, stream, acknowledged, tears, behind, phase, applied>>
      /\ UNCHANGED <<pos, decoder, pc, results>>
  BY DEF logVars, log, reader
<1>2. ASSUME phase = "restoring", ~behind
      PROVE  Replaying'
  <2>1. Replaying
    BY <1>2 DEF LInv, LogIsScripted
  <2>2. UNCHANGED <<poisoned, expected_arg_count, args, cursor, buffer>>
    BY <1>1 DEF decoder
  <2>3. ArrayHeader' = ArrayHeader /\ CStr' = CStr
    BY <2>2 DEF ArrayHeader, CStr
  <2>4. Waits'
    BY <1>1, <2>1, <2>2, <2>3 DEF Replaying, IInv, Waits
  <2>5. IInv'
    BY <1>1, <2>1, <2>4, PcKeeps DEF Replaying, IInv
  <2>6. Delivered' = Delivered /\ LastResult' = LastResult
    BY <1>1 DEF Delivered, LastResult
  <2>7. Sent(applied)' = Sent(applied)
    BY <1>1 DEF Sent
  <2> QED BY <1>1, <2>1, <2>5, <2>6, <2>7 DEF Replaying
<1>3. phase \in {"serving", "down", "restoring", "failed"}
  BY DEF LInv
<1>4. ~behind => /\ phase = "failed" => tears # 0 \/ LastResult' = Failed("Io")
                 /\ phase = "serving" => applied = acknowledged
  BY <1>1 DEF LInv, LogIsScripted, LastResult
<1> QED BY <1>1, <1>2, <1>3, <1>4, SameLog

LEMMA LogInitInv == LogInit => LInv
<1> SUFFICES ASSUME LogInit PROVE LInv
  OBVIOUS
<1>1. /\ script = ScriptOf(<<>>) /\ stream = <<>> /\ phase = "serving"
      /\ applied = <<>> /\ acknowledged = <<>> /\ tears = 0 /\ behind = FALSE
  BY DEF LogInit
<1>2. Sent(<<>>) = <<>>
  BY DEF Sent
<1>3. stream = StreamBytes(Sent(acknowledged))
  BY <1>1, <1>2, StreamEmpty
<1>4. acknowledged \in Seq(Logged)
  BY <1>1
<1>5. /\ IsScript(script) /\ script.sent = Sent(acknowledged)
      /\ script.verdict = EndOfInput
      /\ StreamBytes(Sent(acknowledged)) = StreamBytes(script.sent) \o TailBytes(script)
  <2>1. script = ScriptOf(acknowledged)
    BY <1>1
  <2> QED BY <1>4, <2>1, LogIsScript
<1> QED BY <1>1, <1>3, <1>4, <1>5 DEF LInv, LogIsScripted

LEMMA LogNextInv == LInv /\ [LogNext]_logVars => LInv'
<1> SUFFICES ASSUME LInv, [LogNext]_logVars PROVE LInv'
  OBVIOUS
<1>1. ASSUME NEW cmd \in Logged, LogCommand(cmd)
      PROVE  LInv'
  BY <1>1, LogCommandKeeps
<1>2. ASSUME NEW cmd \in Logged, NEW n, AppendFails(cmd, n)
      PROVE  LInv'
  <2>1. Tear(cmd, n) /\ phase' = "serving"
    BY <1>2 DEF AppendFails, Tear, Appending
  <2> QED BY <2>1, TearKeeps
<1>3. ASSUME NEW cmd \in Logged, NEW n, KillInAppend(cmd, n)
      PROVE  LInv'
  <2>1. Tear(cmd, n) /\ phase' = "down"
    BY <1>3 DEF KillInAppend
  <2> QED BY <2>1, TearKeeps
<1>4. CASE Kill
  BY <1>4, KillKeeps
<1>5. CASE Start
  BY <1>5, StartKeeps
<1>6. CASE ReadNext
  BY <1>6, ReadNextKeeps
<1>7. CASE ReplayRequest
  BY <1>7, ReplayRequestKeeps
<1>8. CASE ReplayFails
  BY <1>8, ReplayFailsKeeps
<1>9. CASE ReplayDone
  BY <1>9, ReplayDoneKeeps
<1>10. CASE UNCHANGED logVars
  BY <1>10, LogIdleKeeps
<1> QED BY <1>1, <1>2, <1>3, <1>4, <1>5, <1>6, <1>7, <1>8, <1>9, <1>10 DEF LogNext

-----------------------------------------------------------------------------
(* The theorems.                                                             *)

(* The inductive invariant holds: as long as nothing is behind a torn record, *)
(* the file is the acknowledged commands' bytes and perhaps a part of one     *)
(* more, and a replay stands between two records (append, from_wal,           *)
(* restore_keystore).                                                         *)
THEOREM LogInvariance == LogSpec => []LInv
<1> QED BY LogInitInv, LogNextInv, PTL DEF LogSpec

(* As long as nothing is behind a torn record, a serving process has the      *)
(* acknowledged commands, all and in their order, however often it was killed *)
(* and restored (append, from_wal, restore_keystore, try_from).               *)
THEOREM WholeLogReplayed == LogSpec => [](~behind => AppliedIsAcknowledged)
<1>1. LInv => (~behind => AppliedIsAcknowledged)
  BY DEF LInv, LogIsScripted, AppliedIsAcknowledged
<1> QED BY <1>1, LogInvariance, PTL

(* A server is kept from starting by a torn record or by a read that fails,   *)
(* and by nothing that it has logged whole (from_wal, restore_keystore).      *)
THEOREM WholeLogAccepted == LogSpec => []RefusedForAReason
<1>1. LInv => RefusedForAReason
  <2>1. LInv => (tears = 0 => ~behind)
    BY DEF LInv
  <2>2. LInv => (~behind => RefusedForAReason)
    BY DEF LInv, LogIsScripted, RefusedForAReason
  <2>3. tears # 0 => RefusedForAReason
    BY DEF RefusedForAReason
  <2> QED BY <2>1, <2>2, <2>3
<1> QED BY <1>1, LogInvariance, PTL

(* A log that ends in a torn record is refused at every start, wherever the   *)
(* record was torn and whatever its arguments (validate_eof,                  *)
(* restore_keystore).                                                         *)
THEOREM TornTailIsRefused == LogSpec => TornTailRefused
<1>1. LInv /\ [LogNext]_logVars =>
          [phase = "restoring" /\ phase' = "serving" => tears = 0 \/ behind]_logVars
  <2> SUFFICES ASSUME LInv, LogNext, phase = "restoring", phase' = "serving"
               PROVE  tears = 0 \/ behind
    OBVIOUS
  <2>1. ReplayDone
    BY DEF LogNext, LogCommand, AppendFails, KillInAppend, Tear, Appending, Kill,
           Start, ReadNext, ReplayRequest, ReplayFails
  <2> QED BY <2>1, DoneMeansWhole
<1> QED BY <1>1, LogInvariance, PTL DEF LogSpec, TornTailRefused
=============================================================================
