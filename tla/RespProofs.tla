----------------------------- MODULE RespProofs -----------------------------
(* Lemmas about the bytes of the protocol: numbers come back from their      *)
(* decimal digits, a line is found where it ends and nowhere else, and the   *)
(* order in which lines are put together does not matter.                    *)
EXTENDS Resp, TLAPS, NaturalsInduction, WellFoundedInduction, SequenceTheorems

-----------------------------------------------------------------------------
(* Induction and recursion over natural numbers, for sets and functions.     *)

LEMMA Least ==
    ASSUME NEW S, S \subseteq Nat, S # {}
    PROVE  \E m \in S : \A k \in S : m <= k
<1> DEFINE R == OpToRel(<, Nat)
<1>1. IsWellFoundedOn(R, Nat)
  BY NatLessThanWellFounded
<1> HIDE DEF R
<1>2. PICK m \in S : \A k \in S : ~ (<<k, m>> \in R)
  BY <1>1, WFMin
<1>3. \A k \in S : ~(k < m)
  BY <1>2 DEF R, OpToRel
<1> QED BY <1>3

LEMMA Counting ==
    ASSUME NEW S, 0 \in S, \A n \in Nat : n \in S => n + 1 \in S
    PROVE  Nat \subseteq S
<1> SUFFICES ASSUME NEW n \in Nat \ S PROVE FALSE
  OBVIOUS
<1>1. PICK m \in Nat \ S : \A k \in Nat \ S : m <= k
  BY Least
<1>2. m - 1 \in Nat /\ m - 1 \in S
  BY <1>1
<1> QED BY <1>1, <1>2

\* f starts with base, and each value is made of the one before it.
Unrolls(f, base, step, n) ==
    /\ f[0] = base
    /\ \A i \in 1 .. n : f[i] = step[i][f[i - 1]]

\* A recursion over 0 .. n has a function that unrolls it.
LEMMA UnrollsExists ==
    ASSUME NEW T, NEW base \in T, NEW n \in Nat, NEW step \in [1 .. n -> [T -> T]]
    PROVE  \E f \in [0 .. n -> T] : Unrolls(f, base, step, n)
<1> DEFINE S == {m \in Nat : m <= n => \E f \in [0 .. m -> T] : Unrolls(f, base, step, m)}
<1>1. 0 \in S
  <2> DEFINE f == [i \in 0 .. 0 |-> base]
  <2>1. f \in [0 .. 0 -> T] /\ Unrolls(f, base, step, 0)
    BY DEF Unrolls
  <2> QED BY <2>1
<1>2. ASSUME NEW m \in Nat, m \in S
      PROVE  m + 1 \in S
  <2> SUFFICES ASSUME m + 1 <= n
               PROVE  \E f \in [0 .. m + 1 -> T] : Unrolls(f, base, step, m + 1)
    OBVIOUS
  <2>1. PICK f \in [0 .. m -> T] : Unrolls(f, base, step, m)
    BY <1>2
  <2> DEFINE next == step[m + 1][f[m]]
             g == [i \in 0 .. m + 1 |-> IF i = m + 1 THEN next ELSE f[i]]
  <2>2. step[m + 1] \in [T -> T]
    OBVIOUS
  <2>3. f[m] \in T
    OBVIOUS
  <2>4. next \in T
    BY <2>2, <2>3
  <2> HIDE DEF next
  <2>5. g \in [0 .. m + 1 -> T]
    BY <2>4
  <2>6. g[0] = base /\ g[m + 1] = next /\ \A i \in 0 .. m : g[i] = f[i]
    BY <2>1 DEF Unrolls
  <2>7. ASSUME NEW i \in 1 .. m + 1
        PROVE  g[i] = step[i][g[i - 1]]
    <3>1. CASE i = m + 1
      <4>1. g[i - 1] = f[m]
        BY <2>6, <3>1
      <4> QED BY <2>6, <3>1, <4>1 DEF next
    <3>2. CASE i # m + 1
      <4>1. g[i] = f[i] /\ g[i - 1] = f[i - 1] /\ i \in 1 .. m
        BY <2>6, <3>2
      <4> QED BY <2>1, <4>1 DEF Unrolls
    <3> QED BY <3>1, <3>2
  <2> HIDE DEF g
  <2>8. Unrolls(g, base, step, m + 1)
    BY <2>6, <2>7 DEF Unrolls
  <2> QED BY <2>5, <2>8
<1> HIDE DEF S
<1>3. n \in S
  BY <1>1, <1>2, Counting
<1> QED BY <1>3 DEF S

-----------------------------------------------------------------------------
(* Numbers in decimal.                                                       *)

Steps(bytes) == [i \in 1 .. Len(bytes) |-> [v \in Int |-> 10 * v + (bytes[i] - 48)]]

LEMMA StepsAt ==
    ASSUME NEW bytes \in Seq(Int), NEW i \in 1 .. Len(bytes), NEW v \in Int
    PROVE  Steps(bytes)[i][v] = 10 * v + (bytes[i] - 48)
BY DEF Steps

\* DecimalValue, digit by digit.
LEMMA ValueUnrolls ==
    ASSUME NEW bytes \in Seq(Int)
    PROVE  \E value \in [0 .. Len(bytes) -> Int] :
               /\ Unrolls(value, 0, Steps(bytes), Len(bytes))
               /\ DecimalValue(bytes) = value[Len(bytes)]
<1>1. PICK n \in Nat : n = Len(bytes)
  BY LenProperties
<1> DEFINE Is(f) == f = [i \in 0 .. n |-> IF i = 0 THEN 0
                                          ELSE 10 * f[i - 1] + (bytes[i] - 48)]
           chosen == CHOOSE f : Is(f)
<1>2. \A i \in 1 .. n : bytes[i] \in Int
  BY <1>1, ElementOfSeq
<1>3. Steps(bytes) \in [1 .. n -> [Int -> Int]]
  BY <1>1, <1>2 DEF Steps
<1>4. PICK f \in [0 .. n -> Int] : Unrolls(f, 0, Steps(bytes), n)
  <2>1. 0 \in Int
    OBVIOUS
  <2> QED BY <1>3, <2>1, UnrollsExists, Zenon
<1>5. \A i \in 1 .. n : f[i] = 10 * f[i - 1] + (bytes[i] - 48)
  <2> SUFFICES ASSUME NEW i \in 1 .. n
               PROVE  f[i] = 10 * f[i - 1] + (bytes[i] - 48)
    OBVIOUS
  <2>1. f[i - 1] \in Int
    OBVIOUS
  <2>2. f[i] = Steps(bytes)[i][f[i - 1]]
    BY <1>4 DEF Unrolls
  <2> QED BY <1>1, <2>1, <2>2, StepsAt
<1>6. f[0] = 0
  BY <1>4 DEF Unrolls
<1>7. Is(f)
  BY <1>5, <1>6
<1>8. Is(chosen)
  BY <1>7
<1>9. DecimalValue(bytes) = chosen[n]
  BY <1>1 DEF DecimalValue
<1> HIDE DEF chosen
<1>10. chosen = f
  <2> DEFINE S == {i \in Nat : i <= n => chosen[i] = f[i]}
  <2>1. 0 \in S
    BY <1>6, <1>8
  <2>2. ASSUME NEW i \in Nat, i \in S
        PROVE  i + 1 \in S
    <3> SUFFICES ASSUME i + 1 <= n PROVE chosen[i + 1] = f[i + 1]
      OBVIOUS
    <3>1. chosen[i] = f[i] /\ i + 1 \in 1 .. n /\ (i + 1) - 1 = i
      BY <2>2
    <3>2. chosen[i + 1] = 10 * chosen[i] + (bytes[i + 1] - 48)
      BY <1>8, <3>1
    <3>3. f[i + 1] = 10 * f[i] + (bytes[i + 1] - 48)
      BY <1>5, <3>1
    <3> QED BY <3>1, <3>2, <3>3
  <2> HIDE DEF S
  <2>3. Nat \subseteq S
    BY <2>1, <2>2, Counting
  <2>4. \A i \in 0 .. n : chosen[i] = f[i]
    BY <2>3 DEF S
  <2> QED BY <1>8, <2>4
<1> QED BY <1>1, <1>4, <1>9, <1>10

(* One digit more. *)
LEMMA ValueOfAppend ==
    ASSUME NEW bytes \in Seq(Int), NEW d \in Int
    PROVE  DecimalValue(Append(bytes, d)) = 10 * DecimalValue(bytes) + (d - 48)
<1>1. PICK n \in Nat : n = Len(bytes)
  BY LenProperties
<1>2. PICK longer \in Seq(Int) : longer = Append(bytes, d)
  BY AppendProperties
<1>3. Len(longer) = n + 1 /\ longer[n + 1] = d /\ \A i \in 1 .. n : longer[i] = bytes[i]
  BY <1>1, <1>2, AppendProperties
<1>4. PICK f \in [0 .. n -> Int] :
          Unrolls(f, 0, Steps(bytes), n) /\ DecimalValue(bytes) = f[n]
  BY <1>1, ValueUnrolls
<1>5. PICK g \in [0 .. n + 1 -> Int] :
          Unrolls(g, 0, Steps(longer), n + 1) /\ DecimalValue(longer) = g[n + 1]
  BY <1>3, ValueUnrolls
<1>6. \A i \in 1 .. n : f[i] = 10 * f[i - 1] + (bytes[i] - 48)
  <2> SUFFICES ASSUME NEW i \in 1 .. n
               PROVE  f[i] = 10 * f[i - 1] + (bytes[i] - 48)
    OBVIOUS
  <2>1. f[i - 1] \in Int /\ f[i] = Steps(bytes)[i][f[i - 1]]
    BY <1>4 DEF Unrolls
  <2> QED BY <1>1, <2>1, StepsAt
<1>7. \A i \in 1 .. n + 1 : g[i] = 10 * g[i - 1] + (longer[i] - 48)
  <2> SUFFICES ASSUME NEW i \in 1 .. n + 1
               PROVE  g[i] = 10 * g[i - 1] + (longer[i] - 48)
    OBVIOUS
  <2>1. g[i - 1] \in Int /\ g[i] = Steps(longer)[i][g[i - 1]]
    BY <1>5 DEF Unrolls
  <2> QED BY <1>3, <2>1, StepsAt
<1>8. f[0] = 0 /\ g[0] = 0
  BY <1>4, <1>5 DEF Unrolls
<1> DEFINE S == {i \in Nat : i <= n => f[i] = g[i]}
<1>9. 0 \in S
  BY <1>8
<1>10. ASSUME NEW i \in Nat, i \in S
       PROVE  i + 1 \in S
  <2> SUFFICES ASSUME i + 1 <= n PROVE f[i + 1] = g[i + 1]
    OBVIOUS
  <2>1. f[i] = g[i] /\ i + 1 \in 1 .. n /\ i + 1 \in 1 .. n + 1 /\ (i + 1) - 1 = i
    BY <1>10
  <2>2. longer[i + 1] = bytes[i + 1]
    BY <1>3, <2>1
  <2>3. f[i + 1] = 10 * f[i] + (bytes[i + 1] - 48)
    BY <1>6, <2>1
  <2>4. g[i + 1] = 10 * g[i] + (longer[i + 1] - 48)
    BY <1>7, <2>1
  <2> QED BY <2>1, <2>2, <2>3, <2>4
<1> HIDE DEF S
<1>11. f[n] = g[n]
  <2>1. Nat \subseteq S
    BY <1>9, <1>10, Counting
  <2> QED BY <2>1 DEF S
<1>12. g[n + 1] = 10 * g[n] + (d - 48)
  BY <1>3, <1>7
<1> QED BY <1>2, <1>4, <1>5, <1>11, <1>12

LEMMA ValueOfDigit ==
    ASSUME NEW d \in Int
    PROVE  DecimalValue(<<d>>) = d - 48
<1>1. /\ <<>> \in Seq(Int) /\ Len(<<>>) = 0
      /\ Append(<<>>, d) = <<d>>
  OBVIOUS
<1>2. PICK f \in [0 .. 0 -> Int] :
          Unrolls(f, 0, Steps(<<>>), 0) /\ DecimalValue(<<>>) = f[0]
  BY <1>1, ValueUnrolls
<1>3. DecimalValue(<<>>) = 0
  BY <1>2 DEF Unrolls
<1>4. DecimalValue(Append(<<>>, d)) = 10 * 0 + (d - 48)
  BY <1>1, <1>3, ValueOfAppend
<1> QED BY <1>1, <1>4

LEMMA TenthSmaller ==
    ASSUME NEW n \in Nat
    PROVE  /\ n \div 10 \in Nat /\ n % 10 \in 0 .. 9
           /\ n = 10 * (n \div 10) + (n % 10)
           /\ n >= 10 => n \div 10 < n
OBVIOUS

\* What Decimal says of a table of the numbers up to m.
Spells(f, m) ==
    \A n \in 0 .. m :
        f[n] = IF n < 10 THEN <<48 + n>> ELSE Append(f[n \div 10], 48 + (n % 10))

LEMMA SpellsExists == \A m \in Nat : \E f : Spells(f, m)
<1> DEFINE S == {m \in Nat : \E f : Spells(f, m)}
<1>1. 0 \in S
  <2>1. Spells([n \in 0 .. 0 |-> <<48>>], 0)
    BY DEF Spells
  <2> QED BY <2>1
<1>2. ASSUME NEW m \in Nat, m \in S
      PROVE  m + 1 \in S
  <2>1. PICK f : Spells(f, m)
    BY <1>2
  <2> DEFINE next == IF m + 1 < 10 THEN <<48 + (m + 1)>>
                     ELSE Append(f[(m + 1) \div 10], 48 + ((m + 1) % 10))
  <2> HIDE DEF next
  <2> DEFINE g == [n \in 0 .. m + 1 |-> IF n = m + 1 THEN next ELSE f[n]]
  <2>2. g[m + 1] = next /\ \A n \in 0 .. m : g[n] = f[n]
    OBVIOUS
  <2> HIDE DEF g
  <2>3. ASSUME NEW n \in 0 .. m + 1
        PROVE  g[n] = IF n < 10 THEN <<48 + n>> ELSE Append(g[n \div 10], 48 + (n % 10))
    <3>1. n >= 10 => g[n \div 10] = f[n \div 10]
      <4> SUFFICES ASSUME n >= 10 PROVE n \div 10 \in 0 .. m
        BY <2>2
      <4> QED BY TenthSmaller
    <3>2. CASE n = m + 1
      BY <2>2, <3>1, <3>2 DEF next
    <3>3. CASE n # m + 1
      <4>1. n \in 0 .. m
        BY <3>3
      <4>2. f[n] = IF n < 10 THEN <<48 + n>> ELSE Append(f[n \div 10], 48 + (n % 10))
        BY <2>1, <4>1 DEF Spells
      <4> QED BY <2>2, <3>1, <4>1, <4>2
    <3> QED BY <3>2, <3>3
  <2>4. Spells(g, m + 1)
    BY <2>3 DEF Spells
  <2> QED BY <2>4
<1> HIDE DEF S
<1>3. Nat \subseteq S
  BY <1>1, <1>2, Counting
<1> QED BY <1>3 DEF S

\* A number's digits are those of its tenth and one more.
LEMMA DecimalUnfolds ==
    \A n \in Nat : Decimal[n] = IF n < 10 THEN <<48 + n>>
                                ELSE Append(Decimal[n \div 10], 48 + (n % 10))
<1> DEFINE Table(m) == CHOOSE f : Spells(f, m)
           Is(d) == d = [n \in Nat |-> IF n < 10 THEN <<48 + n>>
                                       ELSE Append(d[n \div 10], 48 + (n % 10))]
           G == [n \in Nat |-> Table(n)[n]]
<1>1. \A m \in Nat : Spells(Table(m), m)
  BY SpellsExists
<1> HIDE DEF Table
<1>2. \A n \in Nat, m \in Nat : n <= m => Table(m)[n] = Table(n)[n]
  <2> DEFINE S == {n \in Nat : \E m \in Nat : n <= m /\ Table(m)[n] # Table(n)[n]}
  <2> SUFFICES ASSUME S # {} PROVE FALSE
    OBVIOUS
  <2>1. PICK n \in S : \A k \in S : n <= k
    BY Least
  <2>2. PICK m \in Nat : n <= m /\ Table(m)[n] # Table(n)[n]
    OBVIOUS
  <2>3. n \in Nat
    OBVIOUS
  <2>4. \A t \in {m, n} :
            Table(t)[n] = IF n < 10 THEN <<48 + n>>
                          ELSE Append(Table(t)[n \div 10], 48 + (n % 10))
    <3> SUFFICES ASSUME NEW t \in {m, n}
                 PROVE  Table(t)[n] = IF n < 10 THEN <<48 + n>>
                                      ELSE Append(Table(t)[n \div 10], 48 + (n % 10))
      OBVIOUS
    <3>1. n \in 0 .. t /\ t \in Nat
      BY <2>2, <2>3
    <3>2. Spells(Table(t), t)
      BY <1>1, <3>1
    <3> QED BY <3>1, <3>2 DEF Spells
  <2>5. CASE n < 10
    <3>1. Table(m)[n] = <<48 + n>> /\ Table(n)[n] = <<48 + n>>
      BY <2>4, <2>5
    <3> QED BY <2>2, <3>1
  <2>6. CASE n >= 10
    <3>1. PICK k \in Nat : k = n \div 10
      BY <2>3, TenthSmaller
    <3>2. k < n
      BY <2>3, <2>6, <3>1, TenthSmaller
    <3>3. k \notin S
      BY <2>1, <2>3, <3>2
    <3>4. Table(m)[k] = Table(k)[k] /\ Table(n)[k] = Table(k)[k]
      BY <2>2, <2>3, <3>2, <3>3
    <3>5. \A t \in {m, n} : Table(t)[n] = Append(Table(t)[k], 48 + (n % 10))
      <4>1. ~(n < 10)
        BY <2>3, <2>6
      <4> QED BY <2>4, <3>1, <4>1
    <3> QED BY <2>2, <3>4, <3>5
  <2> QED BY <2>3, <2>5, <2>6
<1>3. ASSUME NEW n \in Nat
      PROVE  G[n] = IF n < 10 THEN <<48 + n>> ELSE Append(G[n \div 10], 48 + (n % 10))
  <2>1. Table(n)[n] = IF n < 10 THEN <<48 + n>>
                      ELSE Append(Table(n)[n \div 10], 48 + (n % 10))
    BY <1>1 DEF Spells
  <2>2. n >= 10 => Table(n)[n \div 10] = G[n \div 10]
    BY <1>2, TenthSmaller
  <2>3. G[n] = Table(n)[n]
    OBVIOUS
  <2> HIDE DEF G
  <2> QED BY <2>1, <2>2, <2>3
<1>4. Is(G)
  <2> DEFINE H == [n \in Nat |-> IF n < 10 THEN <<48 + n>>
                                 ELSE Append(G[n \div 10], 48 + (n % 10))]
  <2>1. \A n \in Nat : G[n] = H[n]
    BY <1>3
  <2>2. G = [n \in Nat |-> G[n]]
    OBVIOUS
  <2>3. H = [n \in Nat |-> H[n]]
    OBVIOUS
  <2> HIDE DEF G, H
  <2>4. G = H
    BY <2>1, <2>2, <2>3
  <2> QED BY <2>4 DEF H
<1> HIDE DEF G, Is
<1>5. Is(CHOOSE d : Is(d))
  BY <1>4
<1>6. Decimal = CHOOSE d : Is(d)
  BY DEF Decimal, Is
<1>7. Is(Decimal)
  BY <1>5, <1>6
<1> QED
  <2> DEFINE H == [n \in Nat |-> IF n < 10 THEN <<48 + n>>
                                 ELSE Append(Decimal[n \div 10], 48 + (n % 10))]
  <2>1. Decimal = H
    BY <1>7 DEF Is
  <2>2. \A n \in Nat : H[n] = IF n < 10 THEN <<48 + n>>
                              ELSE Append(Decimal[n \div 10], 48 + (n % 10))
    OBVIOUS
  <2> HIDE DEF H
  <2> QED BY <2>1, <2>2

(* What to_string writes of a number, parse reads as that number. *)
LEMMA DecimalReads ==
    ASSUME NEW n \in Nat
    PROVE  /\ Decimal[n] \in Seq(Digit)
           /\ Decimal[n] # <<>>
           /\ DecimalValue(Decimal[n]) = n
<1> DEFINE Reads(m) == /\ Decimal[m] \in Seq(Digit)
                       /\ Decimal[m] # <<>>
                       /\ DecimalValue(Decimal[m]) = m
           S == {m \in Nat : ~Reads(m)}
<1> SUFFICES S = {}
  OBVIOUS
<1> SUFFICES ASSUME S # {} PROVE FALSE
  OBVIOUS
<1>1. PICK m \in S : \A k \in S : m <= k
  BY Least
<1>2. m \in Nat /\ ~Reads(m)
  OBVIOUS
<1>3. CASE m < 10
  <2>1. Decimal[m] = <<48 + m>>
    BY <1>2, <1>3, DecimalUnfolds
  <2>2. 48 + m \in Digit /\ 48 + m \in Int
    BY <1>2, <1>3 DEF Digit
  <2>3. DecimalValue(<<48 + m>>) = m
    BY <1>2, <2>2, ValueOfDigit
  <2> QED BY <1>2, <2>1, <2>2, <2>3
<1>4. CASE m >= 10
  <2>1. PICK k \in Nat, d \in 0 .. 9 : k = m \div 10 /\ d = m % 10
    BY <1>2, TenthSmaller
  <2>2. k < m /\ m = 10 * k + d
    BY <1>2, <1>4, <2>1, TenthSmaller
  <2>3. Reads(k)
    BY <1>1, <1>2, <2>2
  <2>4. Decimal[m] = Append(Decimal[k], 48 + d)
    <3>1. Decimal[m] = IF m < 10 THEN <<48 + m>>
                       ELSE Append(Decimal[m \div 10], 48 + (m % 10))
      BY <1>2, DecimalUnfolds
    <3>2. ~(m < 10)
      BY <1>2, <1>4
    <3> QED BY <2>1, <3>1, <3>2
  <2>5. 48 + d \in Digit /\ 48 + d \in Int
    BY DEF Digit
  <2>6. Decimal[k] \in Seq(Int)
    BY <2>3, SeqMonotonic DEF Digit
  <2>7. DecimalValue(Append(Decimal[k], 48 + d)) = 10 * k + ((48 + d) - 48)
    BY <2>3, <2>5, <2>6, ValueOfAppend
  <2>8. 10 * k + ((48 + d) - 48) = m
    BY <2>2
  <2>9. Append(Decimal[k], 48 + d) \in Seq(Digit) /\ Append(Decimal[k], 48 + d) # <<>>
    BY <2>3, <2>5, AppendProperties
  <2> QED BY <1>2, <2>4, <2>7, <2>8, <2>9
<1> QED BY <1>2, <1>3, <1>4

-----------------------------------------------------------------------------
(* Sequences put together.                                                   *)

Joins(f, seqs, n) ==
    /\ n >= 1 => f[1] = seqs[1]
    /\ \A i \in 2 .. n : f[i] = f[i - 1] \o seqs[i]

LEMMA JoinsOnce ==
    ASSUME NEW f, NEW g, NEW seqs, NEW n \in Nat, Joins(f, seqs, n), Joins(g, seqs, n)
    PROVE  \A i \in 1 .. n : f[i] = g[i]
<1> DEFINE S == {i \in Nat : i + 1 <= n => f[i + 1] = g[i + 1]}
<1>1. 0 \in S
  BY DEF Joins
<1>2. ASSUME NEW i \in Nat, i \in S
      PROVE  i + 1 \in S
  <2> SUFFICES ASSUME (i + 1) + 1 <= n PROVE f[(i + 1) + 1] = g[(i + 1) + 1]
    OBVIOUS
  <2>1. PICK k \in 2 .. n : k = (i + 1) + 1
    OBVIOUS
  <2>2. f[k - 1] = g[k - 1]
    BY <1>2, <2>1
  <2>3. f[k] = f[k - 1] \o seqs[k] /\ g[k] = g[k - 1] \o seqs[k]
    BY DEF Joins
  <2> QED BY <2>1, <2>2, <2>3
<1> HIDE DEF S
<1>3. Nat \subseteq S
  BY <1>1, <1>2, Counting
<1> SUFFICES ASSUME NEW i \in 1 .. n PROVE f[i] = g[i]
  OBVIOUS
<1>4. i - 1 \in S /\ (i - 1) + 1 = i /\ i <= n
  BY <1>3
<1> QED BY <1>4 DEF S

\* FlattenSeq is the recursion Joins describes.
LEMMA FlattenJoins ==
    ASSUME NEW T, NEW seqs \in Seq(Seq(T)), seqs # <<>>
    PROVE  \E f \in [1 .. Len(seqs) -> Seq(T)] :
               Joins(f, seqs, Len(seqs)) /\ FlattenSeq(seqs) = f[Len(seqs)]
<1>1. PICK n \in Nat : n = Len(seqs)
  BY LenProperties
<1>2. \A i \in 1 .. n : seqs[i] \in Seq(T)
  BY <1>1, ElementOfSeq
<1> DEFINE step == [i \in 1 .. n |-> [x \in Seq(T) |-> x \o seqs[i]]]
           Is(f) == f = [i \in 1 .. n |-> IF i = 1 THEN seqs[i] ELSE f[i - 1] \o seqs[i]]
           chosen == CHOOSE f : Is(f)
<1>3. step \in [1 .. n -> [Seq(T) -> Seq(T)]]
  <2> SUFFICES ASSUME NEW i \in 1 .. n, NEW x \in Seq(T)
               PROVE  x \o seqs[i] \in Seq(T)
    OBVIOUS
  <2> QED BY <1>2, ConcatProperties
<1>4. <<>> \in Seq(T)
  OBVIOUS
<1>5. \A i \in 1 .. n, x \in Seq(T) : step[i][x] = x \o seqs[i]
  OBVIOUS
<1> HIDE DEF step, Is, chosen
<1>6. PICK u \in [0 .. n -> Seq(T)] : Unrolls(u, <<>>, step, n)
  BY <1>3, <1>4, UnrollsExists, Zenon
<1>7. u[0] = <<>> /\ \A i \in 1 .. n : u[i] = u[i - 1] \o seqs[i]
  <2>1. u[0] = <<>>
    BY <1>6 DEF Unrolls
  <2>2. ASSUME NEW i \in 1 .. n
        PROVE  u[i] = u[i - 1] \o seqs[i]
    <3>1. u[i - 1] \in Seq(T) /\ u[i] = step[i][u[i - 1]]
      BY <1>6 DEF Unrolls
    <3> QED BY <1>5, <3>1
  <2> QED BY <2>1, <2>2
<1> DEFINE f == [i \in 1 .. n |-> u[i]]
<1>8. f \in [1 .. n -> Seq(T)] /\ \A i \in 1 .. n : f[i] = u[i]
  OBVIOUS
<1> HIDE DEF f
<1>9. ASSUME NEW i \in 1 .. n
      PROVE  f[i] = IF i = 1 THEN seqs[i] ELSE f[i - 1] \o seqs[i]
  <2>1. CASE i = 1
    <3>1. u[i] = u[i - 1] \o seqs[i] /\ u[i - 1] = <<>>
      <4>1. u[i] = u[i - 1] \o seqs[i]
        BY <1>7
      <4>2. i - 1 = 0
        BY <2>1
      <4> QED BY <1>7, <4>1, <4>2
    <3>2. <<>> \o seqs[i] = seqs[i]
      BY <1>2, ConcatEmptySeq
    <3> QED BY <1>8, <2>1, <3>1, <3>2
  <2>2. CASE i # 1
    <3>1. i - 1 \in 1 .. n
      BY <2>2
    <3> QED BY <1>7, <1>8, <2>2, <3>1
  <2> QED BY <2>1, <2>2
<1>10. Is(f)
  <2> DEFINE h == [i \in 1 .. n |-> IF i = 1 THEN seqs[i] ELSE f[i - 1] \o seqs[i]]
  <2>1. \A i \in 1 .. n : f[i] = h[i]
    BY <1>9
  <2>2. f = [i \in 1 .. n |-> f[i]]
    BY <1>8
  <2>3. h = [i \in 1 .. n |-> h[i]]
    OBVIOUS
  <2> HIDE DEF h
  <2>4. f = h
    BY <2>1, <2>2, <2>3
  <2> QED BY <2>4 DEF h, Is
<1>11. Is(chosen)
  BY <1>10 DEF chosen
<1>12. chosen = [i \in 1 .. n |-> chosen[i]]
  BY <1>11 DEF Is
<1>17. Joins(chosen, seqs, n) /\ Joins(f, seqs, n)
  <2>1. ASSUME NEW h, Is(h)
        PROVE  Joins(h, seqs, n)
    <3>1. \A i \in 1 .. n : h[i] = IF i = 1 THEN seqs[i] ELSE h[i - 1] \o seqs[i]
      BY <2>1 DEF Is
    <3>2. n >= 1 => h[1] = seqs[1]
      <4>1. n >= 1 => 1 \in 1 .. n
        OBVIOUS
      <4> QED BY <3>1, <4>1
    <3>3. ASSUME NEW i \in 2 .. n
          PROVE  h[i] = h[i - 1] \o seqs[i]
      <4>1. i \in 1 .. n /\ i # 1
        OBVIOUS
      <4> QED BY <3>1, <4>1
    <3> QED BY <3>2, <3>3 DEF Joins
  <2> QED BY <1>10, <1>11, <2>1
<1>13. \A i \in 1 .. n : chosen[i] = f[i]
  BY <1>17, JoinsOnce
<1>14. chosen \in [1 .. n -> Seq(T)]
  BY <1>8, <1>12, <1>13
<1>15. n # 0
  BY <1>1, EmptySeq
<1>16. FlattenSeq(seqs) = chosen[n]
  BY <1>1, <1>15 DEF FlattenSeq, chosen, Is
<1> QED BY <1>1, <1>14, <1>16, <1>17

LEMMA FlattenEmpty == FlattenSeq(<<>>) = <<>>
BY DEF FlattenSeq

LEMMA FlattenType ==
    ASSUME NEW T, NEW seqs \in Seq(Seq(T))
    PROVE  FlattenSeq(seqs) \in Seq(T)
<1>1. CASE seqs = <<>>
  <2>1. <<>> \in Seq(T)
    OBVIOUS
  <2> QED BY <1>1, <2>1, FlattenEmpty
<1>2. CASE seqs # <<>>
  <2>1. PICK f \in [1 .. Len(seqs) -> Seq(T)] : FlattenSeq(seqs) = f[Len(seqs)]
    BY <1>2, FlattenJoins
  <2>2. Len(seqs) \in Nat \ {0}
    BY <1>2, EmptySeq
  <2>3. Len(seqs) \in 1 .. Len(seqs)
    BY <2>2
  <2> QED BY <2>1, <2>3
<1> QED BY <1>1, <1>2

(* One sequence more. *)
LEMMA FlattenAppend ==
    ASSUME NEW T, NEW seqs \in Seq(Seq(T)), NEW x \in Seq(T)
    PROVE  FlattenSeq(Append(seqs, x)) = FlattenSeq(seqs) \o x
<1>1. PICK n \in Nat : n = Len(seqs)
  BY LenProperties
<1>2. PICK longer \in Seq(Seq(T)) : longer = Append(seqs, x)
  BY AppendProperties
<1>3. /\ Len(longer) = n + 1 /\ longer # <<>> /\ longer[n + 1] = x
      /\ \A i \in 1 .. n : longer[i] = seqs[i]
  BY <1>1, <1>2, AppendProperties
<1>4. PICK g \in [1 .. n + 1 -> Seq(T)] :
          Joins(g, longer, n + 1) /\ FlattenSeq(longer) = g[n + 1]
  BY <1>3, FlattenJoins
<1>5. CASE n = 0
  <2>1. seqs = <<>>
    BY <1>1, <1>5, EmptySeq
  <2>2. g[1] = x
    BY <1>3, <1>4, <1>5 DEF Joins
  <2>3. <<>> \o x = x
    BY ConcatEmptySeq
  <2> QED BY <1>2, <1>4, <1>5, <2>1, <2>2, <2>3, FlattenEmpty
<1>6. CASE n # 0
  <2>1. seqs # <<>>
    BY <1>1, <1>6
  <2>2. PICK f \in [1 .. n -> Seq(T)] : Joins(f, seqs, n) /\ FlattenSeq(seqs) = f[n]
    BY <1>1, <2>1, FlattenJoins
  <2>3. Joins(g, seqs, n)
    <3>1. n >= 1 => g[1] = seqs[1]
      <4>1. n >= 1 => g[1] = longer[1] /\ 1 \in 1 .. n
        BY <1>4 DEF Joins
      <4> QED BY <1>3, <4>1
    <3>2. ASSUME NEW i \in 2 .. n
          PROVE  g[i] = g[i - 1] \o seqs[i]
      <4>1. i \in 2 .. n + 1 /\ i \in 1 .. n
        OBVIOUS
      <4>2. g[i] = g[i - 1] \o longer[i]
        BY <1>4, <4>1 DEF Joins
      <4> QED BY <1>3, <4>1, <4>2
    <3> QED BY <3>1, <3>2 DEF Joins
  <2>4. f[n] = g[n]
    <3>1. n \in 1 .. n
      BY <1>6
    <3> QED BY <2>2, <2>3, <3>1, JoinsOnce
  <2>5. g[n + 1] = g[n] \o longer[n + 1]
    <3>1. n + 1 \in 2 .. n + 1 /\ (n + 1) - 1 = n
      BY <1>6
    <3> QED BY <1>4, <3>1 DEF Joins
  <2> QED BY <1>2, <1>3, <1>4, <2>2, <2>4, <2>5
<1> QED BY <1>5, <1>6

-----------------------------------------------------------------------------
(* Beginnings.                                                               *)

\* bytes are the first ones of whole.
Begins(bytes, whole) ==
    Len(bytes) <= Len(whole) /\ \A i \in 1 .. Len(bytes) : bytes[i] = whole[i]

LEMMA BeginsTransitive ==
    ASSUME NEW T, NEW r \in Seq(T), NEW s \in Seq(T), NEW t \in Seq(T),
           Begins(r, s), Begins(s, t)
    PROVE  Begins(r, t)
<1>1. Len(r) \in Nat /\ Len(s) \in Nat /\ Len(t) \in Nat
  BY LenProperties
<1>2. \A i \in 1 .. Len(r) : i \in 1 .. Len(s)
  BY <1>1 DEF Begins
<1> QED BY <1>1, <1>2 DEF Begins

LEMMA BeginsConcat ==
    ASSUME NEW T, NEW s \in Seq(T), NEW t \in Seq(T)
    PROVE  Begins(s, s \o t)
<1>1. Len(s) \in Nat /\ Len(t) \in Nat /\ Len(s \o t) = Len(s) + Len(t)
  BY LenProperties, ConcatProperties
<1>2. \A i \in 1 .. Len(s) : (s \o t)[i] = s[i]
  BY <1>1, ConcatProperties
<1> QED BY <1>1, <1>2 DEF Begins

LEMMA BeginsEqual ==
    ASSUME NEW T, NEW s \in Seq(T), NEW t \in Seq(T), Begins(s, t), Len(t) <= Len(s)
    PROVE  s = t
<1>1. Len(s) \in Nat /\ Len(t) \in Nat
  BY LenProperties
<1>2. Len(s) = Len(t)
  BY <1>1 DEF Begins
<1> QED BY <1>2, SeqEqual DEF Begins

\* The part of whole behind a beginning of it.
LEMMA FromProperties ==
    ASSUME NEW T, NEW s \in Seq(T), NEW n \in 0 .. Len(s)
    PROVE  /\ From(s, n) \in Seq(T)
           /\ Len(From(s, n)) = Len(s) - n
           /\ \A i \in 1 .. Len(s) - n : From(s, n)[i] = s[n + i]
<1>1. Len(s) \in Nat
  BY LenProperties
<1>2. \A i \in n + 1 .. Len(s) : s[i] \in T
  BY <1>1, ElementOfSeq
<1>3. n + 1 \in Int /\ Len(s) \in Int
  BY <1>1
<1>4. /\ From(s, n) \in Seq(T)
      /\ Len(From(s, n)) = IF n + 1 <= Len(s) THEN Len(s) - (n + 1) + 1 ELSE 0
      /\ \A i \in 1 .. Len(s) - (n + 1) + 1 : From(s, n)[i] = s[(n + 1) + i - 1]
  BY <1>2, <1>3, SubSeqProperties DEF From
<1> QED BY <1>1, <1>4

LEMMA FromBeginning ==
    ASSUME NEW T, NEW s \in Seq(T), NEW t \in Seq(T), Begins(s, t)
    PROVE  t = s \o From(t, Len(s))
<1>1. Len(s) \in Nat /\ Len(t) \in Nat /\ Len(s) \in 0 .. Len(t)
  BY LenProperties DEF Begins
<1>2. PICK r \in Seq(T) : /\ r = From(t, Len(s))
                          /\ Len(r) = Len(t) - Len(s)
                          /\ \A i \in 1 .. Len(t) - Len(s) : r[i] = t[Len(s) + i]
  BY <1>1, FromProperties
<1>3. PICK w \in Seq(T) : w = s \o r
  BY <1>2, ConcatProperties
<1>4. /\ Len(w) = Len(t)
      /\ \A i \in 1 .. Len(t) : w[i] = IF i <= Len(s) THEN s[i] ELSE r[i - Len(s)]
  <2>1. Len(s) + Len(r) = Len(t)
    BY <1>1, <1>2
  <2> QED BY <1>2, <1>3, <2>1, ConcatProperties
<1>5. ASSUME NEW i \in 1 .. Len(t)
      PROVE  w[i] = t[i]
  <2>1. CASE i <= Len(s)
    BY <1>1, <1>4, <2>1 DEF Begins
  <2>2. CASE ~(i <= Len(s))
    <3>1. i - Len(s) \in 1 .. Len(t) - Len(s) /\ Len(s) + (i - Len(s)) = i
      BY <1>1, <2>2
    <3>2. r[i - Len(s)] = t[Len(s) + (i - Len(s))]
      BY <1>2, <3>1
    <3>3. w[i] = r[i - Len(s)]
      BY <1>4, <2>2
    <3> QED BY <3>1, <3>2, <3>3
  <2> QED BY <2>1, <2>2
<1>6. t = w
  BY <1>4, <1>5, SeqEqual
<1> QED BY <1>2, <1>3, <1>6

LEMMA FromConcat ==
    ASSUME NEW T, NEW s \in Seq(T), NEW t \in Seq(T)
    PROVE  From(s \o t, Len(s)) = t
<1>1. Len(s) \in Nat /\ Len(t) \in Nat
  BY LenProperties
<1>2. PICK u \in Seq(T) : u = s \o t
  BY ConcatProperties
<1>3. /\ Len(u) = Len(s) + Len(t)
      /\ \A i \in 1 .. Len(s) + Len(t) : u[i] = IF i <= Len(s) THEN s[i] ELSE t[i - Len(s)]
  BY <1>2, ConcatProperties
<1>4. Len(s) \in 0 .. Len(u)
  BY <1>1, <1>3
<1>5. PICK r \in Seq(T) : /\ r = From(u, Len(s))
                          /\ Len(r) = Len(t)
                          /\ \A i \in 1 .. Len(t) : r[i] = u[Len(s) + i]
  <2>1. Len(u) - Len(s) = Len(t)
    BY <1>1, <1>3
  <2>2. /\ From(u, Len(s)) \in Seq(T)
        /\ Len(From(u, Len(s))) = Len(u) - Len(s)
        /\ \A i \in 1 .. Len(u) - Len(s) : From(u, Len(s))[i] = u[Len(s) + i]
    BY <1>4, FromProperties
  <2> QED BY <2>1, <2>2
<1>6. ASSUME NEW i \in 1 .. Len(t)
      PROVE  r[i] = t[i]
  <2>1. Len(s) + i \in 1 .. Len(s) + Len(t) /\ ~(Len(s) + i <= Len(s))
    BY <1>1
  <2>2. u[Len(s) + i] = t[(Len(s) + i) - Len(s)]
    BY <1>3, <2>1
  <2> QED BY <1>1, <1>5, <2>2
<1>7. r = t
  BY <1>5, <1>6, SeqEqual
<1> QED BY <1>2, <1>5, <1>7

\* A beginning of s \o t ends within s or has s and a beginning of t.
LEMMA BeginsShort ==
    ASSUME NEW T, NEW r \in Seq(T), NEW s \in Seq(T), NEW t \in Seq(T),
           Begins(r, s \o t), Len(r) <= Len(s)
    PROVE  Begins(r, s)
<1>1. Len(r) \in Nat /\ Len(s) \in Nat /\ Len(t) \in Nat
  BY LenProperties
<1>2. \A i \in 1 .. Len(r) : (s \o t)[i] = s[i]
  BY <1>1, ConcatProperties
<1> QED BY <1>2 DEF Begins

LEMMA BeginsLong ==
    ASSUME NEW T, NEW r \in Seq(T), NEW s \in Seq(T), NEW t \in Seq(T),
           Begins(r, s \o t), Len(r) >= Len(s)
    PROVE  Begins(s, r) /\ Begins(From(r, Len(s)), t)
<1>1. Len(r) \in Nat /\ Len(s) \in Nat /\ Len(t) \in Nat /\ Len(s) \in 0 .. Len(r)
  BY LenProperties
<1>2. PICK u \in Seq(T) : u = s \o t
  BY ConcatProperties
<1>3. /\ Len(u) = Len(s) + Len(t)
      /\ \A i \in 1 .. Len(s) + Len(t) : u[i] = IF i <= Len(s) THEN s[i] ELSE t[i - Len(s)]
  BY <1>2, ConcatProperties
<1>4. Len(r) <= Len(u) /\ \A i \in 1 .. Len(r) : r[i] = u[i]
  BY <1>2 DEF Begins
<1>5. ASSUME NEW i \in 1 .. Len(s)
      PROVE  s[i] = r[i]
  <2>1. i \in 1 .. Len(r) /\ i \in 1 .. Len(s) + Len(t) /\ i <= Len(s)
    BY <1>1
  <2> QED BY <1>3, <1>4, <2>1
<1>6. PICK q \in Seq(T) : /\ q = From(r, Len(s))
                          /\ Len(q) = Len(r) - Len(s)
                          /\ \A i \in 1 .. Len(r) - Len(s) : q[i] = r[Len(s) + i]
  BY <1>1, FromProperties
<1>7. ASSUME NEW i \in 1 .. Len(q)
      PROVE  q[i] = t[i]
  <2>1. /\ Len(s) + i \in 1 .. Len(r) /\ Len(s) + i \in 1 .. Len(s) + Len(t)
        /\ ~(Len(s) + i <= Len(s)) /\ (Len(s) + i) - Len(s) = i
        /\ i \in 1 .. Len(r) - Len(s)
    BY <1>1, <1>3, <1>4, <1>6
  <2>2. q[i] = r[Len(s) + i]
    BY <1>6, <2>1
  <2>3. r[Len(s) + i] = u[Len(s) + i]
    BY <1>4, <2>1
  <2>4. u[Len(s) + i] = t[i]
    BY <1>3, <2>1
  <2> QED BY <2>2, <2>3, <2>4
<1>8. Begins(s, r)
  BY <1>1, <1>5 DEF Begins
<1>9. Len(q) <= Len(t)
  BY <1>1, <1>3, <1>4, <1>6
<1>10. Begins(q, t)
  BY <1>7, <1>9 DEF Begins
<1> QED BY <1>6, <1>8, <1>10

-----------------------------------------------------------------------------
(* Lines.                                                                    *)

LEMMA CrlfType == CRLF \in Seq(Byte) /\ Len(CRLF) = 2 /\ CRLF[1] = CR /\ CRLF[2] = LF
BY DEF CRLF, CR, LF, Byte

\* Where a line ends, and that it ends nowhere before.
IsLineEnd(bytes, p) == p \in CrlfPositions(bytes) /\ \A q \in CrlfPositions(bytes) : p <= q

\* Where ParseLine finds the end of a line.
LEMMA LineEnd ==
    ASSUME NEW bytes \in Seq(Byte), NEW p, IsLineEnd(bytes, p)
    PROVE  /\ p \in Nat /\ p + 2 <= Len(bytes)
           /\ ParseLine(bytes) = Parsed(SubSeq(bytes, 1, p), p + 2)
<1>1. Len(bytes) \in Nat
  BY LenProperties
<1>2. CrlfPositions(bytes) \subseteq Nat
  BY <1>1 DEF CrlfPositions
<1>3. p \in Nat /\ p + 2 <= Len(bytes)
  BY <1>1 DEF CrlfPositions, IsLineEnd
<1>4. \A q \in CrlfPositions(bytes) : (\A r \in CrlfPositions(bytes) : q <= r) => q = p
  BY <1>2 DEF IsLineEnd
<1>5. Min(CrlfPositions(bytes)) = p
  BY <1>4 DEF Min, IsLineEnd
<1>6. CrlfPositions(bytes) # {}
  BY DEF IsLineEnd
<1> QED BY <1>3, <1>5, <1>6 DEF ParseLine

(* A line is not there yet, or it has its first end. *)
LEMMA LineCases ==
    ASSUME NEW bytes \in Seq(Byte)
    PROVE  \/ CrlfPositions(bytes) = {} /\ ParseLine(bytes) = Incomplete
           \/ \E p : IsLineEnd(bytes, p)
<1>1. CASE CrlfPositions(bytes) = {}
  BY <1>1 DEF ParseLine
<1>2. CASE CrlfPositions(bytes) # {}
  <2>1. Len(bytes) \in Nat
    BY LenProperties
  <2>2. CrlfPositions(bytes) \subseteq Nat
    BY <2>1 DEF CrlfPositions
  <2>3. PICK p \in CrlfPositions(bytes) : \A q \in CrlfPositions(bytes) : p <= q
    BY <1>2, <2>2, Least
  <2> QED BY <2>3 DEF IsLineEnd
<1> QED BY <1>1, <1>2

(* A line, whole and without another one's end in it, is found. *)
LEMMA LineComes ==
    ASSUME NEW body \in Seq(Byte), \A i \in 1 .. Len(body) : body[i] # CR,
           NEW bytes \in Seq(Byte), Begins(body \o CRLF, bytes)
    PROVE  ParseLine(bytes) = Parsed(body, Len(body) + 2)
<1>1. PICK n \in Nat : n = Len(body)
  BY LenProperties
<1>2. PICK line \in Seq(Byte) : line = body \o CRLF
  BY CrlfType, ConcatProperties
<1>3. /\ Len(line) = n + 2
      /\ \A i \in 1 .. n + 2 : line[i] = IF i <= n THEN body[i] ELSE CRLF[i - n]
  <2>1. PICK crlf \in Seq(Byte) : crlf = CRLF /\ Len(crlf) = 2
    BY CrlfType
  <2>2. /\ Len(body \o crlf) = Len(body) + Len(crlf)
        /\ \A i \in 1 .. Len(body) + Len(crlf) : (body \o crlf)[i] =
                IF i <= Len(body) THEN body[i] ELSE crlf[i - Len(body)]
    BY ConcatProperties
  <2> QED BY <1>1, <1>2, <2>1, <2>2
<1>4. PICK m \in Nat : m = Len(bytes)
  BY LenProperties
<1>5. n + 2 <= m /\ \A i \in 1 .. n + 2 : bytes[i] = line[i]
  BY <1>2, <1>3, <1>4 DEF Begins
<1>6. \A i \in 1 .. n : bytes[i] = body[i]
  <2> SUFFICES ASSUME NEW i \in 1 .. n PROVE bytes[i] = body[i]
    OBVIOUS
  <2>1. i \in 1 .. n + 2 /\ i <= n
    OBVIOUS
  <2> QED BY <1>3, <1>5, <2>1
<1>7. bytes[n + 1] = CR /\ bytes[n + 2] = LF
  <2>1. n + 1 \in 1 .. n + 2 /\ ~(n + 1 <= n) /\ (n + 1) - n = 1
    OBVIOUS
  <2>2. n + 2 \in 1 .. n + 2 /\ ~(n + 2 <= n) /\ (n + 2) - n = 2
    OBVIOUS
  <2>3. line[n + 1] = CRLF[1] /\ line[n + 2] = CRLF[2]
    BY <1>3, <2>1, <2>2
  <2> QED BY <1>5, <2>1, <2>2, <2>3, CrlfType
<1>8. n \in CrlfPositions(bytes)
  BY <1>4, <1>5, <1>7 DEF CrlfPositions
<1>9. ASSUME NEW q \in CrlfPositions(bytes)
      PROVE  n <= q
  <2>1. q \in Nat /\ bytes[q + 1] = CR
    BY <1>4 DEF CrlfPositions
  <2>2. q < n => bytes[q + 1] = body[q + 1] /\ body[q + 1] # CR
    BY <1>1, <1>6, <2>1
  <2> QED BY <2>1, <2>2
<1>10. ParseLine(bytes) = Parsed(SubSeq(bytes, 1, n), n + 2)
  BY <1>8, <1>9, LineEnd DEF IsLineEnd
<1>11. SubSeq(bytes, 1, n) = body
  <2>1. \A i \in 1 .. n : bytes[i] \in Byte
    BY <1>4, <1>5, ElementOfSeq
  <2>2. /\ SubSeq(bytes, 1, n) \in Seq(Byte)
        /\ Len(SubSeq(bytes, 1, n)) = IF 1 <= n THEN n - 1 + 1 ELSE 0
        /\ \A i \in 1 .. n - 1 + 1 : SubSeq(bytes, 1, n)[i] = bytes[1 + i - 1]
    BY <2>1, SubSeqProperties
  <2>3. PICK r \in Seq(Byte) : r = SubSeq(bytes, 1, n)
    BY <2>2
  <2>4. Len(r) = n
    BY <2>2, <2>3
  <2>5. \A i \in 1 .. n : r[i] = body[i]
    BY <1>6, <2>2, <2>3
  <2> QED BY <1>1, <2>3, <2>4, <2>5, SeqEqual
<1> QED BY <1>1, <1>10, <1>11

(* A part of such a line is waited with. *)
LEMMA LineWaits ==
    ASSUME NEW body \in Seq(Byte), \A i \in 1 .. Len(body) : body[i] # CR,
           NEW bytes \in Seq(Byte), Begins(bytes, body \o CRLF),
           Len(bytes) < Len(body) + 2
    PROVE  ParseLine(bytes) = Incomplete
<1>1. PICK n \in Nat : n = Len(body)
  BY LenProperties
<1>2. PICK m \in Nat : m = Len(bytes)
  BY LenProperties
<1>3. \A i \in 1 .. n : (body \o CRLF)[i] = body[i]
  <2> SUFFICES ASSUME NEW i \in 1 .. n PROVE (body \o CRLF)[i] = body[i]
    OBVIOUS
  <2>1. i \in 1 .. Len(body) + Len(CRLF) /\ i <= Len(body)
    BY <1>1, CrlfType
  <2> QED BY <2>1, CrlfType, ConcatProperties
<1>4. ASSUME NEW q \in CrlfPositions(bytes)
      PROVE  FALSE
  <2>1. q \in Nat /\ q + 2 <= m /\ bytes[q + 1] = CR
    BY <1>2 DEF CrlfPositions
  <2>2. q + 1 \in 1 .. n /\ q + 1 \in 1 .. m
    BY <1>1, <1>2, <2>1
  <2>3. bytes[q + 1] = body[q + 1]
    BY <1>2, <1>3, <2>2 DEF Begins
  <2> QED BY <1>1, <2>1, <2>2, <2>3
<1> QED BY <1>4 DEF ParseLine

(* What has been parsed does not change with the bytes that come behind. *)
LEMMA LineStays ==
    ASSUME NEW bytes \in Seq(Byte), NEW more \in Seq(Byte), Begins(bytes, more),
           ParseLine(bytes) # Incomplete
    PROVE  ParseLine(more) = ParseLine(bytes)
<1>1. PICK p : IsLineEnd(bytes, p)
  BY LineCases
<1>2. p \in Nat /\ p + 2 <= Len(bytes) /\ ParseLine(bytes) = Parsed(SubSeq(bytes, 1, p), p + 2)
  BY <1>1, LineEnd
<1>3. PICK m \in Nat, l \in Nat : m = Len(bytes) /\ l = Len(more)
  BY LenProperties
<1>4. m <= l /\ \A i \in 1 .. m : bytes[i] = more[i]
  BY <1>3 DEF Begins
<1>5. p \in CrlfPositions(more)
  <2>1. bytes[p + 1] = CR /\ bytes[p + 2] = LF
    BY <1>1 DEF IsLineEnd, CrlfPositions
  <2>2. p + 1 \in 1 .. m /\ p + 2 \in 1 .. m
    BY <1>2, <1>3
  <2> QED BY <1>2, <1>3, <1>4, <2>1, <2>2 DEF CrlfPositions
<1>6. ASSUME NEW q \in CrlfPositions(more), q < p
      PROVE  FALSE
  <2>1. q \in Nat /\ more[q + 1] = CR /\ more[q + 2] = LF
    BY <1>3 DEF CrlfPositions
  <2>2. q + 1 \in 1 .. m /\ q + 2 \in 1 .. m
    BY <1>2, <1>3, <1>6, <2>1
  <2>3. q \in CrlfPositions(bytes)
    BY <1>3, <1>4, <2>1, <2>2 DEF CrlfPositions
  <2> QED BY <1>1, <1>2, <1>6, <2>1, <2>3 DEF IsLineEnd
<1>7. \A q \in CrlfPositions(more) : q \in Nat
  BY <1>3 DEF CrlfPositions
<1>8. IsLineEnd(more, p)
  BY <1>2, <1>5, <1>6, <1>7 DEF IsLineEnd
<1>9. ParseLine(more) = Parsed(SubSeq(more, 1, p), p + 2)
  BY <1>8, LineEnd
<1>10. SubSeq(more, 1, p) = SubSeq(bytes, 1, p)
  <2>1. \A i \in 1 .. p : bytes[i] \in Byte /\ more[i] \in Byte /\ more[i] = bytes[i]
    <3> SUFFICES ASSUME NEW i \in 1 .. p
                 PROVE  bytes[i] \in Byte /\ more[i] \in Byte /\ more[i] = bytes[i]
      OBVIOUS
    <3>1. i \in 1 .. m /\ i \in 1 .. l
      BY <1>2, <1>3, <1>4
    <3> QED BY <1>3, <1>4, <3>1, ElementOfSeq
  <2>2. /\ SubSeq(bytes, 1, p) \in Seq(Byte)
        /\ Len(SubSeq(bytes, 1, p)) = IF 1 <= p THEN p - 1 + 1 ELSE 0
        /\ \A i \in 1 .. p - 1 + 1 : SubSeq(bytes, 1, p)[i] = bytes[1 + i - 1]
    BY <1>2, <2>1, SubSeqProperties
  <2>3. /\ SubSeq(more, 1, p) \in Seq(Byte)
        /\ Len(SubSeq(more, 1, p)) = IF 1 <= p THEN p - 1 + 1 ELSE 0
        /\ \A i \in 1 .. p - 1 + 1 : SubSeq(more, 1, p)[i] = more[1 + i - 1]
    BY <1>2, <2>1, SubSeqProperties
  <2>4. PICK r \in Seq(Byte), s \in Seq(Byte) :
            r = SubSeq(bytes, 1, p) /\ s = SubSeq(more, 1, p)
    BY <2>2, <2>3
  <2>5. Len(r) = p /\ Len(s) = p
    BY <1>2, <2>2, <2>3, <2>4
  <2>6. \A i \in 1 .. p : s[i] = r[i]
    <3> SUFFICES ASSUME NEW i \in 1 .. p PROVE s[i] = r[i]
      OBVIOUS
    <3>1. i \in 1 .. p - 1 + 1 /\ 1 + i - 1 = i
      BY <1>2
    <3>2. r[i] = bytes[1 + i - 1] /\ s[i] = more[1 + i - 1]
      BY <2>2, <2>3, <2>4, <3>1
    <3> QED BY <2>1, <3>1, <3>2
  <2> QED BY <2>4, <2>5, <2>6, SeqEqual
<1> QED BY <1>2, <1>9, <1>10

-----------------------------------------------------------------------------
(* Numbers in lines.                                                         *)

LEMMA NumberReads ==
    ASSUME NEW n \in Nat
    PROVE  /\ Decimal[n] \in Seq(Byte)
           /\ \A i \in 1 .. Len(Decimal[n]) : Decimal[n][i] # CR
           /\ IsUsize(Decimal[n])
           /\ UsizeValue(Decimal[n]) = n
<1>1. PICK d \in Seq(Digit) : d = Decimal[n]
  BY DecimalReads
<1>2. d # <<>> /\ DecimalValue(d) = n
  BY <1>1, DecimalReads
<1>3. PICK m \in Nat \ {0} : m = Len(d) /\ DOMAIN d = 1 .. m
  BY <1>2, EmptySeq, LenProperties
<1>4. \A i \in 1 .. m : d[i] \in Digit
  BY <1>3, ElementOfSeq
<1>5. Digit \subseteq Byte
  BY DEF Digit, Byte
<1>6. d \in Seq(Byte)
  BY <1>5, SeqMonotonic
<1>7. ASSUME NEW i \in 1 .. m
      PROVE  d[i] # CR /\ d[i] # Plus
  BY <1>4 DEF Digit, CR, Plus
<1>8. Head(d) # Plus
  <2>1. Head(d) = d[1] /\ 1 \in 1 .. m
    BY <1>2, <1>3
  <2> QED BY <1>7, <2>1
<1>9. Unsigned(d) = d
  BY <1>8 DEF Unsigned
<1>10. IsDecimal(d)
  BY <1>2, <1>3, <1>4 DEF IsDecimal
<1> QED BY <1>1, <1>2, <1>3, <1>6, <1>7, <1>9, <1>10 DEF IsUsize, UsizeValue

LEMMA DigitsCount ==
    ASSUME NEW bytes \in Seq(Digit)
    PROVE  DecimalValue(bytes) \in Nat
<1>1. PICK n \in Nat : n = Len(bytes)
  BY LenProperties
<1>2. \A i \in 1 .. n : bytes[i] \in Digit
  BY <1>1, ElementOfSeq
<1>3. Digit \subseteq Int
  BY DEF Digit
<1>4. bytes \in Seq(Int)
  BY <1>3, SeqMonotonic
<1>5. PICK f \in [0 .. n -> Int] :
          Unrolls(f, 0, Steps(bytes), n) /\ DecimalValue(bytes) = f[n]
  BY <1>1, <1>4, ValueUnrolls
<1>6. f[0] = 0
  BY <1>5 DEF Unrolls
<1> DEFINE S == {i \in Nat : i <= n => f[i] \in Nat}
<1>7. 0 \in S
  BY <1>6
<1>8. ASSUME NEW i \in Nat, i \in S
      PROVE  i + 1 \in S
  <2> SUFFICES ASSUME i + 1 <= n PROVE f[i + 1] \in Nat
    OBVIOUS
  <2>1. PICK k \in 1 .. n : k = i + 1
    OBVIOUS
  <2>2. f[k - 1] \in Nat
    BY <1>8, <2>1
  <2>3. f[k] = Steps(bytes)[k][f[k - 1]]
    BY <1>5 DEF Unrolls
  <2>4. f[k] = 10 * f[k - 1] + (bytes[k] - 48)
    <3>1. k \in 1 .. Len(bytes) /\ f[k - 1] \in Int
      BY <1>1, <2>2
    <3>2. Steps(bytes)[k][f[k - 1]] = 10 * f[k - 1] + (bytes[k] - 48)
      BY <1>4, <3>1, StepsAt
    <3> QED BY <2>3, <3>2
  <2>5. bytes[k] >= 48 /\ bytes[k] \in Int
    <3>1. bytes[k] \in Digit
      BY <1>2
    <3> QED BY <3>1 DEF Digit
  <2> QED BY <2>1, <2>2, <2>4, <2>5
<1> HIDE DEF S
<1>9. n \in S
  BY <1>7, <1>8, Counting
<1> QED BY <1>5, <1>9 DEF S

LEMMA UsizeType ==
    ASSUME NEW bytes \in Seq(Byte), IsUsize(bytes)
    PROVE  UsizeValue(bytes) \in Nat
<1>1. Unsigned(bytes) \in Seq(Byte)
  <2>1. CASE bytes = <<>>
    BY <2>1 DEF Unsigned
  <2>2. CASE bytes # <<>>
    <3>1. Tail(bytes) \in Seq(Byte)
      BY <2>2, HeadTailProperties
    <3> QED BY <3>1 DEF Unsigned
  <2> QED BY <2>1, <2>2
<1>2. PICK d \in Seq(Byte) : d = Unsigned(bytes)
  BY <1>1
<1>3. \A i \in 1 .. Len(d) : d[i] \in Digit
  BY <1>2, LenProperties DEF IsUsize, IsDecimal
<1>4. d \in Seq(Digit)
  BY <1>3, LenProperties
<1> QED BY <1>2, <1>4, DigitsCount DEF UsizeValue

-----------------------------------------------------------------------------
(* The bytes that the encoders make.                                         *)

LEMMA LineType ==
    ASSUME NEW prefix \in Byte, NEW body \in Seq(Byte)
    PROVE  /\ <<prefix>> \o body \in Seq(Byte)
           /\ Len(<<prefix>> \o body) = Len(body) + 1
           /\ LineBytes(prefix, body) \in Seq(Byte)
           /\ LineBytes(prefix, body) = (<<prefix>> \o body) \o CRLF
           /\ Len(LineBytes(prefix, body)) = Len(body) + 3
<1>1. <<prefix>> \in Seq(Byte) /\ Len(<<prefix>>) = 1
  OBVIOUS
<1>2. PICK line \in Seq(Byte) : line = <<prefix>> \o body
  BY <1>1, ConcatProperties
<1>3. Len(line) = Len(body) + 1
  BY <1>1, <1>2, ConcatProperties, LenProperties
<1>4. line \o CRLF \in Seq(Byte) /\ Len(line \o CRLF) = Len(line) + 2
  <2>1. PICK crlf \in Seq(Byte) : crlf = CRLF /\ Len(crlf) = 2
    BY CrlfType
  <2>2. line \o crlf \in Seq(Byte) /\ Len(line \o crlf) = Len(line) + Len(crlf)
    BY ConcatProperties
  <2> QED BY <2>1, <2>2
<1>5. LineBytes(prefix, body) = line \o CRLF
  BY <1>2 DEF LineBytes
<1>6. Len(body) \in Nat
  BY LenProperties
<1> QED BY <1>2, <1>3, <1>4, <1>5, <1>6

LEMMA CStringType ==
    ASSUME NEW data \in Seq(Byte)
    PROVE  /\ LineBytes(CStringByte, Decimal[Len(data)]) \in Seq(Byte)
           /\ data \o CRLF \in Seq(Byte)
           /\ CStringBytes(data) =
                  LineBytes(CStringByte, Decimal[Len(data)]) \o (data \o CRLF)
           /\ CStringBytes(data) \in Seq(Byte)
           /\ Len(CStringBytes(data)) =
                  Len(LineBytes(CStringByte, Decimal[Len(data)])) + Len(data) + 2
<1>1. Len(data) \in Nat /\ CStringByte \in Byte
  BY LenProperties DEF CStringByte, Byte
<1>2. PICK line \in Seq(Byte) : line = LineBytes(CStringByte, Decimal[Len(data)])
  BY <1>1, LineType, NumberReads
<1>3. PICK rest \in Seq(Byte) : rest = data \o CRLF
  BY CrlfType, ConcatProperties
<1>4. Len(rest) = Len(data) + 2
  <2>1. Len(data \o CRLF) = Len(data) + Len(CRLF)
    BY CrlfType, ConcatProperties
  <2> QED BY <1>3, <2>1, CrlfType
<1>5. (line \o data) \o CRLF = line \o rest
  BY <1>3, CrlfType, ConcatAssociative
<1>6. CStringBytes(data) = line \o rest
  BY <1>2, <1>5 DEF CStringBytes
<1>7. line \o rest \in Seq(Byte) /\ Len(line \o rest) = Len(line) + Len(rest)
  BY ConcatProperties
<1>8. Len(line) \in Nat
  BY LenProperties
<1> QED BY <1>1, <1>2, <1>3, <1>4, <1>6, <1>7, <1>8

\* A line up to its CRLF.
LEMMA LineBody ==
    ASSUME NEW prefix \in Byte, NEW d \in Seq(Byte)
    PROVE  \E body \in Seq(Byte) :
               /\ body = <<prefix>> \o d
               /\ Len(d) \in Nat
               /\ Len(body) = Len(d) + 1
               /\ body # <<>> /\ Head(body) = prefix /\ Tail(body) = d
               /\ body[1] = prefix
               /\ \A i \in 1 .. Len(d) : body[i + 1] = d[i]
               /\ LineBytes(prefix, d) = body \o CRLF
               /\ Len(LineBytes(prefix, d)) = Len(body) + 2
<1>1. PICK body \in Seq(Byte) : body = <<prefix>> \o d
  BY LineType
<1>2. PICK first \in Seq(Byte) : first = <<prefix>>
  <2>1. <<prefix>> \in Seq(Byte)
    OBVIOUS
  <2> QED BY <2>1
<1>3. Len(first) = 1 /\ first[1] = prefix
  BY <1>2
<1>4. PICK n \in Nat : n = Len(d)
  BY LenProperties
<1>5. /\ Len(body) = 1 + n
      /\ \A i \in 1 .. 1 + n : body[i] = IF i <= 1 THEN first[i] ELSE d[i - 1]
  BY <1>1, <1>2, <1>3, <1>4, ConcatProperties
<1>6. body[1] = prefix
  BY <1>3, <1>4, <1>5
<1>7. ASSUME NEW i \in 1 .. n
      PROVE  body[i + 1] = d[i]
  <2>1. i + 1 \in 1 .. 1 + n /\ ~(i + 1 <= 1) /\ (i + 1) - 1 = i
    OBVIOUS
  <2> QED BY <1>5, <2>1
<1>8. body # <<>>
  BY <1>4, <1>5
<1>9. Head(body) = prefix
  BY <1>6, <1>8
<1>10. Tail(body) = d
  <2>1. PICK t \in Seq(Byte) : t = Tail(body)
    BY <1>8, HeadTailProperties
  <2>2. Len(t) = Len(body) - 1 /\ \A i \in 1 .. Len(t) : t[i] = body[i + 1]
    BY <1>8, <2>1, HeadTailProperties
  <2>3. Len(t) = n
    BY <1>5, <2>2
  <2>4. \A i \in 1 .. n : t[i] = d[i]
    BY <1>7, <2>2, <2>3
  <2> QED BY <1>4, <2>1, <2>3, <2>4, SeqEqual
<1>11. LineBytes(prefix, d) = body \o CRLF /\ Len(LineBytes(prefix, d)) = Len(body) + 2
  <2>1. /\ LineBytes(prefix, d) = (<<prefix>> \o d) \o CRLF
        /\ Len(LineBytes(prefix, d)) = Len(d) + 3
    BY LineType
  <2>2. Len(d) + 3 = Len(body) + 2
    BY <1>4, <1>5
  <2> QED BY <1>1, <2>1, <2>2
<1>12. Len(d) \in Nat /\ Len(body) = Len(d) + 1 /\ \A i \in 1 .. Len(d) : body[i + 1] = d[i]
  BY <1>4, <1>5, <1>7
<1> HIDE DEF LineBytes
<1> QED BY <1>1, <1>6, <1>8, <1>9, <1>10, <1>11, <1>12

\* No CR before the end of a line with a number.
LEMMA NumberLine ==
    ASSUME NEW prefix \in Byte, prefix # CR, NEW n \in Nat
    PROVE  \E body \in Seq(Byte) :
               /\ body # <<>> /\ Head(body) = prefix /\ Tail(body) = Decimal[n]
               /\ \A i \in 1 .. Len(body) : body[i] # CR
               /\ LineBytes(prefix, Decimal[n]) = body \o CRLF
               /\ Len(LineBytes(prefix, Decimal[n])) = Len(body) + 2
<1>1. PICK d \in Seq(Byte) : d = Decimal[n]
  BY NumberReads
<1>2. \A i \in 1 .. Len(d) : d[i] # CR
  BY <1>1, NumberReads
<1>3. PICK body \in Seq(Byte) :
          /\ body = <<prefix>> \o d
          /\ Len(d) \in Nat
          /\ Len(body) = Len(d) + 1
          /\ body # <<>> /\ Head(body) = prefix /\ Tail(body) = d
          /\ body[1] = prefix
          /\ \A i \in 1 .. Len(d) : body[i + 1] = d[i]
          /\ LineBytes(prefix, d) = body \o CRLF
          /\ Len(LineBytes(prefix, d)) = Len(body) + 2
  BY LineBody, Zenon
<1>4. ASSUME NEW i \in 1 .. Len(body)
      PROVE  body[i] # CR
  <2>1. CASE i = 1
    BY <1>3, <2>1
  <2>2. CASE i # 1
    <3>1. i - 1 \in 1 .. Len(d) /\ (i - 1) + 1 = i
      BY <1>3, <2>2
    <3>2. body[(i - 1) + 1] = d[i - 1]
      BY <1>3, <3>1
    <3> QED BY <1>2, <3>1, <3>2
  <2> QED BY <2>1, <2>2
<1> QED BY <1>1, <1>3, <1>4

-----------------------------------------------------------------------------
(* Slices.                                                                   *)

LEMMA SliceProperties ==
    ASSUME NEW T, NEW s \in Seq(T), NEW a \in Nat, NEW b \in Nat, a <= b, b <= Len(s)
    PROVE  /\ SubSeq(s, a + 1, b) \in Seq(T)
           /\ Len(SubSeq(s, a + 1, b)) = b - a
           /\ \A i \in 1 .. b - a : SubSeq(s, a + 1, b)[i] = s[a + i]
<1>1. Len(s) \in Nat /\ a + 1 \in Int /\ b \in Int
  BY LenProperties
<1>2. \A i \in a + 1 .. b : s[i] \in T
  BY <1>1, ElementOfSeq
<1>3. /\ SubSeq(s, a + 1, b) \in Seq(T)
      /\ Len(SubSeq(s, a + 1, b)) = IF a + 1 <= b THEN b - (a + 1) + 1 ELSE 0
      /\ \A i \in 1 .. b - (a + 1) + 1 : SubSeq(s, a + 1, b)[i] = s[(a + 1) + i - 1]
  BY <1>1, <1>2, SubSeqProperties
<1> QED BY <1>1, <1>3

LEMMA SliceIs ==
    ASSUME NEW T, NEW s \in Seq(T), NEW t \in Seq(T), NEW a \in Nat, NEW b \in Nat,
           b = a + Len(t), b <= Len(s), \A i \in 1 .. Len(t) : s[a + i] = t[i]
    PROVE  SubSeq(s, a + 1, b) = t
<1>1. Len(t) \in Nat /\ a <= b /\ b - a = Len(t)
  BY LenProperties
<1>2. PICK r \in Seq(T) : /\ r = SubSeq(s, a + 1, b)
                          /\ Len(r) = b - a
                          /\ \A i \in 1 .. b - a : r[i] = s[a + i]
  BY <1>1, SliceProperties
<1>3. Len(r) = Len(t) /\ \A i \in 1 .. Len(t) : r[i] = t[i]
  BY <1>1, <1>2
<1>4. r = t
  BY <1>3, SeqEqual
<1> QED BY <1>2, <1>4

\* What lies behind s in a sequence that begins with s \o t.
LEMMA BehindBeginning ==
    ASSUME NEW T, NEW s \in Seq(T), NEW t \in Seq(T), NEW u \in Seq(T), Begins(s \o t, u)
    PROVE  /\ Len(s) \in Nat /\ Len(t) \in Nat /\ Len(u) \in Nat
           /\ Len(s) + Len(t) <= Len(u)
           /\ Begins(s, u)
           /\ \A i \in 1 .. Len(t) : u[Len(s) + i] = t[i]
<1>1. Len(s) \in Nat /\ Len(t) \in Nat /\ Len(u) \in Nat
  BY LenProperties
<1>2. PICK w \in Seq(T) : w = s \o t
  BY ConcatProperties
<1>3. /\ Len(w) = Len(s) + Len(t)
      /\ \A i \in 1 .. Len(s) + Len(t) : w[i] = IF i <= Len(s) THEN s[i] ELSE t[i - Len(s)]
  BY <1>2, ConcatProperties
<1>4. Len(w) <= Len(u) /\ \A i \in 1 .. Len(w) : w[i] = u[i]
  BY <1>2 DEF Begins
<1>5. Begins(s, u)
  BY <1>1, <1>3, <1>4 DEF Begins
<1>6. ASSUME NEW i \in 1 .. Len(t)
      PROVE  u[Len(s) + i] = t[i]
  <2>1. Len(s) + i \in 1 .. Len(s) + Len(t) /\ ~(Len(s) + i <= Len(s))
    BY <1>1
  <2>2. w[Len(s) + i] = t[(Len(s) + i) - Len(s)]
    BY <1>3, <2>1
  <2> QED BY <1>1, <1>3, <1>4, <2>1, <2>2
<1> QED BY <1>1, <1>3, <1>4, <1>5, <1>6

LEMMA BeginsEmpty ==
    ASSUME NEW T, NEW s \in Seq(T)
    PROVE  Begins(<<>>, s)
<1>1. Len(<<>>) = 0 /\ \A i \in 1 .. 0 : FALSE
  OBVIOUS
<1>2. Len(<<>>) <= Len(s)
  BY <1>1, LenProperties
<1> QED BY <1>1, <1>2 DEF Begins

LEMMA BeginsSelf ==
    ASSUME NEW T, NEW s \in Seq(T)
    PROVE  Begins(s, s)
BY LenProperties DEF Begins

LEMMA BeginsAppend ==
    ASSUME NEW T, NEW s \in Seq(T), NEW t \in Seq(T), Begins(s, t), Len(s) < Len(t)
    PROVE  /\ Len(s) + 1 \in 1 .. Len(t)
           /\ t[Len(s) + 1] \in T
           /\ Append(s, t[Len(s) + 1]) \in Seq(T)
           /\ Len(Append(s, t[Len(s) + 1])) = Len(s) + 1
           /\ Begins(Append(s, t[Len(s) + 1]), t)
<1>1. PICK n \in Nat : n = Len(s)
  BY LenProperties
<1>2. n + 1 \in 1 .. Len(t) /\ Len(t) \in Nat
  BY <1>1, LenProperties
<1>3. PICK x \in T : x = t[n + 1]
  BY <1>2, ElementOfSeq
<1>4. PICK r \in Seq(T) : /\ r = Append(s, x)
                          /\ Len(r) = n + 1
                          /\ r[n + 1] = x
                          /\ \A i \in 1 .. n : r[i] = s[i]
  <2>1. PICK r \in Seq(T) : r = Append(s, x)
    BY AppendProperties
  <2>2. Len(r) = n + 1 /\ r[n + 1] = x /\ \A i \in 1 .. n : r[i] = s[i]
    BY <1>1, <2>1, AppendProperties
  <2> QED BY <2>1, <2>2
<1>5. Begins(r, t)
  BY <1>1, <1>2, <1>3, <1>4 DEF Begins
<1> QED BY <1>1, <1>2, <1>3, <1>4, <1>5

\* The first bytes of a sequence, read one by one, begin it.
LEMMA BeginsFurther ==
    ASSUME NEW T, NEW s \in Seq(T), NEW d \in Seq(T), NEW t \in Seq(T), Begins(s, t),
           Len(s) + Len(d) <= Len(t), \A i \in 1 .. Len(d) : d[i] = t[Len(s) + i]
    PROVE  Begins(s \o d, t)
<1>1. Len(s) \in Nat /\ Len(d) \in Nat /\ Len(t) \in Nat
  BY LenProperties
<1>2. PICK w \in Seq(T) : w = s \o d
  BY ConcatProperties
<1>3. /\ Len(w) = Len(s) + Len(d)
      /\ \A i \in 1 .. Len(s) + Len(d) : w[i] = IF i <= Len(s) THEN s[i] ELSE d[i - Len(s)]
  BY <1>2, ConcatProperties
<1>4. ASSUME NEW i \in 1 .. Len(s) + Len(d)
      PROVE  w[i] = t[i]
  <2>1. CASE i <= Len(s)
    BY <1>1, <1>3, <2>1 DEF Begins
  <2>2. CASE ~(i <= Len(s))
    <3>1. i - Len(s) \in 1 .. Len(d) /\ Len(s) + (i - Len(s)) = i
      BY <1>1, <2>2
    <3>2. d[i - Len(s)] = t[Len(s) + (i - Len(s))]
      BY <3>1
    <3> QED BY <1>3, <2>2, <3>1, <3>2
  <2> QED BY <2>1, <2>2
<1> QED BY <1>2, <1>3, <1>4 DEF Begins

\* Of two beginnings of one sequence, the shorter begins the longer.
LEMMA BeginsComparable ==
    ASSUME NEW T, NEW r \in Seq(T), NEW s \in Seq(T), NEW t \in Seq(T),
           Begins(r, t), Begins(s, t), Len(r) <= Len(s)
    PROVE  Begins(r, s)
<1>1. Len(r) \in Nat /\ Len(s) \in Nat /\ Len(t) \in Nat
  BY LenProperties
<1> QED BY <1>1 DEF Begins

LEMMA BeginsFrom ==
    ASSUME NEW T, NEW r \in Seq(T), NEW t \in Seq(T), Begins(r, t), NEW n \in 0 .. Len(r)
    PROVE  Begins(From(r, n), From(t, n))
<1>1. Len(r) \in Nat /\ Len(t) \in Nat /\ n \in 0 .. Len(t)
  BY LenProperties DEF Begins
<1>2. PICK a \in Seq(T) : /\ a = From(r, n)
                          /\ Len(a) = Len(r) - n
                          /\ \A i \in 1 .. Len(r) - n : a[i] = r[n + i]
  BY FromProperties
<1>3. PICK b \in Seq(T) : /\ b = From(t, n)
                          /\ Len(b) = Len(t) - n
                          /\ \A i \in 1 .. Len(t) - n : b[i] = t[n + i]
  <2>1. /\ From(t, n) \in Seq(T)
        /\ Len(From(t, n)) = Len(t) - n
        /\ \A i \in 1 .. Len(t) - n : From(t, n)[i] = t[n + i]
    BY <1>1, FromProperties
  <2> QED BY <2>1
<1>4. Len(a) <= Len(b)
  BY <1>1, <1>2, <1>3 DEF Begins
<1>5. ASSUME NEW i \in 1 .. Len(a)
      PROVE  a[i] = b[i]
  <2>1. i \in 1 .. Len(r) - n /\ i \in 1 .. Len(t) - n /\ n + i \in 1 .. Len(r)
    BY <1>1, <1>2, <1>3, <1>4
  <2> QED BY <1>2, <1>3, <2>1 DEF Begins
<1>6. Begins(a, b)
  BY <1>4, <1>5 DEF Begins
<1> QED BY <1>2, <1>3, <1>6

\* What is dropped in two steps may be dropped in one.
LEMMA FromFrom ==
    ASSUME NEW T, NEW s \in Seq(T), NEW m \in Nat, NEW n \in Nat, m + n <= Len(s)
    PROVE  From(From(s, m), n) = From(s, m + n)
<1>1. Len(s) \in Nat /\ m \in 0 .. Len(s) /\ m + n \in 0 .. Len(s)
  BY LenProperties
<1>2. PICK a \in Seq(T) : /\ a = From(s, m)
                          /\ Len(a) = Len(s) - m
                          /\ \A i \in 1 .. Len(s) - m : a[i] = s[m + i]
  BY <1>1, FromProperties
<1>3. n \in 0 .. Len(a)
  BY <1>1, <1>2
<1>4. PICK b \in Seq(T) : /\ b = From(a, n)
                          /\ Len(b) = Len(a) - n
                          /\ \A i \in 1 .. Len(a) - n : b[i] = a[n + i]
  BY <1>3, FromProperties
<1>5. PICK k \in Nat : k = m + n
  OBVIOUS
<1>6. PICK c \in Seq(T) : /\ c = From(s, k)
                          /\ Len(c) = Len(s) - k
                          /\ \A i \in 1 .. Len(s) - k : c[i] = s[k + i]
  <2>1. k \in 0 .. Len(s)
    BY <1>1, <1>5
  <2> QED BY <2>1, FromProperties
<1>7. Len(b) = Len(c)
  <2>1. Len(s) - m - n = Len(s) - k
    BY <1>1, <1>5
  <2>2. Len(b) = Len(s) - m - n
    BY <1>2, <1>4
  <2> QED BY <1>6, <2>1, <2>2
<1>8. ASSUME NEW i \in 1 .. Len(b)
      PROVE  b[i] = c[i]
  <2>1. /\ i \in 1 .. Len(a) - n /\ n + i \in 1 .. Len(s) - m /\ i \in 1 .. Len(s) - k
        /\ m + (n + i) = k + i
    BY <1>1, <1>2, <1>3, <1>4, <1>5
  <2> QED BY <1>2, <1>4, <1>6, <2>1
<1>9. b = c
  BY <1>7, <1>8, SeqEqual
<1> QED BY <1>2, <1>4, <1>5, <1>6, <1>9

\* The whole sequence is reached from any beginning, one element at a time.
LEMMA BeginningGrows ==
    ASSUME NEW T, NEW s \in Seq(T), NEW d \in Seq(T), Begins(d, s), NEW P, d \in P,
           \A e \in Seq(T) : e \in P /\ Begins(e, s) /\ Len(e) < Len(s)
               => Append(e, s[Len(e) + 1]) \in P
    PROVE  s \in P
<1>1. PICK n \in Nat, k \in Nat : n = Len(s) /\ k = Len(d)
  BY LenProperties
<1> DEFINE S == {j \in Nat : k + j <= n =>
                     \E e \in Seq(T) : e \in P /\ Begins(e, s) /\ Len(e) = k + j}
<1>2. 0 \in S
  BY <1>1
<1>3. ASSUME NEW j \in Nat, j \in S
      PROVE  j + 1 \in S
  <2> SUFFICES ASSUME k + (j + 1) <= n
               PROVE  \E e \in Seq(T) : e \in P /\ Begins(e, s) /\ Len(e) = k + (j + 1)
    OBVIOUS
  <2>1. PICK e \in Seq(T) : e \in P /\ Begins(e, s) /\ Len(e) = k + j
    BY <1>3
  <2>2. Len(e) < Len(s)
    BY <1>1, <2>1
  <2>3. Append(e, s[Len(e) + 1]) \in P
    BY <2>1, <2>2
  <2>4. /\ Append(e, s[Len(e) + 1]) \in Seq(T)
        /\ Len(Append(e, s[Len(e) + 1])) = Len(e) + 1
        /\ Begins(Append(e, s[Len(e) + 1]), s)
    BY <2>1, <2>2, BeginsAppend
  <2>5. Len(e) + 1 = k + (j + 1)
    BY <2>1
  <2> QED BY <2>3, <2>4, <2>5
<1> HIDE DEF S
<1>4. PICK j \in Nat : k + j = n
  <2>1. k <= n
    BY <1>1 DEF Begins
  <2>2. n - k \in Nat /\ k + (n - k) = n
    BY <2>1
  <2> QED BY <2>2
<1>5. j \in S
  BY <1>2, <1>3, Counting
<1>6. PICK e \in Seq(T) : e \in P /\ Begins(e, s) /\ Len(e) = n
  BY <1>4, <1>5 DEF S
<1>7. e = s
  <2>1. Len(s) <= Len(e)
    BY <1>1, <1>6
  <2> QED BY <1>6, <2>1, BeginsEqual
<1> QED BY <1>6, <1>7

\* Begins and SubSeq say the same.
LEMMA BeginningIsSlice ==
    ASSUME NEW T, NEW s \in Seq(T), NEW d \in Seq(T), Begins(d, s)
    PROVE  SubSeq(s, 1, Len(d)) = d
<1>1. PICK k \in Nat : k = Len(d) /\ k <= Len(s) /\ 0 \in Nat
  BY LenProperties DEF Begins
<1>2. \A i \in 1 .. Len(d) : s[0 + i] = d[i]
  BY <1>1 DEF Begins
<1>3. k = 0 + Len(d) /\ k <= Len(s)
  BY <1>1
<1>4. SubSeq(s, 0 + 1, k) = d
  BY <1>2, <1>3, SliceIs
<1> QED BY <1>1, <1>4

LEMMA SliceBegins ==
    ASSUME NEW T, NEW s \in Seq(T), NEW n \in 0 .. Len(s)
    PROVE  SubSeq(s, 1, n) \in Seq(T) /\ Len(SubSeq(s, 1, n)) = n /\ Begins(SubSeq(s, 1, n), s)
<1>1. n \in Nat /\ 0 <= n /\ n <= Len(s) /\ 0 \in Nat
  BY LenProperties
<1>2. /\ SubSeq(s, 0 + 1, n) \in Seq(T)
      /\ Len(SubSeq(s, 0 + 1, n)) = n - 0
      /\ \A i \in 1 .. n - 0 : SubSeq(s, 0 + 1, n)[i] = s[0 + i]
  BY <1>1, SliceProperties
<1>3. PICK r \in Seq(T) : r = SubSeq(s, 1, n) /\ Len(r) = n /\ \A i \in 1 .. n : r[i] = s[i]
  <2>1. PICK r \in Seq(T) : r = SubSeq(s, 0 + 1, n)
    BY <1>2
  <2>2. 0 + 1 = 1 /\ n - 0 = n /\ \A i \in 1 .. n : 0 + i = i
    BY <1>1
  <2>3. Len(r) = n /\ \A i \in 1 .. n : r[i] = s[i]
    BY <1>2, <2>1, <2>2
  <2> QED BY <2>1, <2>2, <2>3
<1>4. Begins(r, s)
  BY <1>1, <1>3 DEF Begins
<1> QED BY <1>3, <1>4
=============================================================================
