--------------------------- MODULE KeyStoreProofs ---------------------------
(***************************************************************************)
(* Proofs about KeyStore, for every set of keys and values, every hash     *)
(* function and every start capacity: the table keeps the Robin Hood       *)
(* order between any two rounds of any loop, a lookup that gives up is     *)
(* right, and the load limit holds.                                        *)
(*                                                                         *)
(* First the arithmetic of slots, then what one change of a bucket does to *)
(* a well-placed table, then one step per action; on that rests the last   *)
(* part, that the table is the map that KeyMap specifies.                  *)
(***************************************************************************)
EXTENDS KeyStore, FiniteSetTheorems, TLAPS

-----------------------------------------------------------------------------
(* Slots.                                                                  *)

(* What Euclidean division leaves is unique. *)
LEMMA RemainderUnique ==
    ASSUME NEW n \in Nat \ {0}, NEW q \in Nat, NEW r \in 0 .. n - 1
    PROVE  (n * q + r) % n = r
  OBVIOUS

(* The bucket behind bucket i, over the end of the table. *)
LEMMA Successor ==
    ASSUME NEW n \in Nat \ {0}, NEW i \in 0 .. n - 1
    PROVE  (i + 1) % n = IF i + 1 = n THEN 0 ELSE i + 1
<1>1. CASE i + 1 = n
  <2>1. n * 1 + 0 = i + 1
    BY <1>1
  <2>2. (n * 1 + 0) % n = 0
    BY RemainderUnique, 0 \in 0 .. n - 1
  <2>. QED  BY <1>1, <2>1, <2>2
<1>2. CASE i + 1 # n
  <2>1. i + 1 \in 0 .. n - 1
    BY <1>2
  <2>2. (n * 0 + (i + 1)) % n = i + 1
    BY RemainderUnique, <2>1
  <2>. QED  BY <1>2, <2>2
<1>. QED  BY <1>1, <1>2

(* get_bucket_index stays in the table. *)
LEMMA SlotType ==
    ASSUME NEW n \in Nat \ {0}, NEW hash \in Nat, NEW d \in Nat
    PROVE  Slot(n, hash, d) \in 0 .. n - 1
  BY DEF Slot

(* A probe goes from a bucket to the one behind it. *)
LEMMA SlotNext ==
    ASSUME NEW n \in Nat \ {0}, NEW hash \in Nat, NEW d \in Nat
    PROVE  (Slot(n, hash, d) + 1) % n = Slot(n, hash, d + 1)
<1>. DEFINE x == hash + d
            q == x \div n
            r == x % n
<1>1. /\ x \in Nat
      /\ q \in Nat
      /\ r \in 0 .. n - 1
      /\ x = n * q + r
  OBVIOUS
<1>2. Slot(n, hash, d) = r /\ Slot(n, hash, d + 1) = (x + 1) % n
  BY DEF Slot
<1>. HIDE DEF x, q, r
<1>3. CASE r + 1 = n
  <2>1. x + 1 = n * (q + 1) + 0
    BY <1>1, <1>3
  <2>2. (n * (q + 1) + 0) % n = 0
    BY <1>1, RemainderUnique, 0 \in 0 .. n - 1, q + 1 \in Nat
  <2>. QED  BY <2>1, <2>2, <1>1, <1>2, <1>3, Successor
<1>4. CASE r + 1 # n
  <2>1. x + 1 = n * q + (r + 1)
    BY <1>1
  <2>2. r + 1 \in 0 .. n - 1
    BY <1>1, <1>4
  <2>3. (n * q + (r + 1)) % n = r + 1
    BY <1>1, <2>2, RemainderUnique
  <2>. QED  BY <2>1, <2>3, <1>1, <1>2, <1>4, Successor
<1>. QED  BY <1>3, <1>4

(* The bucket in front of the one a probe is at is where it was before. *)
LEMMA SlotPrevious ==
    ASSUME NEW n \in Nat \ {0}, NEW hash \in Nat, NEW d \in Nat \ {0},
           NEW i \in 0 .. n - 1,
           (i + 1) % n = Slot(n, hash, d)
    PROVE  i = Slot(n, hash, d - 1)
<1>. DEFINE j == Slot(n, hash, d - 1)
<1>1. d - 1 \in Nat /\ (d - 1) + 1 = d
  OBVIOUS
<1>2. j \in 0 .. n - 1
  BY <1>1, SlotType
<1>3. (j + 1) % n = (i + 1) % n
  BY <1>1, SlotNext
<1>. HIDE DEF j
<1>4. /\ (j + 1) % n = IF j + 1 = n THEN 0 ELSE j + 1
      /\ (i + 1) % n = IF i + 1 = n THEN 0 ELSE i + 1
  BY <1>2, Successor
<1>5. i = j
  BY <1>2, <1>3, <1>4
<1>. QED  BY <1>5 DEF j

-----------------------------------------------------------------------------
(* Tables.                                                                 *)

Sizes == Nat \ {0, 1}
HashFunctions == [Keys -> Nat]
TablesOf(n) == [0 .. n - 1 -> Entries \cup {None}]

(* No bucket of a table holds the key. *)
Absent(tbl, n, key) == \A i \in 0 .. n - 1 : Lacks(tbl, i, key)

LEMMA AbsentKeys ==
    ASSUME NEW n \in Sizes, NEW tbl \in TablesOf(n), NEW key \in Keys
    PROVE  Absent(tbl, n, key) <=> key \notin KeysIn(tbl, DOMAIN tbl)
  BY DEF Absent, Lacks, KeysIn, Full, TablesOf

(* The early return of a lookup: at a free bucket, or at an entry closer to
   home than the probe, the rest of the table need not be searched. *)
LEMMA LookupSound ==
    ASSUME NEW n \in Sizes, NEW hash \in HashFunctions, NEW tbl \in TablesOf(n),
           NEW key \in Keys, NEW p \in Nat,
           WellPlaced(hash, tbl, n, {}),
           \A r \in 0 .. p - 1 : Lacks(tbl, Slot(n, hash[key], r), key),
           LET i == Slot(n, hash[key], p)
           IN  tbl[i] # None => tbl[i].psl < p
    PROVE  Absent(tbl, n, key)
<1>. SUFFICES ASSUME NEW j \in 0 .. n - 1, tbl[j] # None, tbl[j].key = key
              PROVE  FALSE
  BY DEF Absent, Lacks
<1>. DEFINE d == tbl[j].psl
<1>1. d \in Nat
  BY DEF TablesOf, Entries
<1>2. j = Slot(n, hash[key], d) /\ Covered(tbl, n, {}, hash[key], d)
  BY DEF WellPlaced
<1>3. CASE d < p
  BY <1>1, <1>2, <1>3 DEF Lacks
<1>4. CASE d = p
  BY <1>1, <1>2, <1>4
<1>5. CASE d > p
  <2>1. p \in 0 .. d - 1
    BY <1>1, <1>5
  <2>2. /\ tbl[Slot(n, hash[key], p)] # None
        /\ tbl[Slot(n, hash[key], p)].psl >= p
    BY <1>2, <2>1 DEF Covered
  <2>3. Slot(n, hash[key], p) \in 0 .. n - 1
    BY SlotType DEF Sizes, HashFunctions
  <2>4. tbl[Slot(n, hash[key], p)].psl \in Nat
    BY <2>2, <2>3 DEF TablesOf, Entries
  <2>. QED  BY <2>2, <2>4
<1>. QED  BY <1>1, <1>3, <1>4, <1>5

(* Putting a poorer entry down, or an entry into a free bucket, uncovers no
   path. *)
LEMMA PutCovers ==
    ASSUME NEW n \in Sizes, NEW tbl \in TablesOf(n), NEW h \in Nat, NEW p \in Nat,
           NEW e \in Entries, NEW t \in 0 .. n - 1,
           tbl[t] # None => tbl[t].psl < e.psl,
           Covered(tbl, n, {}, h, p)
    PROVE  Covered([tbl EXCEPT ![t] = e], n, {}, h, p)
<1>. DEFINE new == [tbl EXCEPT ![t] = e]
<1>. SUFFICES ASSUME NEW r \in 0 .. p - 1
              PROVE  LET i == Slot(n, h, r)
                     IN  new[i] # None /\ new[i].psl >= r
  BY DEF Covered
<1>. DEFINE i == Slot(n, h, r)
<1>1. i \in 0 .. n - 1
  <2>1. n \in Nat \ {0} /\ r \in Nat
    BY DEF Sizes
  <2>. QED  BY <2>1, SlotType
<1>2. tbl[i] # None /\ tbl[i].psl >= r
  BY DEF Covered
<1>3. tbl[i].psl \in Nat /\ e.psl \in Nat /\ e # None
  BY <1>1, <1>2, NoneAssumption DEF TablesOf, Entries
<1>4. new[i] = IF i = t THEN e ELSE tbl[i]
  BY <1>1 DEF TablesOf
<1>. HIDE DEF i, new
<1>5. new[i] # None /\ new[i].psl >= r
  BY <1>2, <1>3, <1>4
<1>. QED  BY <1>5 DEF i

(* The round of insert and insert_entry that puts the entry in hand down. *)
LEMMA PutKeepsOrder ==
    ASSUME NEW n \in Sizes, NEW hash \in HashFunctions, NEW tbl \in TablesOf(n),
           NEW e \in Entries, NEW t \in 0 .. n - 1,
           t = Slot(n, hash[e.key], e.psl),
           tbl[t] # None => tbl[t].psl < e.psl,
           WellPlaced(hash, tbl, n, {}),
           Covered(tbl, n, {}, hash[e.key], e.psl),
           Absent(tbl, n, e.key)
    PROVE  WellPlaced(hash, [tbl EXCEPT ![t] = e], n, {})
<1>. DEFINE new == [tbl EXCEPT ![t] = e]
<1>1. \A i \in 0 .. n - 1 : new[i] = IF i = t THEN e ELSE tbl[i]
  BY DEF TablesOf
<1>2. ASSUME NEW i \in 0 .. n - 1, new[i] # None
      PROVE  /\ i = Slot(n, hash[new[i].key], new[i].psl)
             /\ Covered(new, n, {}, hash[new[i].key], new[i].psl)
  <2>1. CASE i = t
    <3>1. e.psl \in Nat /\ hash[e.key] \in Nat
      BY DEF Entries, HashFunctions
    <3>2. Covered(new, n, {}, hash[e.key], e.psl)
      BY <3>1, PutCovers
    <3>. QED  BY <1>1, <2>1, <3>2
  <2>2. CASE i # t
    <3>1. new[i] = tbl[i]
      BY <1>1, <2>2
    <3>2. tbl[i].psl \in Nat /\ hash[tbl[i].key] \in Nat
      BY <1>2, <3>1 DEF Entries, HashFunctions, TablesOf
    <3>3. /\ i = Slot(n, hash[tbl[i].key], tbl[i].psl)
          /\ Covered(tbl, n, {}, hash[tbl[i].key], tbl[i].psl)
      BY <1>2, <3>1 DEF WellPlaced
    <3>4. Covered(new, n, {}, hash[tbl[i].key], tbl[i].psl)
      BY <3>2, <3>3, PutCovers
    <3>. QED  BY <3>1, <3>3, <3>4
  <2>. QED  BY <2>1, <2>2
<1>3. ASSUME NEW i \in 0 .. n - 1, NEW j \in 0 .. n - 1,
             new[i] # None, new[j] # None, new[i].key = new[j].key
      PROVE  i = j
  BY <1>1, <1>3 DEF WellPlaced, Absent, Lacks
<1>. HIDE DEF new
<1>4. WellPlaced(hash, new, n, {})
  BY <1>2, <1>3 DEF WellPlaced
<1>. QED  BY <1>4 DEF new

(* The entry that gives way is next looked for one bucket further on: that
   path is covered, and it is nowhere else. *)
LEMMA PutCarriesOn ==
    ASSUME NEW n \in Sizes, NEW hash \in HashFunctions, NEW tbl \in TablesOf(n),
           NEW e \in Entries, NEW t \in 0 .. n - 1,
           tbl[t] # None, tbl[t].psl < e.psl,
           WellPlaced(hash, tbl, n, {}),
           Absent(tbl, n, e.key)
    PROVE  LET new == [tbl EXCEPT ![t] = e]
           IN  /\ Covered(new, n, {}, hash[tbl[t].key], tbl[t].psl + 1)
               /\ Absent(new, n, tbl[t].key)
<1>. DEFINE new == [tbl EXCEPT ![t] = e]
            d == tbl[t]
            h == hash[d.key]
<1>1. /\ d \in Entries /\ d.psl \in Nat /\ h \in Nat
      /\ e.psl \in Nat /\ e # None
  BY NoneAssumption DEF TablesOf, Entries, HashFunctions
<1>2. \A i \in 0 .. n - 1 : new[i] = IF i = t THEN e ELSE tbl[i]
  BY DEF TablesOf
<1>3. t = Slot(n, h, d.psl) /\ Covered(tbl, n, {}, h, d.psl)
  BY DEF WellPlaced
<1>4. Covered(new, n, {}, h, d.psl)
  BY <1>1, <1>3, PutCovers
<1>5. new[t] # None /\ new[t].psl >= d.psl
  BY <1>1, <1>2
<1>6. Absent(new, n, d.key)
  BY <1>1, <1>2 DEF Absent, Lacks, WellPlaced
<1>. HIDE DEF new, d, h
<1>7. Covered(new, n, {}, h, d.psl + 1)
  <2>. SUFFICES ASSUME NEW r \in 0 .. (d.psl + 1) - 1
                PROVE  LET i == Slot(n, h, r)
                       IN  new[i] # None /\ new[i].psl >= r
    BY DEF Covered
  <2>1. CASE r = d.psl
    BY <2>1, <1>3, <1>5
  <2>2. CASE r # d.psl
    <3>1. r \in 0 .. d.psl - 1
      BY <1>1, <2>2
    <3>. QED  BY <3>1, <1>4 DEF Covered
  <2>. QED  BY <2>1, <2>2
<1>. QED  BY <1>6, <1>7 DEF new, d, h

(* Giving an entry another value moves nothing. *)
LEMMA RevalueKeepsOrder ==
    ASSUME NEW n \in Sizes, NEW hash \in HashFunctions, NEW tbl \in TablesOf(n),
           NEW v \in Values, NEW t \in 0 .. n - 1, tbl[t] # None,
           WellPlaced(hash, tbl, n, {})
    PROVE  WellPlaced(hash, [tbl EXCEPT ![t].value = v], n, {})
<1>. DEFINE new == [tbl EXCEPT ![t].value = v]
<1>1. \A i \in 0 .. n - 1 :
          /\ new[i] # None <=> tbl[i] # None
          /\ tbl[i] # None => /\ new[i].key = tbl[i].key
                             /\ new[i].psl = tbl[i].psl
  BY NoneAssumption DEF TablesOf, Entries
<1>2. ASSUME NEW h \in Nat, NEW p \in Nat, Covered(tbl, n, {}, h, p)
      PROVE  Covered(new, n, {}, h, p)
  <2>. SUFFICES ASSUME NEW r \in 0 .. p - 1
                PROVE  LET i == Slot(n, h, r)
                       IN  new[i] # None /\ new[i].psl >= r
    BY DEF Covered
  <2>1. n \in Nat \ {0} /\ r \in Nat
    BY DEF Sizes
  <2>2. Slot(n, h, r) \in 0 .. n - 1
    BY <2>1, SlotType
  <2>3. tbl[Slot(n, h, r)] # None /\ tbl[Slot(n, h, r)].psl >= r
    BY <1>2 DEF Covered
  <2>. HIDE DEF new
  <2>. QED  BY <1>1, <2>2, <2>3
<1>3. \A i \in 0 .. n - 1 : tbl[i] # None =>
          tbl[i].psl \in Nat /\ hash[tbl[i].key] \in Nat
  BY DEF TablesOf, Entries, HashFunctions
<1>. HIDE DEF new
<1>4. WellPlaced(hash, new, n, {})
  BY <1>1, <1>2, <1>3 DEF WellPlaced
<1>. QED  BY <1>4 DEF new

(* A deletion opens a hole. *)
LEMMA TakeKeepsOrder ==
    ASSUME NEW n \in Sizes, NEW hash \in HashFunctions, NEW tbl \in TablesOf(n),
           NEW t \in 0 .. n - 1,
           WellPlaced(hash, tbl, n, {})
    PROVE  WellPlaced(hash, [tbl EXCEPT ![t] = None], n, {t})
<1>. DEFINE new == [tbl EXCEPT ![t] = None]
<1>1. \A i \in 0 .. n - 1 : new[i] = IF i = t THEN None ELSE tbl[i]
  BY DEF TablesOf
<1>2. ASSUME NEW h \in Nat, NEW p \in Nat, Covered(tbl, n, {}, h, p)
      PROVE  Covered(new, n, {t}, h, p)
  <2>. SUFFICES ASSUME NEW r \in 0 .. p - 1
                PROVE  LET i == Slot(n, h, r)
                       IN  i \in {t} \/ (new[i] # None /\ new[i].psl >= r)
    BY DEF Covered
  <2>1. n \in Nat \ {0} /\ r \in Nat
    BY DEF Sizes
  <2>2. Slot(n, h, r) \in 0 .. n - 1
    BY <2>1, SlotType
  <2>3. tbl[Slot(n, h, r)] # None /\ tbl[Slot(n, h, r)].psl >= r
    BY <1>2 DEF Covered
  <2>. HIDE DEF new
  <2>. QED  BY <1>1, <2>2, <2>3
<1>3. \A i \in 0 .. n - 1 : tbl[i] # None =>
          tbl[i].psl \in Nat /\ hash[tbl[i].key] \in Nat
  BY DEF TablesOf, Entries, HashFunctions
<1>. HIDE DEF new
<1>4. WellPlaced(hash, new, n, {t})
  BY <1>1, <1>2, <1>3 DEF WellPlaced
<1>. QED  BY <1>4 DEF new

(* A round of the shift moves the hole one bucket on. *)
LEMMA ShiftKeepsOrder ==
    ASSUME NEW n \in Sizes, NEW hash \in HashFunctions, NEW tbl \in TablesOf(n),
           NEW t \in 0 .. n - 1, NEW next, next = (t + 1) % n,
           WellPlaced(hash, tbl, n, {t}),
           tbl[t] = None, tbl[next] # None, tbl[next].psl > 0
    PROVE  WellPlaced(hash,
                      [tbl EXCEPT ![t] = [tbl[next] EXCEPT !.psl = @ - 1],
                                  ![next] = None],
                      n, {next})
<1>. DEFINE d == tbl[next]
            moved == [d EXCEPT !.psl = @ - 1]
            new == [tbl EXCEPT ![t] = moved, ![next] = None]
<1>1. n \in Nat \ {0} /\ next \in 0 .. n - 1 /\ next # t
  BY Successor DEF Sizes
<1>2. /\ d \in Entries
      /\ d.psl \in Nat \ {0}
      /\ hash[d.key] \in Nat
      /\ moved \in Entries
      /\ moved # None
      /\ moved.key = d.key
      /\ moved.psl = d.psl - 1
      /\ moved.psl \in Nat
  BY <1>1, NoneAssumption DEF TablesOf, Entries, HashFunctions
<1>. HIDE DEF moved
<1>3. \A i \in 0 .. n - 1 : new[i] = IF i = next THEN None
                                    ELSE IF i = t THEN moved ELSE tbl[i]
  BY <1>1 DEF TablesOf
<1>4. \A i \in 0 .. n - 1 : tbl[i] # None =>
          tbl[i].psl \in Nat /\ hash[tbl[i].key] \in Nat
  BY DEF TablesOf, Entries, HashFunctions
<1>. HIDE DEF new
<1>5. ASSUME NEW h \in Nat, NEW p \in Nat,
             Covered(tbl, n, {t}, h, p),
             Slot(n, h, p) # next
      PROVE  Covered(new, n, {next}, h, p)
  <2>. SUFFICES ASSUME NEW r \in 0 .. p - 1, Slot(n, h, r) # next
                PROVE  /\ new[Slot(n, h, r)] # None
                       /\ new[Slot(n, h, r)].psl >= r
    BY DEF Covered
  <2>1. r \in Nat /\ Slot(n, h, r) \in 0 .. n - 1
    BY <1>1, SlotType
  <2>2. CASE Slot(n, h, r) = t
    <3>1. Slot(n, h, r + 1) = next
      BY <1>1, <2>1, <2>2, SlotNext
    <3>2. r + 1 \in 0 .. p - 1
      BY <1>5, <2>1, <3>1
    <3>3. d.psl >= r + 1
      BY <1>1, <1>5, <3>1, <3>2 DEF Covered
    <3>. QED  BY <1>1, <1>2, <1>3, <2>1, <2>2, <3>3
  <2>3. CASE Slot(n, h, r) # t
    BY <1>3, <1>5, <2>1, <2>3 DEF Covered
  <2>. QED  BY <2>2, <2>3
<1>6. /\ t = Slot(n, hash[d.key], moved.psl)
      /\ Covered(new, n, {next}, hash[d.key], moved.psl)
  <2>1. /\ next = Slot(n, hash[d.key], d.psl)
        /\ Covered(tbl, n, {t}, hash[d.key], d.psl)
    BY <1>1 DEF WellPlaced
  <2>2. t = Slot(n, hash[d.key], moved.psl)
    BY <1>1, <1>2, <2>1, SlotPrevious
  <2>3. Covered(tbl, n, {t}, hash[d.key], moved.psl)
    <3>1. ASSUME NEW r \in 0 .. moved.psl - 1
          PROVE  r \in 0 .. d.psl - 1
      BY <1>2
    <3>. QED  BY <2>1, <3>1, Zenon DEF Covered
  <2>4. /\ hash[d.key] \in Nat /\ moved.psl \in Nat
        /\ Slot(n, hash[d.key], moved.psl) # next
    <3>1. hash[d.key] \in Nat /\ moved.psl \in Nat
      BY <1>2
    <3>2. next # t
      BY <1>1
    <3>3. Slot(n, hash[d.key], moved.psl) # next
      BY <2>2, <3>2, Zenon
    <3>. QED  BY <3>1, <3>3
  <2>5. Covered(new, n, {next}, hash[d.key], moved.psl)
    BY <1>5, <2>3, <2>4
  <2>. QED  BY <2>2, <2>5
<1>7. ASSUME NEW i \in 0 .. n - 1, i # t, i # next, tbl[i] # None
      PROVE  /\ i = Slot(n, hash[tbl[i].key], tbl[i].psl)
             /\ Covered(new, n, {next}, hash[tbl[i].key], tbl[i].psl)
  <2>1. /\ i = Slot(n, hash[tbl[i].key], tbl[i].psl)
        /\ Covered(tbl, n, {t}, hash[tbl[i].key], tbl[i].psl)
    BY <1>7 DEF WellPlaced
  <2>2. tbl[i].psl \in Nat /\ hash[tbl[i].key] \in Nat
    BY <1>4, <1>7
  <2>. QED  BY <1>5, <1>7, <2>1, <2>2
<1>8. ASSUME NEW i \in 0 .. n - 1, new[i] # None
      PROVE  /\ i = Slot(n, hash[new[i].key], new[i].psl)
             /\ Covered(new, n, {next}, hash[new[i].key], new[i].psl)
  <2>1. CASE i = t
    BY <1>1, <1>2, <1>3, <1>6, <2>1
  <2>2. CASE i # t
    BY <1>3, <1>7, <1>8, <2>2
  <2>. QED  BY <2>1, <2>2
<1>9. ASSUME NEW i \in 0 .. n - 1, NEW j \in 0 .. n - 1,
             new[i] # None, new[j] # None, new[i].key = new[j].key
      PROVE  i = j
  BY <1>1, <1>2, <1>3, <1>9 DEF WellPlaced
<1>10. WellPlaced(hash, new, n, {next})
  BY <1>8, <1>9 DEF WellPlaced
<1>. QED  BY <1>10 DEF new, moved

(* The shift is over where the next entry is at home: the hole is on nobody's
   path. *)
LEMMA ShiftClosesHole ==
    ASSUME NEW n \in Sizes, NEW hash \in HashFunctions, NEW tbl \in TablesOf(n),
           NEW t \in 0 .. n - 1, NEW next, next = (t + 1) % n,
           WellPlaced(hash, tbl, n, {t}),
           tbl[next] # None => ~ (tbl[next].psl > 0)
    PROVE  WellPlaced(hash, tbl, n, {})
<1>1. n \in Nat \ {0} /\ next \in 0 .. n - 1 /\ next # t
  BY Successor DEF Sizes
<1>2. ASSUME NEW j \in 0 .. n - 1, tbl[j] # None
      PROVE  Covered(tbl, n, {}, hash[tbl[j].key], tbl[j].psl)
  <2>. DEFINE h == hash[tbl[j].key]
              p == tbl[j].psl
  <2>1. /\ p \in Nat /\ h \in Nat
        /\ j = Slot(n, h, p)
        /\ Covered(tbl, n, {t}, h, p)
    BY <1>2 DEF WellPlaced, TablesOf, Entries, HashFunctions
  <2>. HIDE DEF h
  <2>2. ASSUME NEW r \in 0 .. p - 1, Slot(n, h, r) = t
        PROVE  FALSE
    <3>1. r \in Nat
      OBVIOUS
    <3>2. Slot(n, h, r + 1) = next
      BY <1>1, <2>1, <2>2, <3>1, SlotNext
    <3>3. CASE r + 1 = p
      BY <1>2, <2>1, <3>1, <3>2, <3>3
    <3>4. CASE r + 1 # p
      <4>1. r + 1 \in 0 .. p - 1
        BY <2>1, <3>1, <3>4
      <4>2. tbl[next] # None /\ tbl[next].psl >= r + 1
        BY <1>1, <2>1, <3>2, <4>1 DEF Covered
      <4>3. tbl[next].psl \in Nat
        BY <1>1, <4>2 DEF TablesOf, Entries
      <4>. QED  BY <3>1, <4>2, <4>3
    <3>. QED  BY <3>3, <3>4
  <2>3. Covered(tbl, n, {}, h, p)
    BY <2>1, <2>2 DEF Covered
  <2>. QED  BY <2>3 DEF h
<1>. QED  BY <1>2 DEF WellPlaced

-----------------------------------------------------------------------------
(* Counting.                                                               *)

LEMMA FullFinite ==
    ASSUME NEW n \in Nat, NEW tbl, NEW part \in SUBSET (0 .. n - 1)
    PROVE  /\ IsFiniteSet(Full(tbl, part))
           /\ Cardinality(Full(tbl, part)) \in Nat
<1>1. IsFiniteSet(0 .. n - 1)
  BY FS_Interval
<1>2. Full(tbl, part) \subseteq 0 .. n - 1
  BY DEF Full
<1>. QED  BY <1>1, <1>2, FS_Subset, FS_CardinalityType

(* A table has one entry more once a free bucket is taken, one less once a
   taken one is freed, and as many where the same buckets are taken. *)
LEMMA FullPut ==
    ASSUME NEW n \in Nat, NEW tbl \in TablesOf(n), NEW t \in 0 .. n - 1,
           NEW e \in Entries, tbl[t] = None
    PROVE  LET new == [tbl EXCEPT ![t] = e]
           IN  Cardinality(Full(new, DOMAIN new)) = Cardinality(Full(tbl, DOMAIN tbl)) + 1
<1>. DEFINE new == [tbl EXCEPT ![t] = e]
<1>1. DOMAIN tbl = 0 .. n - 1 /\ DOMAIN new = 0 .. n - 1
  BY DEF TablesOf
<1>2. Full(new, DOMAIN new) = Full(tbl, DOMAIN tbl) \cup {t}
  BY <1>1, NoneAssumption DEF Full, TablesOf
<1>3. t \notin Full(tbl, DOMAIN tbl)
  BY DEF Full
<1>4. IsFiniteSet(Full(tbl, DOMAIN tbl))
  BY <1>1, FullFinite
<1>. QED  BY <1>2, <1>3, <1>4, FS_AddElement

LEMMA FullTake ==
    ASSUME NEW n \in Nat, NEW tbl \in TablesOf(n), NEW t \in 0 .. n - 1,
           tbl[t] # None
    PROVE  LET new == [tbl EXCEPT ![t] = None]
           IN  /\ Cardinality(Full(new, DOMAIN new)) = Cardinality(Full(tbl, DOMAIN tbl)) - 1
               /\ Cardinality(Full(tbl, DOMAIN tbl)) > 0
<1>. DEFINE new == [tbl EXCEPT ![t] = None]
<1>1. DOMAIN tbl = 0 .. n - 1 /\ DOMAIN new = 0 .. n - 1
  BY DEF TablesOf
<1>2. Full(tbl, DOMAIN tbl) = Full(new, DOMAIN new) \cup {t}
  BY <1>1 DEF Full, TablesOf
<1>3. t \notin Full(new, DOMAIN new)
  BY DEF Full, TablesOf
<1>4. IsFiniteSet(Full(new, DOMAIN new)) /\ Cardinality(Full(new, DOMAIN new)) \in Nat
  BY <1>1, FullFinite
<1>. HIDE DEF new
<1>5. Cardinality(Full(tbl, DOMAIN tbl)) = Cardinality(Full(new, DOMAIN new)) + 1
  BY <1>2, <1>3, <1>4, FS_AddElement
<1>6. /\ Cardinality(Full(new, DOMAIN new)) = Cardinality(Full(tbl, DOMAIN tbl)) - 1
      /\ Cardinality(Full(tbl, DOMAIN tbl)) > 0
  BY <1>4, <1>5
<1>. QED  BY <1>6 DEF new

-----------------------------------------------------------------------------
(* Types.                                                                  *)

LEMMA HashType == TypeOK => hasher \in HashFunctions
  BY HashAssumption DEF TypeOK, HashFunctions

LEMMA TargetType ==
    TypeOK /\ pc \in {"insert", "insert_entry"} =>
        /\ Target \in 0 .. cap - 1
        /\ entry \in Entries
        /\ buckets[Target] \in Entries \cup {None}
<1>. SUFFICES ASSUME TypeOK, pc \in {"insert", "insert_entry"}
              PROVE  /\ Target \in 0 .. cap - 1
                     /\ entry \in Entries
                     /\ buckets[Target] \in Entries \cup {None}
  OBVIOUS
<1>1. entry \in Entries
  BY DEF TypeOK
<1>2. hasher[entry.key] \in Nat /\ entry.psl \in Nat /\ cap \in Nat \ {0}
  BY <1>1, HashType DEF HashFunctions, Entries, TypeOK
<1>3. Target \in 0 .. cap - 1
  BY <1>2, SlotType DEF Target
<1>. QED  BY <1>1, <1>3 DEF TypeOK

LEMMA ProbedType ==
    TypeOK /\ pc = "probe" =>
        /\ Probed \in 0 .. cap - 1
        /\ op.key \in Keys
        /\ buckets[Probed] \in Entries \cup {None}
<1>. SUFFICES ASSUME TypeOK, pc = "probe"
              PROVE  /\ Probed \in 0 .. cap - 1
                     /\ op.key \in Keys
                     /\ buckets[Probed] \in Entries \cup {None}
  OBVIOUS
<1>1. op.key \in Keys /\ hasher[op.key] \in Nat /\ psl \in Nat /\ cap \in Nat \ {0}
  BY HashType DEF HashFunctions, TypeOK
<1>2. Probed \in 0 .. cap - 1
  BY <1>1, SlotType DEF Probed
<1>. QED  BY <1>1, <1>2 DEF TypeOK

LEMMA NextBucketType ==
    TypeOK => /\ NextBucket \in 0 .. cap - 1
              /\ buckets[NextBucket] \in Entries \cup {None}
<1>. SUFFICES ASSUME TypeOK
              PROVE  /\ NextBucket \in 0 .. cap - 1
                     /\ buckets[NextBucket] \in Entries \cup {None}
  OBVIOUS
<1>1. NextBucket \in 0 .. cap - 1
  BY Successor DEF TypeOK, NextBucket
<1>. QED  BY <1>1 DEF TypeOK

LEMMA NewTableType ==
    ASSUME NEW n \in Nat
    PROVE  /\ NewTable(n) \in [0 .. n - 1 -> Entries \cup {None}]
           /\ DOMAIN NewTable(n) = 0 .. n - 1
           /\ \A i \in 0 .. n - 1 : NewTable(n)[i] = None
  BY DEF NewTable

LEMMA ZeroIndex ==
    ASSUME NEW n \in Sizes
    PROVE  0 \in 0 .. n - 1
  BY DEF Sizes

(* What Return leaves is well typed wherever the table is. *)
LEMMA ReturnType ==
    ASSUME TypeOK, NEW answer \in Values \cup {None}, Return(answer),
           hasher' = hasher,
           cap' \in Nat \ {0, 1},
           buckets' \in [0 .. cap' - 1 -> Entries \cup {None}],
           len' \in Nat
    PROVE  TypeOK'
<1>1. old' \in [0 .. 0 - 1 -> Entries \cup {None}]
  BY NewTableType DEF Return
<1>2. /\ pc' = "idle" /\ op' = None /\ result' = answer /\ entry' = None
      /\ psl' = 0 /\ hole' = 0 /\ cursor' = 0
  BY DEF Return
<1>3. 0 \in 0 .. cap' - 1
  BY ZeroIndex DEF Sizes
<1>4. (IF pc' \in {"resize", "insert_entry"} THEN cap' \div 2 ELSE 0) = 0
  BY <1>2
<1>5. old' \in [0 .. (IF pc' \in {"resize", "insert_entry"}
                     THEN cap' \div 2 ELSE 0) - 1 -> Entries \cup {None}]
  BY <1>1, <1>4
<1>6. hole' \in 0 .. cap' - 1
  BY <1>2, <1>3
<1>7. (entry' # None) = (pc' \in {"insert", "insert_entry", "shift"})
  BY <1>2
<1>. QED  BY <1>2, <1>5, <1>6, <1>7 DEF TypeOK

LEMMA TypeInit == Init => TypeOK
<1>. SUFFICES ASSUME Init PROVE TypeOK
  OBVIOUS
<1>1. old \in [0 .. 0 - 1 -> Entries \cup {None}]
  BY NewTableType DEF Init
<1>2. /\ cap \in Nat \ {0, 1}
      /\ buckets \in [0 .. cap - 1 -> Entries \cup {None}]
      /\ hole \in 0 .. cap - 1
  BY CapacityAssumption, NewTableType DEF Init
<1>. QED  BY <1>1, <1>2 DEF Init, TypeOK

(* Every action keeps the types; a deletion needs the count to be right, or
   len would run below zero. *)
LEMMA TypeStep == TypeOK /\ LoadBounded /\ [Next]_vars => TypeOK'
<1>. SUFFICES ASSUME TypeOK, LoadBounded, [Next]_vars
              PROVE  TypeOK'
  OBVIOUS
<1>1. ASSUME NEW key \in Keys, NEW value \in Values, Insert(key, value)
      PROVE  TypeOK'
  <2>1. entry' \in Entries /\ entry' # None
    BY <1>1, NoneAssumption DEF Insert, Entries
  <2>. QED  BY <1>1, <2>1 DEF TypeOK, Insert, table, Methods
<1>2. ASSUME NEW key \in Keys, NEW value \in Values, GetMut(key, value)
      PROVE  TypeOK'
  BY <1>2 DEF TypeOK, GetMut, Lookup, table, frame, Methods
<1>3. ASSUME NEW key \in Keys, Get(key) PROVE TypeOK'
  BY <1>3 DEF TypeOK, Get, Lookup, table, frame, Methods
<1>4. ASSUME NEW key \in Keys, Del(key) PROVE TypeOK'
  BY <1>4 DEF TypeOK, Del, Lookup, table, frame, Methods
<1>5. CASE InsertPlace
  <2>. DEFINE full == [buckets EXCEPT ![Target] = entry]
  <2>1. full \in [0 .. cap - 1 -> Entries \cup {None}]
    BY <1>5, TargetType DEF InsertPlace, TypeOK
  <2>2. len' \in Nat /\ len' = len + 1 /\ hasher' = hasher
    BY <1>5 DEF InsertPlace, TypeOK
  <2>3. CASE ShouldResize(len + 1)
    <3>1. Resize(full)
      BY <1>5, <2>3 DEF InsertPlace
    <3>2. cap' \in Nat \ {0, 1} /\ cap' \div 2 = cap /\ hole \in 0 .. cap' - 1
      <4>1. cap' = 2 * cap
        BY <3>1, Zenon DEF Resize
      <4>2. cap \in Nat \ {0, 1} /\ hole \in 0 .. cap - 1
        BY DEF TypeOK
      <4>. QED  BY <4>1, <4>2
    <3>3. buckets' \in [0 .. cap' - 1 -> Entries \cup {None}]
      BY <3>1, <3>2, NewTableType DEF Resize
    <3>4. old' \in [0 .. (cap' \div 2) - 1 -> Entries \cup {None}]
      BY <2>1, <3>1, <3>2 DEF Resize
    <3>5. pc = "insert"
      BY <1>5 DEF InsertPlace
    <3>. HIDE DEF full
    <3>. QED  BY <2>2, <3>1, <3>2, <3>3, <3>4, <3>5 DEF Resize, TypeOK
  <2>4. CASE ~ ShouldResize(len + 1)
    BY <1>5, <2>1, <2>2, <2>4, ReturnType DEF InsertPlace, TypeOK
  <2>. QED  BY <2>3, <2>4
<1>6. CASE InsertReplace
  <2>1. buckets' \in [0 .. cap - 1 -> Entries \cup {None}]
    BY <1>6, TargetType DEF InsertReplace, TypeOK, Entries
  <2>2. buckets[Target].value \in Values
    BY <1>6, TargetType DEF InsertReplace, Entries
  <2>. QED  BY <1>6, <2>1, <2>2, ReturnType DEF InsertReplace, TypeOK
<1>7. ASSUME pc \in {"insert", "insert_entry"}, buckets[Target] # None, Displace,
             UNCHANGED <<hasher, cap, len, pc, op, psl, hole, old, cursor, result>>
      PROVE  TypeOK'
  <2>1. buckets' \in [0 .. cap - 1 -> Entries \cup {None}]
    BY <1>7, TargetType DEF Displace, TypeOK
  <2>2. entry' \in Entries
    BY <1>7, TargetType DEF Displace, Entries
  <2>. QED  BY <1>7, <2>1, <2>2, NoneAssumption DEF TypeOK
<1>8. CASE InsertProbe
  BY <1>7, <1>8 DEF InsertProbe
<1>9. CASE ResizeSkip
  BY <1>9 DEF ResizeSkip, table, TypeOK
<1>10. CASE ResizeTake
  <2>1. old[cursor] \in Entries
    BY <1>10 DEF ResizeTake, TypeOK
  <2>2. entry' \in Entries /\ entry' # None
    BY <1>10, <2>1, NoneAssumption DEF ResizeTake, Entries
  <2>. QED  BY <1>10, <2>2 DEF ResizeTake, table, TypeOK
<1>11. CASE ResizeDone
  BY <1>11, ReturnType DEF ResizeDone, table, TypeOK
<1>12. CASE InsertEntryPlace
  <2>1. buckets' \in [0 .. cap - 1 -> Entries \cup {None}]
    BY <1>12, TargetType DEF InsertEntryPlace, TypeOK
  <2>. QED  BY <1>12, <2>1 DEF InsertEntryPlace, TypeOK
<1>13. CASE InsertEntryProbe
  BY <1>7, <1>13 DEF InsertEntryProbe
<1>14. CASE ProbeMiss
  BY <1>14, ReturnType DEF ProbeMiss, table, TypeOK
<1>15. CASE ProbeOn
  BY <1>15 DEF ProbeOn, table, TypeOK
<1>16. CASE FoundGet
  <2>1. buckets[Probed].value \in Values \cup {None}
    BY <1>16, ProbedType DEF FoundGet, Found, GivesUp, Entries
  <2>. QED  BY <1>16, <2>1, ReturnType DEF FoundGet, table, TypeOK
<1>17. CASE FoundGetMut
  <2>1. buckets[Probed] \in Entries
    BY <1>17, ProbedType DEF FoundGetMut, Found, GivesUp
  <2>2. op.value \in Values
    BY <1>17 DEF FoundGetMut, Found, TypeOK
  <2>3. buckets' \in [0 .. cap - 1 -> Entries \cup {None}]
    BY <1>17, <2>1, <2>2, ProbedType DEF FoundGetMut, TypeOK, Entries
  <2>4. buckets[Probed].value \in Values \cup {None}
    BY <2>1 DEF Entries
  <2>. QED  BY <1>17, <2>3, <2>4, ReturnType DEF FoundGetMut, TypeOK
<1>18. CASE FoundDel
  <2>1. pc = "probe" /\ buckets[Probed] \in Entries /\ Probed \in 0 .. cap - 1
    BY <1>18, ProbedType DEF FoundDel, Found, GivesUp
  <2>2. buckets' \in [0 .. cap - 1 -> Entries \cup {None}]
    BY <1>18, <2>1 DEF FoundDel, TypeOK
  <2>3. len' \in Nat
    <3>1. Cardinality(Occupied) > 0 /\ Cardinality(Occupied) \in Nat
      <4>1. DOMAIN buckets = 0 .. cap - 1 /\ cap \in Nat
        BY DEF TypeOK
      <4>2. buckets \in TablesOf(cap) /\ buckets[Probed] # None
        BY <2>1, NoneAssumption DEF TypeOK, TablesOf
      <4>. QED  BY <2>1, <4>1, <4>2, FullTake, FullFinite DEF Occupied
    <3>2. Cardinality(Full(old, Remaining)) \in Nat
      <4>1. Remaining \subseteq 0 .. 0 - 1
        BY <2>1 DEF TypeOK, Remaining
      <4>2. Remaining \in SUBSET (0 .. 0 - 1)
        BY <4>1
      <4>. QED  BY <4>2, FullFinite, 0 \in Nat
    <3>. QED  BY <1>18, <2>1, <3>1, <3>2 DEF FoundDel, LoadBounded
  <2>4. entry' \in Entries /\ entry' # None
    BY <1>18, <2>1, NoneAssumption DEF FoundDel
  <2>. QED  BY <1>18, <2>1, <2>2, <2>3, <2>4 DEF FoundDel, TypeOK
<1>19. CASE ShiftBack
  <2>1. /\ NextBucket \in 0 .. cap - 1
        /\ buckets[NextBucket] \in Entries
        /\ buckets[NextBucket].psl > 0
    BY <1>19, NextBucketType DEF ShiftBack, Displaced
  <2>2. [buckets[NextBucket] EXCEPT !.psl = @ - 1] \in Entries
    BY <2>1 DEF Entries
  <2>3. buckets' \in [0 .. cap - 1 -> Entries \cup {None}]
    BY <1>19, <2>1, <2>2 DEF ShiftBack, TypeOK
  <2>. QED  BY <1>19, <2>1, <2>3 DEF ShiftBack, TypeOK
<1>20. CASE ShiftDone
  <2>1. entry \in Entries
    BY <1>20 DEF ShiftDone, TypeOK
  <2>2. entry.value \in Values \cup {None}
    BY <2>1 DEF Entries
  <2>. QED  BY <1>20, <2>2, ReturnType DEF ShiftDone, table, TypeOK
<1>21. CASE UNCHANGED vars
  BY <1>21 DEF vars, table, frame, TypeOK
<1>. QED  BY <1>1, <1>2, <1>3, <1>4, <1>5, <1>6, <1>8, <1>9, <1>10, <1>11, <1>12,
            <1>13, <1>14, <1>15, <1>16, <1>17, <1>18, <1>19, <1>20, <1>21
         DEF Next, Step

-----------------------------------------------------------------------------
(* The load.                                                               *)

\* The entries a table counts, and those that resize has not reached.
Count(tbl) == Cardinality(Full(tbl, DOMAIN tbl))
Rest(tbl, c) == Cardinality(Full(tbl, DOMAIN tbl \ (0 .. c - 1)))
InHand(loop) == IF loop = "insert_entry" THEN 1 ELSE 0

LEMMA LoadDef ==
    /\ LoadBounded  = (/\ len = Count(buckets) + Rest(old, cursor) + InHand(pc)
                       /\ 4 * len < 3 * cap)
    /\ LoadBounded' = (/\ len' = Count(buckets') + Rest(old', cursor') + InHand(pc')
                       /\ 4 * len' < 3 * cap')
  BY DEF LoadBounded, Occupied, Remaining, Count, Rest, InHand

LEMMA CountType ==
    ASSUME NEW n \in Nat, NEW tbl \in TablesOf(n), NEW c \in Nat
    PROVE  Count(tbl) \in Nat /\ Rest(tbl, c) \in Nat
<1>1. DOMAIN tbl = 0 .. n - 1
  BY DEF TablesOf
<1>2. DOMAIN tbl \ (0 .. c - 1) \in SUBSET (0 .. n - 1)
  BY <1>1
<1>3. DOMAIN tbl \in SUBSET (0 .. n - 1)
  BY <1>1
<1>. QED  BY <1>2, <1>3, FullFinite DEF Count, Rest

LEMMA NothingCounted ==
    ASSUME NEW n \in Nat, NEW c \in Nat
    PROVE  Count(NewTable(n)) = 0 /\ Rest(NewTable(n), c) = 0
<1>1. /\ Full(NewTable(n), DOMAIN NewTable(n)) = {}
      /\ Full(NewTable(n), DOMAIN NewTable(n) \ (0 .. c - 1)) = {}
  BY NewTableType DEF Full
<1>. QED  BY <1>1, FS_EmptySet DEF Count, Rest

LEMMA NothingLeft ==
    TypeOK /\ pc \notin {"resize", "insert_entry"} => Rest(old, cursor) = 0
<1>. SUFFICES ASSUME TypeOK, pc \notin {"resize", "insert_entry"}
              PROVE  Rest(old, cursor) = 0
  OBVIOUS
<1>1. DOMAIN old = {}
  BY DEF TypeOK
<1>2. Full(old, DOMAIN old \ (0 .. cursor - 1)) = {}
  BY <1>1 DEF Full
<1>. QED  BY <1>2, FS_EmptySet DEF Rest

(* The counts of the current state. *)
LEMMA CountsNow ==
    TypeOK => /\ Count(buckets) \in Nat
              /\ Rest(old, cursor) \in Nat
              /\ buckets \in TablesOf(cap)
              /\ cap \in Nat /\ cap >= 2
              /\ DOMAIN buckets = 0 .. cap - 1
<1>. SUFFICES ASSUME TypeOK
              PROVE  /\ Count(buckets) \in Nat
                     /\ Rest(old, cursor) \in Nat
                     /\ buckets \in TablesOf(cap)
                     /\ cap \in Nat /\ cap >= 2
                     /\ DOMAIN buckets = 0 .. cap - 1
  OBVIOUS
<1>1. buckets \in TablesOf(cap) /\ cap \in Nat /\ cap >= 2 /\ cursor \in Nat
  BY DEF TypeOK, TablesOf
<1>2. (IF pc \in {"resize", "insert_entry"} THEN cap \div 2 ELSE 0) \in Nat
  BY <1>1
<1>3. old \in TablesOf(IF pc \in {"resize", "insert_entry"} THEN cap \div 2 ELSE 0)
  BY DEF TypeOK, TablesOf
<1>. QED  BY <1>1, <1>2, <1>3, CountType DEF TypeOK

(* Entries that change places or values are counted as before. *)
LEMMA CountSame ==
    ASSUME NEW n \in Nat, NEW tbl \in TablesOf(n), NEW t \in 0 .. n - 1,
           tbl[t] # None, NEW e \in Entries
    PROVE  Count([tbl EXCEPT ![t] = e]) = Count(tbl)
<1>1. Full([tbl EXCEPT ![t] = e], DOMAIN [tbl EXCEPT ![t] = e])
          = Full(tbl, DOMAIN tbl)
  BY NoneAssumption DEF Full, TablesOf
<1>. QED  BY <1>1 DEF Count

LEMMA CountMoved ==
    ASSUME NEW n \in Nat, NEW tbl \in TablesOf(n),
           NEW t \in 0 .. n - 1, NEW u \in 0 .. n - 1,
           t # u, tbl[t] = None, tbl[u] # None, NEW e \in Entries
    PROVE  Count([tbl EXCEPT ![t] = e, ![u] = None]) = Count(tbl)
<1>. DEFINE put == [tbl EXCEPT ![t] = e]
<1>1. put \in TablesOf(n) /\ put[u] # None
  BY DEF TablesOf
<1>2. Count(put) = Count(tbl) + 1
  BY FullPut DEF Count
<1>3. Count([put EXCEPT ![u] = None]) = Count(put) - 1
  BY <1>1, FullTake DEF Count
<1>4. [put EXCEPT ![u] = None] = [tbl EXCEPT ![t] = e, ![u] = None]
  BY DEF TablesOf
<1>5. Count(tbl) \in Nat
  BY CountType, 0 \in Nat
<1>. HIDE DEF put
<1>. QED  BY <1>2, <1>3, <1>4, <1>5

(* Resize takes the entries of the old table one by one. *)
LEMMA RestTaken ==
    ASSUME NEW n \in Nat, NEW tbl \in TablesOf(n), NEW c \in Nat, c \in DOMAIN tbl
    PROVE  Rest(tbl, c + 1) = IF tbl[c] = None THEN Rest(tbl, c) ELSE Rest(tbl, c) - 1
<1>. DEFINE part == DOMAIN tbl \ (0 .. c - 1)
            rest == DOMAIN tbl \ (0 .. (c + 1) - 1)
<1>1. DOMAIN tbl = 0 .. n - 1
  BY DEF TablesOf
<1>2. part = rest \cup {c} /\ c \notin rest
  BY <1>1
<1>3. rest \in SUBSET (0 .. n - 1)
  BY <1>1
<1>4. IsFiniteSet(Full(tbl, rest)) /\ Cardinality(Full(tbl, rest)) \in Nat
  BY <1>3, FullFinite
<1>. HIDE DEF part, rest
<1>5. CASE tbl[c] = None
  <2>1. Full(tbl, part) = Full(tbl, rest)
    BY <1>2, <1>5 DEF Full
  <2>. QED  BY <1>5, <2>1 DEF Rest, part, rest
<1>6. CASE tbl[c] # None
  <2>1. Full(tbl, part) = Full(tbl, rest) \cup {c} /\ c \notin Full(tbl, rest)
    BY <1>2, <1>6 DEF Full
  <2>2. Cardinality(Full(tbl, part)) = Cardinality(Full(tbl, rest)) + 1
    BY <1>4, <2>1, FS_AddElement
  <2>3. Cardinality(Full(tbl, rest)) = Cardinality(Full(tbl, part)) - 1
    BY <1>4, <2>2
  <2>. QED  BY <1>6, <2>3 DEF Rest, part, rest
<1>. QED  BY <1>5, <1>6

LEMMA LoadInit == Init => LoadBounded
<1>. SUFFICES ASSUME Init PROVE LoadBounded
  OBVIOUS
<1>1. Count(buckets) = 0 /\ Rest(old, cursor) = 0
  BY NothingCounted, CapacityAssumption DEF Init
<1>2. InHand(pc) = 0 /\ len = 0 /\ cap \in Nat /\ cap >= 2
  BY CapacityAssumption DEF Init, InHand
<1>. QED  BY <1>1, <1>2, LoadDef

(* A call that returns leaves nothing to move. *)
LEMMA LoadReturn ==
    ASSUME NEW answer, Return(answer)
    PROVE  Rest(old', cursor') = 0 /\ InHand(pc') = 0
  BY NothingCounted DEF Return, InHand

(* Every action keeps the count right and the load under its limit. *)
LEMMA LoadStep == TypeOK /\ RobinHood /\ LoadBounded /\ [Next]_vars => LoadBounded'
<1>. SUFFICES ASSUME TypeOK, RobinHood, LoadBounded, [Next]_vars
              PROVE  LoadBounded'
  OBVIOUS
<1>. DEFINE count == Count(buckets)
            rest == Rest(old, cursor)
<1>1. /\ count \in Nat /\ rest \in Nat /\ InHand(pc) \in Nat /\ len \in Nat
      /\ buckets \in TablesOf(cap)
      /\ cap \in Nat /\ cap >= 2
      /\ len = count + rest + InHand(pc)
      /\ 4 * len < 3 * cap
  BY CountsNow, LoadDef DEF TypeOK, InHand
<1>2. ASSUME len' = Count(buckets') + Rest(old', cursor') + InHand(pc'),
             4 * len' < 3 * cap'
      PROVE  LoadBounded'
  BY <1>2, LoadDef
<1>3. pc \notin {"resize", "insert_entry"} => rest = 0 /\ InHand(pc) = 0
  BY NothingLeft DEF InHand
<1>. HIDE DEF count, rest
\* The calls and the rounds that leave the table and the old one alone.
<1>4. ASSUME UNCHANGED <<table, old, cursor>>, InHand(pc') = InHand(pc)
      PROVE  LoadBounded'
  BY <1>1, <1>2, <1>4 DEF table, count, rest
\* The returns that leave the number of entries alone.
<1>5. ASSUME NEW answer, Return(answer), rest = 0, InHand(pc) = 0,
             len' = len, cap' = cap, Count(buckets') = count
      PROVE  LoadBounded'
  BY <1>1, <1>2, <1>5, LoadReturn
\* The rounds that exchange the entry in hand for another.
<1>6. ASSUME pc \in {"insert", "insert_entry"}, buckets[Target] # None, Displace,
             UNCHANGED <<cap, len, pc, old, cursor>>
      PROVE  LoadBounded'
  <2>1. Target \in 0 .. cap - 1 /\ entry \in Entries
    BY <1>6, TargetType
  <2>2. Count(buckets') = count
    BY <1>1, <1>6, <2>1, CountSame DEF Displace, count
  <2>. QED  BY <1>1, <1>2, <1>6, <2>2 DEF rest
<1>7. ASSUME NEW key \in Keys, NEW value \in Values,
             Insert(key, value) \/ GetMut(key, value)
      PROVE  LoadBounded'
  BY <1>4, <1>7 DEF Insert, GetMut, Lookup, table, frame, InHand
<1>8. ASSUME NEW key \in Keys, Get(key) \/ Del(key)
      PROVE  LoadBounded'
  BY <1>4, <1>8 DEF Get, Del, Lookup, table, frame, InHand
<1>9. CASE InsertPlace
  <2>. DEFINE full == [buckets EXCEPT ![Target] = entry]
  <2>1. /\ Target \in 0 .. cap - 1
        /\ entry \in Entries
        /\ buckets[Target] = None
        /\ rest = 0
        /\ InHand(pc) = 0
        /\ len' = len + 1
    BY <1>3, <1>9, TargetType DEF InsertPlace
  <2>2. Count(full) = count + 1
    BY <1>1, <2>1, FullPut DEF Count, count
  <2>. HIDE DEF full
  <2>3. CASE ShouldResize(len + 1)
    <3>1. Resize(full)
      BY <1>9, <2>3 DEF InsertPlace, full
    <3>2. /\ old' = full
          /\ cursor' = 0
          /\ cap' = 2 * cap
          /\ buckets' = NewTable(2 * cap)
          /\ pc' = "resize"
      BY <3>1 DEF Resize
    <3>3. Rest(old', cursor') = Count(full)
      <4>1. DOMAIN full \ (0 .. 0 - 1) = DOMAIN full
        OBVIOUS
      <4>. QED  BY <3>2, <4>1 DEF Rest, Count
    <3>4. Count(buckets') = 0
      BY <1>1, <3>2, NothingCounted, 2 * cap \in Nat, 0 \in Nat
    <3>5. InHand(pc') = 0
      BY <3>2 DEF InHand
    <3>6. len' = Count(buckets') + Rest(old', cursor') + InHand(pc')
      BY <1>1, <2>1, <2>2, <3>3, <3>4, <3>5
    <3>7. 4 * len' < 3 * cap'
      BY <1>1, <2>1, <3>2
    <3>. QED  BY <1>2, <3>6, <3>7
  <2>4. CASE ~ ShouldResize(len + 1)
    <3>1. buckets' = full /\ Return(None) /\ cap' = cap
      BY <1>9, <2>4 DEF InsertPlace, full
    <3>2. 4 * len' < 3 * cap'
      BY <1>1, <2>1, <2>4, <3>1 DEF ShouldResize
    <3>3. len' = Count(buckets') + Rest(old', cursor') + InHand(pc')
      BY <1>1, <2>1, <2>2, <3>1, LoadReturn
    <3>. QED  BY <1>2, <3>2, <3>3
  <2>. QED  BY <2>3, <2>4
<1>10. CASE InsertReplace
  <2>1. /\ Target \in 0 .. cap - 1
        /\ entry \in Entries
        /\ buckets[Target] \in Entries
        /\ buckets[Target] # None
        /\ rest = 0
        /\ InHand(pc) = 0
    BY <1>3, <1>10, TargetType DEF InsertReplace
  <2>. DEFINE new == [buckets[Target] EXCEPT !.value = entry.value]
  <2>2. new \in Entries
    BY <2>1 DEF Entries
  <2>3. buckets' = [buckets EXCEPT ![Target] = new]
    BY <1>10 DEF InsertReplace
  <2>. HIDE DEF new
  <2>4. Count([buckets EXCEPT ![Target] = new]) = count
    BY <1>1, <2>1, <2>2, CountSame DEF count
  <2>. QED  BY <1>5, <1>10, <2>1, <2>3, <2>4 DEF InsertReplace
<1>11. CASE InsertProbe
  BY <1>6, <1>11 DEF InsertProbe
<1>12. CASE ResizeSkip \/ ResizeTake
  <2>1. /\ cap \div 2 \in Nat
        /\ old \in TablesOf(cap \div 2)
        /\ cursor \in Nat
        /\ cursor \in DOMAIN old
        /\ UNCHANGED <<table, old>>
        /\ cursor' = cursor + 1
        /\ InHand(pc) = 0
    <3>1. /\ pc = "resize"
          /\ cursor \in DOMAIN old
          /\ UNCHANGED <<table, old>>
          /\ cursor' = cursor + 1
      BY <1>12 DEF ResizeSkip, ResizeTake
    <3>2. InHand(pc) = 0
      BY <3>1 DEF InHand
    <3>3. cap \div 2 \in Nat /\ old \in TablesOf(cap \div 2) /\ cursor \in Nat
      <4>1. cap \in Nat /\ cursor \in Nat
        BY Zenon DEF TypeOK
      <4>2. old \in TablesOf(IF pc \in {"resize", "insert_entry"} THEN cap \div 2 ELSE 0)
        BY Zenon DEF TypeOK, TablesOf
      <4>3. (IF pc \in {"resize", "insert_entry"} THEN cap \div 2 ELSE 0) = cap \div 2
        BY <3>1
      <4>4. cap \div 2 \in Nat
        BY <4>1
      <4>. QED  BY <4>1, <4>2, <4>3, <4>4, Zenon
    <3>. QED  BY <3>1, <3>2, <3>3
  <2>2. Rest(old', cursor') = IF old[cursor] = None THEN rest ELSE rest - 1
    BY <2>1, RestTaken DEF rest
  <2>3. InHand(pc') = IF old[cursor] = None THEN 0 ELSE 1
    BY <1>12 DEF ResizeSkip, ResizeTake, InHand
  <2>4. len' = Count(buckets') + Rest(old', cursor') + InHand(pc')
    BY <1>1, <2>1, <2>2, <2>3 DEF table, count
  <2>. QED  BY <1>1, <1>2, <2>1, <2>4 DEF table
<1>13. CASE ResizeDone
  <2>1. rest = 0
    <3>1. DOMAIN old \ (0 .. cursor - 1) = {}
      BY <1>1, <1>13 DEF ResizeDone, TypeOK
    <3>. QED  BY <3>1, FS_EmptySet DEF Rest, Full, rest
  <2>. QED  BY <1>5, <1>13, <2>1 DEF ResizeDone, table, InHand, count
<1>14. CASE InsertEntryPlace
  <2>1. /\ Target \in 0 .. cap - 1
        /\ entry \in Entries
        /\ buckets[Target] = None
        /\ InHand(pc) = 1
        /\ InHand(pc') = 0
        /\ UNCHANGED <<cap, len, old, cursor>>
    BY <1>14, TargetType DEF InsertEntryPlace, InHand
  <2>2. Count(buckets') = count + 1
    BY <1>1, <1>14, <2>1, FullPut DEF InsertEntryPlace, Count, count
  <2>3. len' = Count(buckets') + Rest(old', cursor') + InHand(pc')
    BY <1>1, <2>1, <2>2 DEF rest
  <2>. QED  BY <1>1, <1>2, <2>1, <2>3
<1>15. CASE InsertEntryProbe
  BY <1>6, <1>15 DEF InsertEntryProbe
<1>16. CASE ProbeMiss
  BY <1>3, <1>5, <1>16 DEF ProbeMiss, table, count
<1>17. CASE ProbeOn
  BY <1>4, <1>17 DEF ProbeOn, table
<1>18. CASE FoundGet
  BY <1>3, <1>5, <1>18 DEF FoundGet, Found, table, count
<1>19. CASE FoundGetMut
  <2>1. /\ Probed \in 0 .. cap - 1
        /\ buckets[Probed] \in Entries
        /\ buckets[Probed] # None
        /\ op.value \in Values
        /\ rest = 0
        /\ InHand(pc) = 0
    BY <1>3, <1>19, ProbedType DEF FoundGetMut, Found, GivesUp, TypeOK
  <2>. DEFINE new == [buckets[Probed] EXCEPT !.value = op.value]
  <2>2. new \in Entries
    BY <2>1 DEF Entries
  <2>3. buckets' = [buckets EXCEPT ![Probed] = new]
    BY <1>19 DEF FoundGetMut
  <2>. HIDE DEF new
  <2>4. Count([buckets EXCEPT ![Probed] = new]) = count
    BY <1>1, <2>1, <2>2, CountSame DEF count
  <2>. QED  BY <1>5, <1>19, <2>1, <2>3, <2>4 DEF FoundGetMut
<1>20. CASE FoundDel
  <2>1. /\ Probed \in 0 .. cap - 1
        /\ buckets[Probed] # None
        /\ rest = 0
        /\ InHand(pc) = 0
        /\ InHand(pc') = 0
        /\ UNCHANGED <<cap, old, cursor>>
    BY <1>3, <1>20, ProbedType DEF FoundDel, Found, GivesUp, InHand
  <2>2. Count(buckets') = count - 1
    BY <1>1, <1>20, <2>1, FullTake DEF FoundDel, Count, count
  <2>3. len' = Count(buckets') + Rest(old', cursor') + InHand(pc')
    BY <1>1, <1>20, <2>1, <2>2 DEF FoundDel, rest
  <2>4. 4 * len' < 3 * cap'
    BY <1>1, <1>20, <2>1 DEF FoundDel
  <2>. QED  BY <1>2, <2>3, <2>4
<1>21. CASE ShiftBack
  <2>1. /\ hole \in 0 .. cap - 1
        /\ NextBucket \in 0 .. cap - 1
        /\ buckets[NextBucket] \in Entries
        /\ buckets[NextBucket] # None
        /\ buckets[NextBucket].psl > 0
        /\ buckets[hole] = None
        /\ UNCHANGED <<cap, len, pc, old, cursor>>
    BY <1>21, NextBucketType DEF ShiftBack, Displaced, TypeOK, RobinHood
  <2>2. hole # NextBucket
    BY <1>1, <2>1, Successor DEF NextBucket
  <2>. DEFINE moved == [buckets[NextBucket] EXCEPT !.psl = @ - 1]
  <2>3. moved \in Entries
    BY <2>1 DEF Entries
  <2>4. buckets' = [buckets EXCEPT ![hole] = moved, ![NextBucket] = None]
    BY <1>21 DEF ShiftBack
  <2>. HIDE DEF moved
  <2>5. Count([buckets EXCEPT ![hole] = moved, ![NextBucket] = None]) = count
    BY <1>1, <2>1, <2>2, <2>3, CountMoved DEF count
  <2>. QED  BY <1>1, <1>2, <2>1, <2>4, <2>5 DEF rest
<1>22. CASE ShiftDone
  BY <1>3, <1>5, <1>22 DEF ShiftDone, table, count
<1>23. CASE UNCHANGED vars
  BY <1>4, <1>23 DEF vars, table, frame
<1>. QED  BY <1>7, <1>8, <1>9, <1>10, <1>11, <1>12, <1>13, <1>14, <1>15, <1>16,
            <1>17, <1>18, <1>19, <1>20, <1>21, <1>22, <1>23 DEF Next, Step

-----------------------------------------------------------------------------
(* The Robin Hood order.                                                   *)

LEMMA EmptyTableOrder ==
    ASSUME NEW hash, NEW n \in Nat
    PROVE  /\ WellPlaced(hash, NewTable(n), n, {})
           /\ \A part : part \subseteq 0 .. n - 1 => KeysIn(NewTable(n), part) = {}
  BY NewTableType DEF WellPlaced, KeysIn, Full

LEMMA OrderInit == Init => RobinHood
<1>. SUFFICES ASSUME Init PROVE RobinHood
  OBVIOUS
<1>1. WellPlaced(hasher, buckets, cap, Holes)
  BY EmptyTableOrder, CapacityAssumption DEF Init, Holes
<1>2. DOMAIN old = {}
  BY NewTableType DEF Init
<1>3. OldApart
  BY <1>2 DEF Init, OldApart, Remaining, KeysIn, Full
<1>. QED  BY <1>1, <1>3 DEF Init, RobinHood, HandOnPath, KeyNotPassed

(* Between calls only the order of the table matters. *)
LEMMA OrderReturn ==
    ASSUME NEW answer, Return(answer), WellPlaced(hasher', buckets', cap', {})
    PROVE  RobinHood'
<1>1. pc' = "idle" /\ old' = NewTable(0)
  BY DEF Return
<1>2. Remaining' = {}
  <2>1. DOMAIN old' = {}
    BY <1>1, NewTableType
  <2>. QED  BY <2>1 DEF Remaining
<1>3. OldApart'
  BY <1>1, <1>2 DEF OldApart, KeysIn, Full
<1>. QED  BY <1>1, <1>3 DEF RobinHood, Holes, HandOnPath, KeyNotPassed

(* Where no entry is being moved by resize, nothing of it is left. *)
LEMMA NothingRemains ==
    TypeOK /\ pc \notin {"resize", "insert_entry"} => DOMAIN old = {}
  BY DEF TypeOK

LEMMA TableTypes ==
    TypeOK => /\ hasher \in HashFunctions
              /\ cap \in Sizes
              /\ buckets \in TablesOf(cap)
              /\ DOMAIN buckets = 0 .. cap - 1
  BY HashType DEF TypeOK, Sizes, TablesOf

(* The key of the entry in hand is not in the table when insert puts the
   entry down, nor when insert_entry does. *)
LEMMA HandAbsent ==
    ASSUME TypeOK, RobinHood, pc \in {"insert", "insert_entry"},
           buckets[Target] # None => buckets[Target].psl < entry.psl
    PROVE  Absent(buckets, cap, entry.key)
<1>1. entry \in Entries /\ entry.key \in Keys /\ entry.psl \in Nat
  BY TargetType DEF Entries
<1>2. CASE pc = "insert"
  <2>1. WellPlaced(hasher, buckets, cap, {})
    BY <1>2 DEF RobinHood, Holes
  <2>2. \A r \in 0 .. entry.psl - 1 :
            Lacks(buckets, Slot(cap, hasher[entry.key], r), entry.key)
    BY <1>2 DEF RobinHood, HandOnPath
  <2>. QED  BY <1>1, <2>1, <2>2, TableTypes, LookupSound DEF Target
<1>3. CASE pc = "insert_entry"
  BY <1>1, <1>3, TableTypes, AbsentKeys DEF RobinHood, OldApart
<1>. QED  BY <1>2, <1>3

(* A lookup that gives up has seen enough. *)
LEMMA MissAbsent ==
    ASSUME TypeOK, RobinHood, pc = "probe", GivesUp
    PROVE  op.key \notin KeysIn(buckets, DOMAIN buckets)
<1>1. op.key \in Keys /\ psl \in Nat
  BY DEF TypeOK
<1>2. WellPlaced(hasher, buckets, cap, {})
  BY DEF RobinHood, Holes
<1>3. \A r \in 0 .. psl - 1 :
          Lacks(buckets, Slot(cap, hasher[op.key], r), op.key)
  BY DEF RobinHood, KeyNotPassed
<1>4. Absent(buckets, cap, op.key)
  BY <1>1, <1>2, <1>3, TableTypes, LookupSound DEF GivesUp, Probed
<1>. QED  BY <1>1, <1>4, TableTypes, AbsentKeys

(* The keys of a table that has got the entry e in bucket t. *)
LEMMA KeysPut ==
    ASSUME NEW n \in Nat, NEW tbl \in TablesOf(n), NEW t \in 0 .. n - 1, NEW e \in Entries
    PROVE  LET new == [tbl EXCEPT ![t] = e]
           IN  KeysIn(new, DOMAIN new) \subseteq KeysIn(tbl, DOMAIN tbl) \cup {e.key}
  BY DEF KeysIn, Full, TablesOf

(* A round of insert or insert_entry that puts the entry in hand down. *)
LEMMA OrderPut ==
    ASSUME TypeOK, RobinHood, pc \in {"insert", "insert_entry"},
           buckets[Target] # None => buckets[Target].psl < entry.psl
    PROVE  WellPlaced(hasher, [buckets EXCEPT ![Target] = entry], cap, {})
<1>1. Target \in 0 .. cap - 1 /\ entry \in Entries
  BY TargetType
<1>2. WellPlaced(hasher, buckets, cap, {})
  BY DEF RobinHood, Holes
<1>3. Covered(buckets, cap, {}, hasher[entry.key], entry.psl)
  BY DEF RobinHood, HandOnPath
<1>. QED  BY <1>1, <1>2, <1>3, HandAbsent, TableTypes, PutKeepsOrder DEF Target

(* A round of insert or insert_entry that goes on to the next bucket. *)
LEMMA OrderDisplace ==
    ASSUME TypeOK, RobinHood, pc \in {"insert", "insert_entry"},
           buckets[Target] # None, Displace,
           pc = "insert" => buckets[Target].key # entry.key,
           UNCHANGED <<hasher, cap, pc, old, cursor>>
    PROVE  RobinHood'
<1>. DEFINE d == buckets[Target]
<1>1. /\ Target \in 0 .. cap - 1
      /\ entry \in Entries /\ entry.key \in Keys /\ entry.psl \in Nat
      /\ d \in Entries /\ d.key \in Keys /\ d.psl \in Nat
      /\ cap \in Nat /\ cap \in Sizes
      /\ buckets \in TablesOf(cap)
      /\ DOMAIN buckets = 0 .. cap - 1
  BY TargetType, TableTypes DEF Entries, Sizes
<1>2. /\ WellPlaced(hasher, buckets, cap, {})
      /\ Covered(buckets, cap, {}, hasher[entry.key], entry.psl)
  BY DEF RobinHood, Holes, HandOnPath
<1>. HIDE DEF d
<1>3. /\ Remaining' = Remaining /\ old' = old /\ pc' = pc
      /\ OldApart
  BY DEF RobinHood, Remaining
<1>4. CASE d.psl < entry.psl
  <2>. DEFINE new == [buckets EXCEPT ![Target] = entry]
  <2>1. buckets' = new /\ entry' = [d EXCEPT !.psl = @ + 1]
    BY <1>4 DEF Displace, d
  <2>2. entry'.key = d.key /\ entry'.psl = d.psl + 1
    BY <1>1, <2>1 DEF Entries
  <2>3. WellPlaced(hasher, new, cap, {})
    BY <1>4, OrderPut DEF d
  <2>4. /\ Covered(new, cap, {}, hasher[d.key], d.psl + 1)
        /\ Absent(new, cap, d.key)
    <3>1. Absent(buckets, cap, entry.key)
      BY <1>4, HandAbsent DEF d
    <3>. QED  BY <1>1, <1>2, <1>4, <3>1, TableTypes, PutCarriesOn DEF d
  <2>5. KeysIn(new, DOMAIN new) \subseteq KeysIn(buckets, DOMAIN buckets) \cup {entry.key}
    BY <1>1, KeysPut
  <2>6. d.key \in KeysIn(buckets, DOMAIN buckets)
    BY <1>1 DEF KeysIn, Full, d
  <2>7. new \in TablesOf(cap)
    BY <1>1 DEF TablesOf
  <2>. HIDE DEF new
  <2>8. HandOnPath'
    <3>1. Covered(buckets', cap', {}, hasher'[entry'.key], entry'.psl)
      BY <2>1, <2>2, <2>4
    <3>2. \A r \in 0 .. entry'.psl - 1 :
              Lacks(buckets', Slot(cap', hasher'[entry'.key], r), entry'.key)
      <4>1. \A r \in 0 .. (d.psl + 1) - 1 :
                Lacks(new, Slot(cap, hasher[d.key], r), d.key)
        <5>. SUFFICES ASSUME NEW r \in 0 .. (d.psl + 1) - 1
                      PROVE  Lacks(new, Slot(cap, hasher[d.key], r), d.key)
          OBVIOUS
        <5>1. r \in Nat /\ hasher[d.key] \in Nat /\ cap \in Nat \ {0}
          BY <1>1, TableTypes DEF HashFunctions, Sizes
        <5>2. Slot(cap, hasher[d.key], r) \in 0 .. cap - 1
          BY <5>1, SlotType
        <5>. QED  BY <2>4, <5>2 DEF Absent
      <4>. QED  BY <2>1, <2>2, <4>1
    <3>. QED  BY <3>1, <3>2 DEF HandOnPath
  <2>9. OldApart'
    <3>1. pc = "insert_entry" =>
              d.key \notin KeysIn(new, DOMAIN new) \cup KeysIn(old, Remaining)
      BY <1>1, <2>4, <2>6, <2>7, AbsentKeys DEF RobinHood, OldApart
    <3>2. KeysIn(old, Remaining) \cap KeysIn(new, DOMAIN new) = {}
      <4>1. CASE pc = "insert_entry"
        BY <2>5, <4>1 DEF RobinHood, OldApart
      <4>2. CASE pc # "insert_entry"
        BY <4>2, NothingRemains DEF Remaining, KeysIn, Full
      <4>. QED  BY <4>1, <4>2
    <3>. QED  BY <1>3, <2>1, <2>2, <3>1, <3>2 DEF OldApart
  <2>. QED  BY <2>1, <2>3, <2>8, <2>9 DEF RobinHood, Holes, KeyNotPassed
<1>5. CASE ~ (d.psl < entry.psl)
  <2>1. buckets' = buckets /\ entry' = [entry EXCEPT !.psl = @ + 1]
    BY <1>5 DEF Displace, d
  <2>2. entry'.key = entry.key /\ entry'.psl = entry.psl + 1
    BY <1>1, <2>1 DEF Entries
  <2>3. Covered(buckets, cap, {}, hasher[entry.key], entry.psl + 1)
    <3>. SUFFICES ASSUME NEW r \in 0 .. (entry.psl + 1) - 1
                  PROVE  LET i == Slot(cap, hasher[entry.key], r)
                         IN  buckets[i] # None /\ buckets[i].psl >= r
      BY DEF Covered
    <3>1. CASE r = entry.psl
      BY <1>1, <1>5, <3>1 DEF d, Target
    <3>2. CASE r # entry.psl
      <4>1. r \in 0 .. entry.psl - 1
        BY <1>1, <3>2
      <4>. QED  BY <1>2, <4>1 DEF Covered
    <3>. QED  BY <3>1, <3>2
  <2>4. pc = "insert" => \A r \in 0 .. (entry.psl + 1) - 1 :
            Lacks(buckets, Slot(cap, hasher[entry.key], r), entry.key)
    <3>. SUFFICES ASSUME pc = "insert", NEW r \in 0 .. (entry.psl + 1) - 1
                  PROVE  Lacks(buckets, Slot(cap, hasher[entry.key], r), entry.key)
      OBVIOUS
    <3>1. CASE r = entry.psl
      BY <3>1 DEF Lacks, Target
    <3>2. CASE r # entry.psl
      <4>1. r \in 0 .. entry.psl - 1
        BY <1>1, <3>2
      <4>. QED  BY <4>1 DEF RobinHood, HandOnPath
    <3>. QED  BY <3>1, <3>2
  <2>5. HandOnPath'
    BY <2>1, <2>2, <2>3, <2>4 DEF HandOnPath
  <2>6. OldApart'
    BY <1>3, <2>1, <2>2 DEF OldApart
  <2>. QED  BY <1>2, <2>1, <2>5, <2>6 DEF RobinHood, Holes, KeyNotPassed
<1>. QED  BY <1>4, <1>5

(* Every action keeps the order. *)
LEMMA OrderStep == TypeOK /\ RobinHood /\ [Next]_vars => RobinHood'
<1>. SUFFICES ASSUME TypeOK, RobinHood, [Next]_vars
              PROVE  RobinHood'
  OBVIOUS
<1>1. /\ cap \in Nat /\ cap \in Sizes
      /\ hasher \in HashFunctions
      /\ buckets \in TablesOf(cap)
      /\ DOMAIN buckets = 0 .. cap - 1
  BY TableTypes DEF Sizes
<1>2. pc # "shift" => WellPlaced(hasher, buckets, cap, {})
  BY DEF RobinHood, Holes
\* Outside a resize the old table is empty and stays empty.
<1>3. ASSUME pc \notin {"resize", "insert_entry"}, pc' # "insert_entry", old' = old
      PROVE  OldApart'
  <2>1. Remaining' = {}
    BY <1>3, NothingRemains DEF Remaining
  <2>. QED  BY <1>3, <2>1 DEF OldApart, KeysIn, Full
<1>4. ASSUME NEW key \in Keys, NEW value \in Values, Insert(key, value)
      PROVE  RobinHood'
  <2>1. entry'.psl = 0
    BY <1>4 DEF Insert
  <2>2. HandOnPath'
    BY <1>4, <2>1 DEF Insert, HandOnPath, Covered
  <2>3. OldApart'
    BY <1>3, <1>4 DEF Insert
  <2>. QED  BY <1>2, <1>4, <2>2, <2>3 DEF Insert, table, RobinHood, Holes, KeyNotPassed
<1>5. ASSUME NEW o, Lookup(o)
      PROVE  RobinHood'
  <2>1. OldApart'
    BY <1>3, <1>5 DEF Lookup
  <2>. QED  BY <1>2, <1>5, <2>1 DEF Lookup, table, RobinHood, Holes, HandOnPath, KeyNotPassed
<1>6. CASE InsertPlace
  <2>. DEFINE full == [buckets EXCEPT ![Target] = entry]
  <2>1. pc = "insert" /\ buckets[Target] = None /\ hasher' = hasher
    BY <1>6 DEF InsertPlace
  <2>2. WellPlaced(hasher, full, cap, {})
    BY <2>1, OrderPut
  <2>3. DOMAIN full = 0 .. cap - 1
    BY <1>1
  <2>4. CASE ShouldResize(len + 1)
    <3>1. Resize(full)
      BY <1>6, <2>4 DEF InsertPlace
    <3>. HIDE DEF full
    <3>2. /\ old' = full /\ cursor' = 0 /\ cap' = 2 * cap
          /\ buckets' = NewTable(2 * cap) /\ pc' = "resize"
      BY <3>1 DEF Resize
    <3>3. 2 * cap \in Nat
      BY <1>1
    <3>4. WellPlaced(hasher', buckets', cap', {})
      BY <2>1, <3>2, <3>3, EmptyTableOrder
    <3>5. KeysIn(buckets', DOMAIN buckets') = {}
      BY <3>2, <3>3, EmptyTableOrder, NewTableType
    <3>6. Remaining' \subseteq 0 .. cap - 1
      BY <2>3, <3>2 DEF Remaining
    <3>7. \A i, j \in Remaining' :
              full[i] # None /\ full[j] # None /\ full[i].key = full[j].key => i = j
      BY <2>2, <3>6 DEF WellPlaced
    <3>8. OldApart'
      BY <3>2, <3>5, <3>7 DEF OldApart
    <3>. QED  BY <3>2, <3>4, <3>8 DEF RobinHood, Holes, HandOnPath, KeyNotPassed
  <2>5. CASE ~ ShouldResize(len + 1)
    BY <1>6, <2>1, <2>2, <2>5, OrderReturn DEF InsertPlace
  <2>. QED  BY <2>4, <2>5
<1>7. CASE InsertReplace
  <2>1. /\ pc = "insert" /\ Target \in 0 .. cap - 1 /\ buckets[Target] # None
        /\ entry.value \in Values
    BY <1>7, TargetType DEF InsertReplace, Entries
  <2>2. WellPlaced(hasher, [buckets EXCEPT ![Target].value = entry.value], cap, {})
    BY <1>1, <1>2, <2>1, RevalueKeepsOrder
  <2>. QED  BY <1>7, <2>2, OrderReturn DEF InsertReplace
<1>8. CASE InsertProbe
  BY <1>8, OrderDisplace DEF InsertProbe
<1>9. CASE ResizeSkip
  <2>1. /\ pc = "resize" /\ pc' = pc /\ old' = old
        /\ hasher' = hasher /\ buckets' = buckets /\ cap' = cap
        /\ cursor \in Nat /\ cursor' = cursor + 1
    BY <1>9 DEF ResizeSkip, table, TypeOK
  <2>2. Remaining' \subseteq Remaining
    BY <2>1 DEF Remaining
  <2>3. KeysIn(old, Remaining') \subseteq KeysIn(old, Remaining)
    BY <2>2 DEF KeysIn, Full
  <2>4. OldApart'
    BY <2>1, <2>2, <2>3 DEF OldApart, RobinHood
  <2>. QED  BY <1>2, <2>1, <2>4 DEF RobinHood, Holes, HandOnPath, KeyNotPassed
<1>10. CASE ResizeTake
  <2>1. /\ pc = "resize" /\ pc' = "insert_entry" /\ old' = old
        /\ hasher' = hasher /\ buckets' = buckets /\ cap' = cap
        /\ cursor \in Nat /\ cursor' = cursor + 1
        /\ cursor \in DOMAIN old /\ old[cursor] \in Entries /\ old[cursor] # None
    BY <1>10 DEF ResizeTake, table, TypeOK
  <2>2. /\ Remaining' = Remaining \ {cursor}
        /\ cursor \in Remaining
    <3>1. DOMAIN old \subseteq Nat
      BY DEF TypeOK
    <3>. QED  BY <2>1, <3>1 DEF Remaining
  <2>3. entry'.psl = 0 /\ entry'.key = old[cursor].key
    BY <1>10, <2>1 DEF ResizeTake, Entries
  <2>4. old[cursor].key \in KeysIn(old, Remaining)
    BY <2>1, <2>2 DEF KeysIn, Full
  <2>5. KeysIn(old, Remaining') \subseteq KeysIn(old, Remaining)
    BY <2>2 DEF KeysIn, Full
  <2>6. old[cursor].key \notin KeysIn(old, Remaining')
    BY <2>1, <2>2 DEF KeysIn, Full, RobinHood, OldApart
  <2>7. OldApart'
    BY <2>1, <2>2, <2>3, <2>4, <2>5, <2>6 DEF OldApart, RobinHood
  <2>8. HandOnPath'
    BY <2>1, <2>3 DEF HandOnPath, Covered
  <2>. QED  BY <1>2, <2>1, <2>7, <2>8 DEF RobinHood, Holes, KeyNotPassed
<1>11. CASE ResizeDone
  BY <1>2, <1>11, OrderReturn DEF ResizeDone, table
<1>12. CASE InsertEntryPlace
  <2>. DEFINE new == [buckets EXCEPT ![Target] = entry]
  <2>1. /\ pc = "insert_entry" /\ pc' = "resize" /\ buckets' = new
        /\ hasher' = hasher /\ cap' = cap /\ old' = old
        /\ Remaining' = Remaining
        /\ buckets[Target] = None
    BY <1>12 DEF InsertEntryPlace, Remaining
  <2>2. WellPlaced(hasher, new, cap, {})
    BY <2>1, OrderPut
  <2>3. KeysIn(new, DOMAIN new) \subseteq KeysIn(buckets, DOMAIN buckets) \cup {entry.key}
    BY <1>1, <2>1, TargetType, KeysPut
  <2>. HIDE DEF new
  <2>4. OldApart'
    BY <2>1, <2>3 DEF OldApart, RobinHood
  <2>. QED  BY <2>1, <2>2, <2>4 DEF RobinHood, Holes, HandOnPath, KeyNotPassed
<1>13. CASE InsertEntryProbe
  BY <1>13, OrderDisplace DEF InsertEntryProbe
<1>14. CASE ProbeMiss
  BY <1>2, <1>14, OrderReturn DEF ProbeMiss, table
<1>15. CASE ProbeOn
  <2>1. /\ pc = "probe" /\ pc' = pc /\ op' = op /\ old' = old
        /\ hasher' = hasher /\ buckets' = buckets /\ cap' = cap
        /\ psl \in Nat /\ psl' = psl + 1
        /\ buckets[Probed].key # op.key
    BY <1>15 DEF ProbeOn, table, TypeOK
  <2>2. \A r \in 0 .. (psl + 1) - 1 :
            Lacks(buckets, Slot(cap, hasher[op.key], r), op.key)
    <3>. SUFFICES ASSUME NEW r \in 0 .. (psl + 1) - 1
                  PROVE  Lacks(buckets, Slot(cap, hasher[op.key], r), op.key)
      OBVIOUS
    <3>1. CASE r = psl
      BY <2>1, <3>1 DEF Lacks, Probed
    <3>2. CASE r # psl
      <4>1. r \in 0 .. psl - 1
        BY <2>1, <3>2
      <4>. QED  BY <2>1, <4>1 DEF RobinHood, KeyNotPassed
    <3>. QED  BY <3>1, <3>2
  <2>3. OldApart'
    BY <1>3, <2>1
  <2>. QED  BY <1>2, <2>1, <2>2, <2>3 DEF RobinHood, Holes, HandOnPath, KeyNotPassed
<1>16. CASE FoundGet
  BY <1>2, <1>16, OrderReturn DEF FoundGet, Found, table
<1>17. CASE FoundGetMut
  <2>1. /\ pc = "probe" /\ Probed \in 0 .. cap - 1 /\ buckets[Probed] # None
        /\ op.value \in Values
    BY <1>17, ProbedType DEF FoundGetMut, Found, GivesUp, TypeOK
  <2>2. WellPlaced(hasher, [buckets EXCEPT ![Probed].value = op.value], cap, {})
    BY <1>1, <1>2, <2>1, RevalueKeepsOrder
  <2>. QED  BY <1>17, <2>2, OrderReturn DEF FoundGetMut
<1>18. CASE FoundDel
  <2>1. /\ pc = "probe" /\ pc' = "shift" /\ Probed \in 0 .. cap - 1
        /\ hasher' = hasher /\ cap' = cap /\ old' = old /\ hole' = Probed
        /\ buckets' = [buckets EXCEPT ![Probed] = None]
    BY <1>18, ProbedType DEF FoundDel, Found
  <2>2. WellPlaced(hasher, [buckets EXCEPT ![Probed] = None], cap, {Probed})
    BY <1>1, <1>2, <2>1, TakeKeepsOrder
  <2>3. [buckets EXCEPT ![Probed] = None][Probed] = None
    BY <1>1, <2>1
  <2>4. OldApart'
    BY <1>3, <2>1
  <2>. QED  BY <2>1, <2>2, <2>3, <2>4 DEF RobinHood, Holes, HandOnPath, KeyNotPassed
<1>19. CASE ShiftBack
  <2>. DEFINE new == [buckets EXCEPT
                          ![hole] = [buckets[NextBucket] EXCEPT !.psl = @ - 1],
                          ![NextBucket] = None]
  <2>1. /\ pc = "shift" /\ pc' = pc
        /\ hole \in 0 .. cap - 1 /\ NextBucket \in 0 .. cap - 1
        /\ buckets[NextBucket] # None /\ buckets[NextBucket].psl > 0
        /\ hasher' = hasher /\ cap' = cap /\ old' = old /\ hole' = NextBucket
        /\ buckets' = new
    BY <1>19, NextBucketType DEF ShiftBack, Displaced, TypeOK
  <2>2. WellPlaced(hasher, buckets, cap, {hole}) /\ buckets[hole] = None
    BY <2>1 DEF RobinHood, Holes
  <2>3. WellPlaced(hasher, new, cap, {NextBucket})
    BY <1>1, <2>1, <2>2, ShiftKeepsOrder DEF NextBucket
  <2>4. new[NextBucket] = None
    BY <1>1, <2>1
  <2>. HIDE DEF new
  <2>5. OldApart'
    BY <1>3, <2>1
  <2>. QED  BY <2>1, <2>3, <2>4, <2>5 DEF RobinHood, Holes, HandOnPath, KeyNotPassed
<1>20. CASE ShiftDone
  <2>1. pc = "shift" /\ hole \in 0 .. cap - 1
    BY <1>20 DEF ShiftDone, TypeOK
  <2>2. WellPlaced(hasher, buckets, cap, {hole})
    BY <2>1 DEF RobinHood, Holes
  <2>3. WellPlaced(hasher, buckets, cap, {})
    BY <1>1, <1>20, <2>1, <2>2, ShiftClosesHole DEF ShiftDone, Displaced, NextBucket
  <2>. QED  BY <1>20, <2>3, OrderReturn DEF ShiftDone, table
<1>21. CASE UNCHANGED vars
  <2>1. UNCHANGED <<hasher, cap, buckets, pc, op, entry, psl, hole, old, cursor>>
    BY <1>21 DEF vars, table, frame
  <2>2. Remaining' = Remaining
    BY <2>1 DEF Remaining
  <2>3. OldApart'
    BY <2>1, <2>2 DEF OldApart, RobinHood
  <2>4. HandOnPath' /\ KeyNotPassed'
    BY <2>1 DEF HandOnPath, KeyNotPassed, RobinHood
  <2>. QED  BY <2>1, <2>3, <2>4 DEF RobinHood, Holes
<1>. QED  BY <1>4, <1>5, <1>6, <1>7, <1>8, <1>9, <1>10, <1>11, <1>12, <1>13, <1>14,
            <1>15, <1>16, <1>17, <1>18, <1>19, <1>20, <1>21
         DEF Next, Step, Get, GetMut, Del

-----------------------------------------------------------------------------
(* The theorems.                                                           *)

Inductive == TypeOK /\ RobinHood /\ LoadBounded

LEMMA InductiveInvariant == Spec => []Inductive
<1>1. Init => Inductive
  BY TypeInit, OrderInit, LoadInit DEF Inductive
<1>2. Inductive /\ [Next]_vars => Inductive'
  BY TypeStep, OrderStep, LoadStep DEF Inductive
<1>. QED  BY <1>1, <1>2, PTL DEF Spec

(* The types hold for every choice of the constants. *)
THEOREM TableTypeCorrect == Spec => []TypeOK
<1>1. Inductive => TypeOK
  BY DEF Inductive
<1>. QED  BY <1>1, InductiveInvariant, PTL

(* Between any two rounds of any loop the table is in Robin Hood order. *)
THEOREM OrderKept == Spec => []RobinHood
<1>1. Inductive => RobinHood
  BY DEF Inductive
<1>. QED  BY <1>1, InductiveInvariant, PTL

(* No lookup gives up on a key that is in the table. *)
THEOREM MissesAreRight == Spec => MissMeansAbsent
<1>1. Inductive /\ [Next]_vars =>
          [ProbeMiss => op.key \notin KeysIn(buckets, DOMAIN buckets)]_vars
  BY MissAbsent DEF Inductive, ProbeMiss
<1>. QED  BY <1>1, InductiveInvariant, PTL DEF Spec, MissMeansAbsent

(* len counts the entries, and fewer than three quarters of the buckets are
   taken. *)
THEOREM LoadKept == Spec => []LoadBounded
<1>1. Inductive => LoadBounded
  BY DEF Inductive
<1>. QED  BY <1>1, InductiveInvariant, PTL

-----------------------------------------------------------------------------
(* The table is a map.  Where an entry is does not matter to KeyMap, only     *)
(* which entries the store holds.  Rounds that move entries hold the same     *)
(* ones before and after, but for the key of the call in progress, whose      *)
(* value as it was when the call began is read off pc and the entry in hand.  *)


(* A bucket, or the hand, holds the key with the value. *)
Is(e, key, value) == e # None /\ e.key = key /\ e.value = value

Within(tbl, part, key, value) == \E i \in part : Is(tbl[i], key, value)

Carrying == pc \in {"insert", "insert_entry"}

\* The pairs of the store, what insert is about to add included.
Stored(key, value) ==
    \/ Within(buckets, DOMAIN buckets, key, value)
    \/ Carrying /\ Is(entry, key, value)
    \/ Within(old, Remaining, key, value)

\* The pairs of the store that MapBefore looks among.
Has(key, value) == \E e \in Held \ {None} : e.key = key /\ e.value = value

(* What a call knows of itself: its new entry is in hand or stored until it
   returns; the entry it carries on is nowhere else; what del took out was its
   key's. *)
CallKept ==
    /\ pc # "idle" => op \in Abstract!Operations
    /\ pc = "insert" /\ entry.key = op.key => entry.value = op.value
    /\ pc = "insert" /\ entry.key # op.key => Absent(buckets, cap, entry.key)
    /\ pc \in {"insert", "resize", "insert_entry"} => Stored(op.key, op.value)
    /\ pc = "shift" => entry.key = op.key /\ Absent(buckets, cap, op.key)

Known == Inductive /\ CallKept

\* MapBefore reads these keys off what is stored.
Settled(key) == pc \in {"idle", "probe"} \/ key # op.key

-----------------------------------------------------------------------------
(* Buckets.                                                                *)

(* A change of one bucket changes what that bucket holds, and nothing else. *)
LEMMA WithinPut ==
    ASSUME NEW n \in Nat, NEW tbl \in TablesOf(n), NEW t \in 0 .. n - 1,
           NEW e \in Entries \cup {None}, NEW key, NEW value
    PROVE  LET new  == [tbl EXCEPT ![t] = e]
               rest == Within(tbl, (0 .. n - 1) \ {t}, key, value)
           IN  /\ Within(tbl, DOMAIN tbl, key, value) <=> rest \/ Is(tbl[t], key, value)
               /\ Within(new, DOMAIN new, key, value) <=> rest \/ Is(e, key, value)
<1>. DEFINE new == [tbl EXCEPT ![t] = e]
<1>1. /\ DOMAIN tbl = 0 .. n - 1
      /\ DOMAIN new = 0 .. n - 1
      /\ new[t] = e
      /\ \A i \in (0 .. n - 1) \ {t} : new[i] = tbl[i]
  BY DEF TablesOf
<1>. HIDE DEF new
<1>2. Within(tbl, DOMAIN tbl, key, value)
          <=> Within(tbl, (0 .. n - 1) \ {t}, key, value) \/ Is(tbl[t], key, value)
  BY <1>1 DEF Within
<1>3. Within(new, DOMAIN new, key, value)
          <=> Within(tbl, (0 .. n - 1) \ {t}, key, value) \/ Is(e, key, value)
  BY <1>1 DEF Within
<1>. QED  BY <1>2, <1>3 DEF new

(* A key that is in no bucket is there with no value. *)
LEMMA AbsentWithin ==
    ASSUME NEW n \in Nat, NEW tbl \in TablesOf(n), NEW key, NEW value,
           Absent(tbl, n, key)
    PROVE  ~ Within(tbl, DOMAIN tbl, key, value)
  BY DEF Absent, Lacks, Within, Is, TablesOf

(* An empty table holds nothing. *)
LEMMA NewTableHolds ==
    ASSUME NEW n \in Nat, NEW key, NEW value, NEW part \in SUBSET (0 .. n - 1)
    PROVE  ~ Within(NewTable(n), part, key, value)
  BY NewTableType DEF Within, Is

-----------------------------------------------------------------------------
(* What the store holds.                                                   *)

LEMMA KnownTypes ==
    Known => /\ TypeOK /\ RobinHood /\ CallKept
             /\ cap \in Nat /\ cap \in Sizes
             /\ buckets \in TablesOf(cap)
             /\ DOMAIN buckets = 0 .. cap - 1
             /\ (entry # None) = (pc \in {"insert", "insert_entry", "shift"})
             /\ pc \notin {"resize", "insert_entry"} => DOMAIN old = {} /\ Remaining = {}
             /\ pc \in {"idle", "insert", "resize", "insert_entry", "probe", "shift"}
             /\ pc # "idle" => op.key \in Keys
             /\ Inserted <=> \/ pc = "insert" /\ entry.key # op.key
                             \/ pc \in {"resize", "insert_entry"}
<1>. SUFFICES ASSUME Known
              PROVE  /\ TypeOK /\ RobinHood /\ CallKept
                     /\ cap \in Nat /\ cap \in Sizes
                     /\ buckets \in TablesOf(cap)
                     /\ DOMAIN buckets = 0 .. cap - 1
                     /\ (entry # None) = (pc \in {"insert", "insert_entry", "shift"})
                     /\ pc \notin {"resize", "insert_entry"} =>
                            DOMAIN old = {} /\ Remaining = {}
                     /\ pc \in {"idle", "insert", "resize", "insert_entry", "probe", "shift"}
                     /\ pc # "idle" => op.key \in Keys
                     /\ Inserted <=> \/ pc = "insert" /\ entry.key # op.key
                                     \/ pc \in {"resize", "insert_entry"}
  OBVIOUS
<1>1. TypeOK /\ RobinHood /\ CallKept
  BY DEF Known, Inductive
<1>2. pc \notin {"resize", "insert_entry"} => DOMAIN old = {} /\ Remaining = {}
  BY <1>1, NothingRemains DEF Remaining
<1>3. /\ cap \in Nat /\ cap \in Sizes
      /\ buckets \in TablesOf(cap)
      /\ DOMAIN buckets = 0 .. cap - 1
  BY <1>1, TableTypes DEF Sizes
<1>4. /\ (entry # None) = (pc \in {"insert", "insert_entry", "shift"})
      /\ pc \in {"idle", "insert", "resize", "insert_entry", "probe", "shift"}
      /\ pc # "idle" => op.key \in Keys
  BY <1>1 DEF TypeOK
<1>. QED  BY <1>1, <1>2, <1>3, <1>4 DEF Inserted

(* MapBefore looks among what is stored, except that the entry insert was
   called with does not count as long as it is in hand. *)
LEMMA HasIn ==
    ASSUME Known, NEW key, NEW value
    PROVE  Has(key, value) <=> \/ Within(buckets, DOMAIN buckets, key, value)
                               \/ Inserted /\ Is(entry, key, value)
                               \/ Within(old, Remaining, key, value)
<1>1. ASSUME Has(key, value)
      PROVE  \/ Within(buckets, DOMAIN buckets, key, value)
             \/ Inserted /\ Is(entry, key, value)
             \/ Within(old, Remaining, key, value)
  BY <1>1 DEF Has, Held, Within, Is, Occupied, Full
<1>2. ASSUME Within(buckets, DOMAIN buckets, key, value)
      PROVE  Has(key, value)
  BY <1>2 DEF Has, Held, Within, Is, Occupied, Full
<1>3. ASSUME Inserted /\ Is(entry, key, value)
      PROVE  Has(key, value)
  BY <1>3 DEF Has, Held, Is
<1>4. ASSUME Within(old, Remaining, key, value)
      PROVE  Has(key, value)
  BY <1>4 DEF Has, Held, Within, Is, Full
<1>. QED  BY <1>1, <1>2, <1>3, <1>4

LEMMA HasStored ==
    ASSUME Known, NEW key, NEW value, Settled(key)
    PROVE  Has(key, value) <=> Stored(key, value)
<1>1. Inserted /\ Is(entry, key, value) <=> Carrying /\ Is(entry, key, value)
  BY KnownTypes DEF Is, Settled, Carrying
<1>. QED  BY <1>1, HasIn DEF Stored

(* No key has two values. *)
LEMMA HasOne ==
    ASSUME Known, NEW key, NEW v, NEW w, Has(key, v), Has(key, w)
    PROVE  v = w
<1>. DEFINE InTable(x) == Within(buckets, DOMAIN buckets, key, x)
            InHandNow(x) == Inserted /\ Is(entry, key, x)
            InOld(x) == Within(old, Remaining, key, x)
<1>1. /\ InTable(v) \/ InHandNow(v) \/ InOld(v)
      /\ InTable(w) \/ InHandNow(w) \/ InOld(w)
  BY HasIn
<1>2. RobinHood /\ CallKept
  BY KnownTypes
<1>3. ASSUME NEW x, NEW y, InTable(x), InTable(y)
      PROVE  x = y
  BY <1>2, <1>3, KnownTypes DEF RobinHood, WellPlaced, Within, Is
<1>4. ASSUME NEW x, NEW y, InOld(x), InOld(y)
      PROVE  x = y
  BY <1>2, <1>4 DEF RobinHood, OldApart, Within, Is
<1>5. ASSUME NEW x, NEW y, InTable(x), InOld(y)
      PROVE  FALSE
  <2>1. key \in KeysIn(buckets, DOMAIN buckets)
    BY <1>5 DEF KeysIn, Full, Within, Is
  <2>2. key \in KeysIn(old, Remaining)
    BY <1>5 DEF KeysIn, Full, Within, Is
  <2>. QED  BY <1>2, <2>1, <2>2 DEF RobinHood, OldApart
<1>6. ASSUME NEW x, NEW y, InHandNow(x), InTable(y) \/ InOld(y)
      PROVE  FALSE
  <2>1. /\ entry # None /\ entry.key = key
        /\ \/ pc = "insert" /\ entry.key # op.key
           \/ pc = "insert_entry"
    BY <1>6, KnownTypes DEF Is
  <2>2. CASE pc = "insert"
    <3>1. Absent(buckets, cap, key)
      BY <1>2, <2>1, <2>2 DEF CallKept
    <3>2. ~ InTable(y)
      BY <3>1, AbsentWithin, KnownTypes
    <3>3. ~ InOld(y)
      BY <2>2, KnownTypes DEF Within
    <3>. QED  BY <1>6, <3>2, <3>3
  <2>3. CASE pc = "insert_entry"
    <3>1. key \in KeysIn(buckets, DOMAIN buckets) \cup KeysIn(old, Remaining)
      BY <1>6 DEF KeysIn, Full, Within, Is
    <3>. QED  BY <1>2, <2>1, <2>3, <3>1 DEF RobinHood, OldApart
  <2>. QED  BY <2>1, <2>2, <2>3
<1>7. ASSUME InHandNow(v), InHandNow(w)
      PROVE  v = w
  BY <1>7 DEF Is
<1>. HIDE DEF InTable, InHandNow, InOld
<1>. QED  BY <1>1, <1>3, <1>4, <1>5, <1>6, <1>7

(* MapBefore, read off. *)
LEMMA ReadValue ==
    ASSUME Known, NEW key \in Keys, NEW value, Has(key, value),
           ~ (Inserted /\ key = op.key), ~ (pc = "shift" /\ key = op.key)
    PROVE  MapBefore[key] = value
<1>. DEFINE P(e) == e \in Held \ {None} /\ e.key = key
            found == CHOOSE e \in Held \ {None} : e.key = key
<1>1. \E e \in Held \ {None} : e.key = key
  BY DEF Has
<1>2. found \in Held \ {None} /\ found.key = key
  BY <1>1
<1>3. MapBefore[key] = found.value
  BY <1>1 DEF MapBefore
<1>. HIDE DEF found
<1>4. Has(key, found.value)
  BY <1>2 DEF Has
<1>. QED  BY <1>3, <1>4, HasOne

LEMMA ReadNone ==
    ASSUME Known, NEW key \in Keys, \A value : ~ Has(key, value),
           ~ (pc = "shift" /\ key = op.key)
    PROVE  MapBefore[key] = None
<1>1. ~ \E e \in Held \ {None} : e.key = key
  BY DEF Has
<1>. QED  BY <1>1 DEF MapBefore

LEMMA ReadInserted ==
    ASSUME Known, Inserted
    PROVE  MapBefore[op.key] = None
  BY KnownTypes DEF MapBefore

LEMMA ReadTaken ==
    ASSUME Known, pc = "shift"
    PROVE  MapBefore[op.key] = entry.value
<1>1. ~ Inserted
  BY KnownTypes
<1>. QED  BY <1>1, KnownTypes DEF MapBefore

(* insert has not met its key when it puts its entry down, nor once it has. *)
LEMMA ReadNew ==
    ASSUME Known, pc = "insert", Inserted \/ Absent(buckets, cap, op.key)
    PROVE  MapBefore[op.key] = None
<1>1. CASE Inserted
  BY <1>1, ReadInserted
<1>2. CASE ~ Inserted /\ Absent(buckets, cap, op.key)
  <2>1. \A value : ~ Has(op.key, value)
    <3>. SUFFICES ASSUME NEW value PROVE ~ Has(op.key, value)
      OBVIOUS
    <3>1. ~ Within(buckets, DOMAIN buckets, op.key, value)
      BY <1>2, AbsentWithin, KnownTypes
    <3>2. ~ Within(old, Remaining, op.key, value)
      BY KnownTypes DEF Within
    <3>. QED  BY <1>2, <3>1, <3>2, HasIn
  <2>. QED  BY <2>1, ReadNone, KnownTypes
<1>. QED  BY <1>1, <1>2

(* Keys that MapBefore looks up, whatever the call in progress. *)
Plain(key) == ~ (key = op.key /\ (Inserted \/ pc = "shift"))

Readable ==
    /\ \A key \in Keys : \A value : Plain(key) /\ Has(key, value) => MapBefore[key] = value
    /\ \A key \in Keys :
           Plain(key) /\ (\A value : ~ Has(key, value)) => MapBefore[key] = None
    /\ \A key, value : Settled(key) => (Has(key, value) <=> Stored(key, value))
    /\ pc = "insert" /\ ~ Inserted =>
           \A key, value :
               Has(key, value) <=> Within(buckets, DOMAIN buckets, key, value)
    /\ Inserted => MapBefore[op.key] = None
    /\ pc = "insert" /\ Absent(buckets, cap, op.key) => MapBefore[op.key] = None
    /\ pc = "shift" => MapBefore[op.key] = entry.value

LEMMA KnownReadable == Known => Readable
<1>. SUFFICES ASSUME Known PROVE Readable
  OBVIOUS
<1>1. \A key \in Keys : \A value : Plain(key) /\ Has(key, value) => MapBefore[key] = value
  BY ReadValue DEF Plain
<1>2. \A key \in Keys :
          Plain(key) /\ (\A value : ~ Has(key, value)) => MapBefore[key] = None
  <2>1. SUFFICES ASSUME NEW key \in Keys, Plain(key), \A value : ~ Has(key, value)
                 PROVE  MapBefore[key] = None
    OBVIOUS
  <2>2. CASE Inserted /\ key = op.key
    BY <2>2, ReadInserted
  <2>3. CASE ~ (Inserted /\ key = op.key)
    BY <2>1, <2>3, ReadNone DEF Plain
  <2>. QED  BY <2>2, <2>3
<1>3. \A key, value : Settled(key) => (Has(key, value) <=> Stored(key, value))
  BY HasStored
<1>4. pc = "insert" /\ ~ Inserted =>
          \A key, value : Has(key, value) <=> Within(buckets, DOMAIN buckets, key, value)
  <2>. SUFFICES ASSUME pc = "insert", ~ Inserted, NEW key, NEW value
                PROVE  Has(key, value) <=> Within(buckets, DOMAIN buckets, key, value)
    OBVIOUS
  <2>1. ~ Within(old, Remaining, key, value)
    BY KnownTypes DEF Within
  <2>. QED  BY <2>1, HasIn
<1>. QED  BY <1>1, <1>2, <1>3, <1>4, ReadInserted, ReadNew, ReadTaken DEF Readable

LEMMA KnownReadableNext == Known' => Readable'
  BY KnownReadable, PTL

(* A key whose pairs stay has the value it had. *)
LEMMA SameValue ==
    ASSUME Known, Known', NEW key \in Keys, Plain(key), Plain(key)',
           \A value : Has(key, value)' <=> Has(key, value)
    PROVE  MapBefore'[key] = MapBefore[key]
<1>1. Readable /\ Readable'
  BY KnownReadable, KnownReadableNext
<1>2. CASE \E value : Has(key, value)
  BY <1>1, <1>2 DEF Readable
<1>3. CASE \A value : ~ Has(key, value)
  BY <1>1, <1>3 DEF Readable
<1>. QED  BY <1>2, <1>3

(* A round of a loop is no step of the map if the other keys' pairs stay and
   the value read off for the key of the call does. *)
LEMMA RoundKeeps ==
    ASSUME Known, Known', op' = op, pc # "idle", pc' # "idle",
           \A key, value : key # op.key => (Stored(key, value)' <=> Stored(key, value)),
           MapBefore'[op.key] = MapBefore[op.key]
    PROVE  MapBefore' = MapBefore
<1>1. \A key \in Keys : MapBefore'[key] = MapBefore[key]
  <2>. SUFFICES ASSUME NEW key \in Keys, key # op.key
                PROVE  MapBefore'[key] = MapBefore[key]
    OBVIOUS
  <2>1. Settled(key) /\ Settled(key)' /\ Plain(key) /\ Plain(key)'
    BY DEF Settled, Plain
  <2>2. \A value : Has(key, value)' <=> Has(key, value)
    BY <2>1, KnownReadable, KnownReadableNext DEF Readable
  <2>. QED  BY <2>1, <2>2, SameValue
<1>. QED  BY <1>1 DEF MapBefore

(* A call answers with the value its key had, and leaves the key the value
   that is then stored for it, and every other key its own. *)
LEMMA ReturnAnswers ==
    ASSUME Known, Known', pc # "idle", NEW answer, Return(answer),
           \A key, value : key # op.key => (Stored(key, value)' <=> Stored(key, value)),
           MapBefore[op.key] = answer,
           NEW new, new = Abstract!NewValueOf(op, answer),
           \A key : key = op.key =>
               \/ Stored(key, new)'
               \/ new = None /\ \A value : ~ Stored(key, value)'
    PROVE  Abstract!Return
<1>1. pc' = "idle" /\ op' = None /\ result' = answer
  BY DEF Return
<1>2. \A key : Settled(key)' /\ Plain(key)'
  BY <1>1 DEF Settled, Plain, Inserted
<1>3. Readable /\ Readable'
  BY KnownReadable, KnownReadableNext
<1>4. ASSUME NEW key \in Keys, key # op.key
      PROVE  MapBefore'[key] = MapBefore[key]
  <2>1. Settled(key) /\ Plain(key)
    BY <1>4 DEF Settled, Plain
  <2>2. \A value : Has(key, value)' <=> Has(key, value)
    BY <1>2, <1>3, <1>4, <2>1 DEF Readable
  <2>. QED  BY <1>2, <2>1, <2>2, SameValue
<1>5. op.key \in Keys
  BY KnownTypes
<1>6. ASSUME NEW key \in Keys, key = op.key
      PROVE  MapBefore'[key] = new
  <2>1. CASE Stored(key, new)'
    BY <1>2, <1>3, <2>1 DEF Readable
  <2>2. CASE new = None /\ \A value : ~ Stored(key, value)'
    BY <1>2, <1>3, <2>2 DEF Readable
  <2>. QED  BY <1>6, <2>1, <2>2
<1>7. MapBefore' = [MapBefore EXCEPT ![op.key] = new]
  <2>1. DOMAIN MapBefore = Keys /\ DOMAIN MapBefore' = Keys
    BY DEF MapBefore
  <2>2. MapBefore = [key \in Keys |-> MapBefore[key]]
    BY DEF MapBefore
  <2>3. MapBefore' = [key \in Keys |-> MapBefore'[key]]
    BY DEF MapBefore
  <2>. HIDE DEF MapBefore
  <2>. QED  BY <1>4, <1>5, <1>6, <2>1, <2>2, <2>3
<1>8. op # None
  BY KnownTypes, OperationAssumption DEF CallKept
<1>. QED  BY <1>1, <1>7, <1>8 DEF Abstract!Return

-----------------------------------------------------------------------------
(* What each round does to the pairs of the store.                         *)

(* The entry in hand is put into a free bucket. *)
LEMMA PlaceStores ==
    ASSUME Known, Carrying, buckets[Target] = None,
           NEW full, full = [buckets EXCEPT ![Target] = entry], NEW key, NEW value
    PROVE  Within(full, DOMAIN full, key, value)
               <=> \/ Within(buckets, DOMAIN buckets, key, value)
                   \/ Carrying /\ Is(entry, key, value)
<1>1. Target \in 0 .. cap - 1 /\ entry \in Entries
  BY KnownTypes, TargetType DEF Carrying
<1>2. ~ Is(buckets[Target], key, value)
  BY DEF Is
<1>. QED  BY <1>1, <1>2, KnownTypes, WithinPut

LEMMA InsertPlaceStores ==
    ASSUME Known, InsertPlace, NEW key, NEW value
    PROVE  Stored(key, value)' <=> Stored(key, value)
<1>. DEFINE full == [buckets EXCEPT ![Target] = entry]
<1>1. pc = "insert" /\ buckets[Target] = None /\ Carrying
  BY DEF InsertPlace, Carrying
<1>2. Within(full, DOMAIN full, key, value)
          <=> \/ Within(buckets, DOMAIN buckets, key, value)
              \/ Carrying /\ Is(entry, key, value)
  BY <1>1, PlaceStores
<1>3. ~ Within(old, Remaining, key, value)
  BY <1>1, KnownTypes DEF Within
<1>4. DOMAIN full = 0 .. cap - 1 /\ cap \in Nat /\ 2 * cap \in Nat
  BY KnownTypes
<1>5. CASE ShouldResize(len + 1)
  <2>1. Resize(full)
    BY <1>5 DEF InsertPlace
  <2>. HIDE DEF full
  <2>2. /\ buckets' = NewTable(2 * cap) /\ old' = full /\ cursor' = 0
        /\ ~ Carrying'
    BY <2>1 DEF Resize, Carrying
  <2>3. ~ Within(buckets', DOMAIN buckets', key, value)
    BY <1>4, <2>2, NewTableHolds, NewTableType
  <2>4. Remaining' = DOMAIN full
    BY <1>4, <2>2 DEF Remaining
  <2>. QED  BY <1>2, <1>3, <2>2, <2>3, <2>4 DEF Stored
<1>6. CASE ~ ShouldResize(len + 1)
  <2>1. buckets' = full /\ Return(None)
    BY <1>6 DEF InsertPlace
  <2>. HIDE DEF full
  <2>2. ~ Carrying' /\ old' = NewTable(0) /\ cursor' = 0
    BY <2>1 DEF Return, Carrying
  <2>3. ~ Within(old', Remaining', key, value)
    BY <2>2, NewTableType DEF Within, Remaining
  <2>. QED  BY <1>2, <1>3, <2>1, <2>2, <2>3 DEF Stored
<1>. QED  BY <1>5, <1>6

(* One entry is put down, another carried on: both are still there. *)
LEMMA DisplaceStores ==
    ASSUME Known, Carrying, buckets[Target] # None, Displace,
           UNCHANGED <<pc, old, cursor>>, NEW key, NEW value
    PROVE  Stored(key, value)' <=> Stored(key, value)
<1>. DEFINE d == buckets[Target]
<1>1. /\ Target \in 0 .. cap - 1 /\ entry \in Entries /\ d \in Entries
      /\ entry.psl \in Nat /\ d.psl \in Nat
  BY KnownTypes, TargetType DEF Carrying, Entries
<1>2. /\ Carrying'
      /\ Within(old, Remaining, key, value)' <=> Within(old, Remaining, key, value)
  BY DEF Carrying, Within, Remaining
<1>3. CASE d.psl < entry.psl
  <2>1. /\ buckets' = [buckets EXCEPT ![Target] = entry]
        /\ entry' = [d EXCEPT !.psl = @ + 1]
    BY <1>3 DEF Displace
  <2>2. entry' \in Entries /\ entry'.key = d.key /\ entry'.value = d.value
    BY <1>1, <2>1 DEF Entries
  <2>3. Is(entry', key, value) <=> Is(d, key, value)
    BY <1>1, <2>2, NoneAssumption DEF Is
  <2>. DEFINE rest == Within(buckets, (0 .. cap - 1) \ {Target}, key, value)
  <2>4. /\ Within(buckets, DOMAIN buckets, key, value) <=> rest \/ Is(d, key, value)
        /\ Within(buckets', DOMAIN buckets', key, value) <=> rest \/ Is(entry, key, value)
    BY <1>1, <2>1, KnownTypes, WithinPut
  <2>. HIDE DEF d, rest
  <2>5. Carrying' /\ Carrying
    BY <1>2
  <2>. QED  BY <1>2, <2>3, <2>4, <2>5 DEF Stored
<1>4. CASE ~ (d.psl < entry.psl)
  <2>1. buckets' = buckets /\ entry' = [entry EXCEPT !.psl = @ + 1]
    BY <1>4 DEF Displace
  <2>2. entry' \in Entries /\ entry'.key = entry.key /\ entry'.value = entry.value
    BY <1>1, <2>1 DEF Entries
  <2>3. Is(entry', key, value) <=> Is(entry, key, value)
    BY <1>1, <2>2, NoneAssumption DEF Is
  <2>. QED  BY <1>2, <2>1, <2>3 DEF Stored
<1>. QED  BY <1>3, <1>4

(* resize passes a free bucket. *)
LEMMA SkipStores ==
    ASSUME Known, ResizeSkip, NEW key, NEW value
    PROVE  Stored(key, value)' <=> Stored(key, value)
<1>1. /\ old[cursor] = None /\ cursor' = cursor + 1 /\ old' = old
      /\ buckets' = buckets /\ entry' = entry /\ pc' = pc
  BY DEF ResizeSkip, table
<1>2. cursor \in Nat /\ DOMAIN old \subseteq Nat
  BY KnownTypes DEF TypeOK
<1>3. Remaining' = Remaining \ {cursor}
  BY <1>1, <1>2 DEF Remaining
<1>4. Within(old', Remaining', key, value) <=> Within(old, Remaining, key, value)
  BY <1>1, <1>3 DEF Within, Is
<1>. QED  BY <1>1, <1>4 DEF Stored, Carrying

(* resize takes an entry of the old table in hand. *)
LEMMA TakeStores ==
    ASSUME Known, ResizeTake, NEW key, NEW value
    PROVE  Stored(key, value)' <=> Stored(key, value)
<1>1. /\ pc = "resize" /\ pc' = "insert_entry"
      /\ cursor \in DOMAIN old /\ old[cursor] # None
      /\ cursor' = cursor + 1 /\ old' = old /\ buckets' = buckets
      /\ entry' = [old[cursor] EXCEPT !.psl = 0]
  BY DEF ResizeTake, table
<1>2. /\ cursor \in Nat /\ DOMAIN old \subseteq Nat
      /\ old[cursor] \in Entries
  BY <1>1, KnownTypes DEF TypeOK
<1>3. Remaining' = Remaining \ {cursor} /\ cursor \in Remaining
  BY <1>1, <1>2 DEF Remaining
<1>4. entry' \in Entries /\ entry'.key = old[cursor].key /\ entry'.value = old[cursor].value
  BY <1>1, <1>2 DEF Entries
<1>5. Is(entry', key, value) <=> Is(old[cursor], key, value)
  BY <1>1, <1>4, NoneAssumption DEF Is
<1>6. Within(old, Remaining, key, value)
          <=> Within(old', Remaining', key, value) \/ Is(entry', key, value)
  BY <1>1, <1>3, <1>5 DEF Within
<1>7. Carrying' /\ ~ Carrying
  BY <1>1 DEF Carrying
<1>. QED  BY <1>1, <1>6, <1>7 DEF Stored

(* insert_entry puts it into the new table. *)
LEMMA EntryPlaceStores ==
    ASSUME Known, InsertEntryPlace, NEW key, NEW value
    PROVE  Stored(key, value)' <=> Stored(key, value)
<1>1. /\ Carrying /\ ~ Carrying' /\ buckets[Target] = None
      /\ buckets' = [buckets EXCEPT ![Target] = entry]
      /\ old' = old /\ Remaining' = Remaining
  BY DEF InsertEntryPlace, Carrying, Remaining
<1>2. Within(buckets', DOMAIN buckets', key, value)
          <=> \/ Within(buckets, DOMAIN buckets, key, value)
              \/ Carrying /\ Is(entry, key, value)
  BY <1>1, PlaceStores
<1>. QED  BY <1>1, <1>2 DEF Stored

(* An entry is given another value. *)
LEMMA RevalueStores ==
    ASSUME Known, NEW t \in 0 .. cap - 1, buckets[t] # None, NEW new,
           DOMAIN new = 0 .. cap - 1,
           \A i \in 0 .. cap - 1 : i # t => new[i] = buckets[i],
           new[t] \in Entries, new[t].key = buckets[t].key, NEW key, NEW value
    PROVE  Within(new, DOMAIN new, key, value)
               <=> IF key = buckets[t].key THEN value = new[t].value
                   ELSE Within(buckets, DOMAIN buckets, key, value)
<1>. DEFINE rest == Within(buckets, (0 .. cap - 1) \ {t}, key, value)
<1>4. /\ Within(buckets, DOMAIN buckets, key, value) <=> rest \/ Is(buckets[t], key, value)
      /\ Within(new, DOMAIN new, key, value) <=> rest \/ Is(new[t], key, value)
  BY KnownTypes DEF Within
<1>5. key = buckets[t].key => ~ rest
  <2>1. WellPlaced(hasher, buckets, cap, Holes)
    BY KnownTypes DEF RobinHood
  <2>. QED  BY <2>1 DEF WellPlaced, Within, Is
<1>6. Is(new[t], key, value) <=> key = buckets[t].key /\ value = new[t].value
  BY NoneAssumption DEF Is
<1>7. Is(buckets[t], key, value) => key = buckets[t].key
  BY DEF Is
<1>. HIDE DEF rest
<1>. QED  BY <1>4, <1>5, <1>6, <1>7

(* del takes its key's entry out; nothing else goes. *)
LEMMA FoundDelStores ==
    ASSUME Known, FoundDel
    PROVE  /\ \A key, value : key # op.key => (Stored(key, value)' <=> Stored(key, value))
           /\ Absent(buckets', cap, op.key)
<1>1. /\ pc = "probe" /\ pc' = "shift" /\ buckets[Probed].key = op.key
      /\ buckets' = [buckets EXCEPT ![Probed] = None]
      /\ old' = old /\ cursor' = cursor
  BY DEF FoundDel, Found
<1>2. Probed \in 0 .. cap - 1
  BY <1>1, ProbedType, KnownTypes
<1>3. /\ DOMAIN buckets = 0 .. cap - 1
      /\ DOMAIN buckets' = 0 .. cap - 1
      /\ \A i \in (0 .. cap - 1) \ {Probed} : buckets'[i] = buckets[i]
      /\ buckets'[Probed] = None
  BY <1>1, <1>2, KnownTypes
<1>4. buckets[Probed] # None
  BY KnownTypes DEF FoundDel, Found, GivesUp, TypeOK, Entries
<1>5. Absent(buckets', cap, op.key)
  <2>1. WellPlaced(hasher, buckets, cap, Holes)
    BY KnownTypes DEF RobinHood
  <2>. QED  BY <1>1, <1>2, <1>3, <1>4, <2>1 DEF WellPlaced, Absent, Lacks
<1>6. ASSUME NEW key, NEW value, key # op.key
      PROVE  Stored(key, value)' <=> Stored(key, value)
  <2>1. Within(buckets', DOMAIN buckets', key, value)
            <=> Within(buckets, DOMAIN buckets, key, value)
    BY <1>1, <1>3, <1>6 DEF Within, Is
  <2>. QED  BY <1>1, <2>1 DEF Stored, Carrying, Remaining
<1>. QED  BY <1>5, <1>6

(* An entry shifted back is the same entry. *)
LEMMA ShiftBackStores ==
    ASSUME Known, ShiftBack
    PROVE  /\ \A key, value : Stored(key, value)' <=> Stored(key, value)
           /\ Absent(buckets', cap, op.key)
<1>. DEFINE d == buckets[NextBucket]
            moved == [d EXCEPT !.psl = @ - 1]
<1>1. /\ pc = "shift" /\ pc' = pc /\ d # None
      /\ buckets' = [buckets EXCEPT ![hole] = moved, ![NextBucket] = None]
      /\ old' = old /\ cursor' = cursor
  BY DEF ShiftBack, Displaced
<1>2. /\ NextBucket \in 0 .. cap - 1 /\ hole \in 0 .. cap - 1
      /\ d \in Entries /\ d.psl \in Nat
      /\ buckets[hole] = None
      /\ NextBucket # hole
      /\ Absent(buckets, cap, op.key)
  BY <1>1, KnownTypes, NextBucketType DEF TypeOK, Entries, RobinHood, CallKept
<1>3. moved # None /\ moved.key = d.key /\ moved.value = d.value
  <2>1. d.psl - 1 \in Nat
    BY <1>2, KnownTypes DEF ShiftBack, Displaced
  <2>2. moved \in Entries
    BY <1>2, <2>1 DEF Entries
  <2>. QED  BY <1>2, <2>2, NoneAssumption DEF Entries
<1>. HIDE DEF moved
<1>4. /\ DOMAIN buckets = 0 .. cap - 1
      /\ DOMAIN buckets' = 0 .. cap - 1
      /\ \A i \in (0 .. cap - 1) \ {hole, NextBucket} : buckets'[i] = buckets[i]
      /\ buckets'[hole] = moved /\ buckets'[NextBucket] = None
  BY <1>1, <1>2, KnownTypes
<1>5. Absent(buckets', cap, op.key)
  BY <1>1, <1>2, <1>3, <1>4 DEF Absent, Lacks
<1>6. ASSUME NEW key, NEW value
      PROVE  Stored(key, value)' <=> Stored(key, value)
  <2>1. Is(moved, key, value) <=> Is(d, key, value)
    BY <1>1, <1>3 DEF Is
  <2>2. ~ Is(None, key, value)
    BY DEF Is
  <2>3. Within(buckets', DOMAIN buckets', key, value)
            <=> Within(buckets, DOMAIN buckets, key, value)
    BY <1>2, <1>4, <2>1, <2>2 DEF Within
  <2>. QED  BY <1>1, <2>3 DEF Stored, Carrying, Remaining
<1>. QED  BY <1>5, <1>6

(* What a call leaves is what the table holds. *)
LEMMA ReturnStores ==
    ASSUME Known, NEW answer, Return(answer), NEW key, NEW value
    PROVE  Stored(key, value)' <=> Within(buckets', DOMAIN buckets', key, value)
<1>1. ~ Carrying' /\ old' = NewTable(0) /\ cursor' = 0
  BY DEF Return, Carrying
<1>2. ~ Within(old', Remaining', key, value)
  BY <1>1, NewTableType DEF Within, Remaining
<1>. QED  BY <1>1, <1>2 DEF Stored

(* Outside a resize, with nothing to add, it holds the same before. *)
LEMMA TableStores ==
    ASSUME Known, pc \in {"idle", "probe", "shift"}, NEW key, NEW value
    PROVE  Stored(key, value) <=> Within(buckets, DOMAIN buckets, key, value)
<1>1. Remaining = {}
  BY KnownTypes
<1>. QED  BY <1>1 DEF Stored, Carrying, Within

(* At the end of a resize nothing is left in the old table. *)
LEMMA DoneStores ==
    ASSUME Known, ResizeDone, NEW key, NEW value
    PROVE  Stored(key, value)' <=> Stored(key, value)
<1>1. /\ pc = "resize" /\ cursor \notin DOMAIN old /\ Return(None)
      /\ buckets' = buckets
  BY DEF ResizeDone, table
<1>2. cursor \in Nat /\ \E n \in Nat : DOMAIN old = 0 .. n - 1
  <2>1. cap \in Nat /\ cap \div 2 \in Nat
    BY KnownTypes
  <2>2. DOMAIN old = 0 .. cap \div 2 - 1 /\ cursor \in Nat
    BY <1>1, KnownTypes DEF TypeOK
  <2>. QED  BY <2>1, <2>2
<1>3. Remaining = {}
  BY <1>1, <1>2 DEF Remaining
<1>4. ~ Within(old, Remaining, key, value) /\ ~ Carrying
  BY <1>1, <1>3 DEF Within, Carrying
<1>. QED  BY <1>1, <1>4, ReturnStores DEF Stored

(* insert and get_mut assign to the value in a bucket and return. *)
LEMMA AssignStores ==
    ASSUME Known, NEW t \in 0 .. cap - 1, buckets[t] # None, NEW v \in Values,
           buckets' = [buckets EXCEPT ![t].value = v],
           NEW answer, Return(answer), NEW key, NEW value
    PROVE  Stored(key, value)' <=> IF key = buckets[t].key THEN value = v
                                   ELSE Within(buckets, DOMAIN buckets, key, value)
<1>1. /\ DOMAIN buckets' = 0 .. cap - 1
      /\ \A i \in 0 .. cap - 1 : i # t => buckets'[i] = buckets[i]
      /\ buckets'[t] = [buckets[t] EXCEPT !.value = v]
  BY KnownTypes
<1>2. buckets[t] \in Entries
  BY KnownTypes DEF TablesOf
<1>3. PICK new : new = buckets'
  OBVIOUS
<1>4. /\ DOMAIN new = 0 .. cap - 1
      /\ \A i \in 0 .. cap - 1 : i # t => new[i] = buckets[i]
      /\ new[t] \in Entries /\ new[t].key = buckets[t].key /\ new[t].value = v
  BY <1>1, <1>2, <1>3 DEF Entries
<1>5. Within(new, DOMAIN new, key, value)
          <=> IF key = buckets[t].key THEN value = new[t].value
              ELSE Within(buckets, DOMAIN buckets, key, value)
  BY <1>4, RevalueStores
<1>6. Stored(key, value)' <=> Within(buckets', DOMAIN buckets', key, value)
  BY ReturnStores
<1>. QED  BY <1>3, <1>4, <1>5, <1>6

-----------------------------------------------------------------------------
(* What a call knows of itself lasts.                                      *)

LEMMA CallInit == Init => CallKept
  BY DEF Init, CallKept

LEMMA CallReturned ==
    ASSUME NEW answer, Return(answer)
    PROVE  CallKept'
  BY DEF Return, CallKept

\* The new entry of a call stays stored if everything stored does.
LEMMA NewEntryStays ==
    ASSUME Known, pc \in {"insert", "resize", "insert_entry"}, op' = op,
           \A key, value : Stored(key, value)' <=> Stored(key, value)
    PROVE  Stored(op.key, op.value)'
<1>1. Stored(op.key, op.value)
  BY KnownTypes DEF CallKept
<1>2. \A key, value : key = op.key /\ value = op.value => Stored(key, value)'
  BY <1>1
<1>. QED  BY <1>2 DEF Stored, Within, Is, Carrying, Remaining

LEMMA CallInsert ==
    ASSUME NEW key \in Keys, NEW value \in Values, Insert(key, value)
    PROVE  CallKept'
<1>1. /\ op' = [kind |-> "insert", key |-> key, value |-> value]
      /\ entry' = [key |-> key, value |-> value, psl |-> 0]
      /\ pc' = "insert"
  BY DEF Insert
<1>2. op' \in Abstract!Operations
  BY <1>1 DEF Abstract!Operations
<1>3. entry' \in Entries
  BY <1>1 DEF Entries
<1>4. Carrying' /\ Is(entry', op'.key, op'.value)
  BY <1>1, <1>3, NoneAssumption DEF Carrying, Is
<1>5. Stored(op.key, op.value)'
  BY <1>4 DEF Stored, Carrying, Is
<1>. QED  BY <1>1, <1>2, <1>5 DEF CallKept

\* insert carries on: if it meets its own new entry, it meets the value too.
LEMMA CallProbe ==
    ASSUME Known, InsertProbe
    PROVE  CallKept'
<1>. DEFINE d == buckets[Target]
<1>1. /\ pc = "insert" /\ pc' = pc /\ op' = op /\ cap' = cap
      /\ UNCHANGED <<pc, old, cursor>>
      /\ d # None /\ d.key # entry.key /\ Displace /\ Carrying
  BY DEF InsertProbe, Carrying
<1>2. /\ Target \in 0 .. cap - 1
      /\ entry \in Entries /\ d \in Entries
      /\ entry.psl \in Nat /\ d.psl \in Nat
      /\ op.key \in Keys
  BY <1>1, KnownTypes, TargetType DEF Entries
<1>3. Stored(op.key, op.value)'
  BY <1>1, DisplaceStores, NewEntryStays
<1>4. op' \in Abstract!Operations
  BY <1>1, KnownTypes DEF CallKept
<1>5. CASE d.psl < entry.psl
  <2>1. /\ buckets' = [buckets EXCEPT ![Target] = entry]
        /\ entry' = [d EXCEPT !.psl = @ + 1]
    BY <1>1, <1>5 DEF Displace
  <2>2. entry'.key = d.key /\ entry'.value = d.value
    BY <1>2, <2>1 DEF Entries
  <2>3. Absent(buckets, cap, entry.key)
    BY <1>1, <1>5, HandAbsent, KnownTypes
  <2>4. WellPlaced(hasher, buckets, cap, {})
    BY <1>1, KnownTypes DEF RobinHood, Holes
  <2>5. Absent(buckets', cap, d.key)
    BY <1>1, <1>2, <1>5, <2>1, <2>3, <2>4, KnownTypes, TableTypes, PutCarriesOn
  <2>6. d.key = op.key => d.value = op.value
    <3>. SUFFICES ASSUME d.key = op.key PROVE d.value = op.value
      OBVIOUS
    <3>1. Stored(op.key, op.value)
      BY <1>1, KnownTypes DEF CallKept
    <3>2. Remaining = {}
      BY <1>1, KnownTypes
    <3>3. Within(buckets, DOMAIN buckets, op.key, op.value)
      BY <1>1, <3>1, <3>2 DEF Stored, Is, Within
    <3>. QED  BY <1>1, <1>2, <2>4, <3>3, KnownTypes DEF Within, Is, WellPlaced
  <2>. HIDE DEF d
  <2>. QED  BY <1>1, <1>3, <1>4, <2>2, <2>5, <2>6 DEF CallKept
<1>6. CASE ~ (d.psl < entry.psl)
  <2>1. buckets' = buckets /\ entry' = [entry EXCEPT !.psl = @ + 1]
    BY <1>1, <1>6 DEF Displace
  <2>2. entry'.key = entry.key /\ entry'.value = entry.value
    BY <1>2, <2>1 DEF Entries
  <2>. QED  BY <1>1, <1>3, <1>4, <2>1, <2>2, KnownTypes DEF CallKept
<1>. QED  BY <1>5, <1>6

LEMMA CallStep == Known /\ [Next]_vars => CallKept'
<1>. SUFFICES ASSUME Known, [Next]_vars
              PROVE  CallKept'
  OBVIOUS
<1>1. CallKept /\ (pc # "idle" => op \in Abstract!Operations)
  BY KnownTypes DEF CallKept
<1>2. ASSUME NEW o \in Abstract!Operations, Lookup(o)
      PROVE  CallKept'
  BY <1>2 DEF Lookup, CallKept
<1>3. ASSUME NEW key \in Keys, NEW value \in Values, GetMut(key, value)
      PROVE  CallKept'
  BY <1>2, <1>3 DEF GetMut, Abstract!Operations
<1>4. ASSUME NEW key \in Keys, Get(key) \/ Del(key)
      PROVE  CallKept'
  BY <1>2, <1>4 DEF Get, Del, Abstract!Operations
<1>5. CASE InsertPlace
  <2>1. CASE ShouldResize(len + 1)
    <3>1. pc' = "resize" /\ op' = op /\ pc = "insert"
      BY <1>5, <2>1 DEF InsertPlace, Resize
    <3>2. Stored(op.key, op.value)'
      BY <1>5, <3>1, InsertPlaceStores, NewEntryStays
    <3>. QED  BY <1>1, <3>1, <3>2 DEF CallKept
  <2>2. CASE ~ ShouldResize(len + 1)
    BY <1>5, <2>2, CallReturned DEF InsertPlace
  <2>. QED  BY <2>1, <2>2
<1>6. CASE InsertReplace
  BY <1>6, CallReturned DEF InsertReplace
<1>7. CASE InsertProbe
  BY <1>7, CallProbe
<1>8. CASE ResizeSkip
  <2>1. pc = "resize" /\ pc' = pc /\ op' = op
    BY <1>8 DEF ResizeSkip
  <2>2. Stored(op.key, op.value)'
    BY <1>8, <2>1, SkipStores, NewEntryStays
  <2>. QED  BY <1>1, <2>1, <2>2 DEF CallKept
<1>9. CASE ResizeTake
  <2>1. pc = "resize" /\ pc' = "insert_entry" /\ op' = op
    BY <1>9 DEF ResizeTake
  <2>2. Stored(op.key, op.value)'
    BY <1>9, <2>1, TakeStores, NewEntryStays
  <2>. QED  BY <1>1, <2>1, <2>2 DEF CallKept
<1>10. CASE ResizeDone
  BY <1>10, CallReturned DEF ResizeDone
<1>11. CASE InsertEntryPlace
  <2>1. pc = "insert_entry" /\ pc' = "resize" /\ op' = op
    BY <1>11 DEF InsertEntryPlace
  <2>2. Stored(op.key, op.value)'
    BY <1>11, <2>1, EntryPlaceStores, NewEntryStays
  <2>. QED  BY <1>1, <2>1, <2>2 DEF CallKept
<1>12. CASE InsertEntryProbe
  <2>1. /\ pc = "insert_entry" /\ pc' = pc /\ op' = op /\ Carrying
        /\ UNCHANGED <<pc, old, cursor>> /\ buckets[Target] # None /\ Displace
    BY <1>12 DEF InsertEntryProbe, Carrying
  <2>2. Stored(op.key, op.value)'
    BY <2>1, DisplaceStores, NewEntryStays
  <2>. QED  BY <1>1, <2>1, <2>2 DEF CallKept
<1>13. CASE ProbeMiss
  BY <1>13, CallReturned DEF ProbeMiss
<1>14. CASE ProbeOn
  BY <1>1, <1>14 DEF ProbeOn, CallKept
<1>15. CASE FoundGet
  BY <1>15, CallReturned DEF FoundGet
<1>16. CASE FoundGetMut
  BY <1>16, CallReturned DEF FoundGetMut
<1>17. CASE FoundDel
  <2>1. /\ pc = "probe" /\ pc' = "shift" /\ op' = op /\ cap' = cap
        /\ entry' = buckets[Probed] /\ buckets[Probed].key = op.key
    BY <1>17 DEF FoundDel, Found
  <2>2. Absent(buckets', cap, op.key)
    BY <1>17, FoundDelStores
  <2>. QED  BY <1>1, <2>1, <2>2 DEF CallKept
<1>18. CASE ShiftBack
  <2>1. pc = "shift" /\ pc' = pc /\ op' = op /\ cap' = cap /\ entry' = entry
    BY <1>18 DEF ShiftBack
  <2>2. Absent(buckets', cap, op.key)
    BY <1>18, ShiftBackStores
  <2>. QED  BY <1>1, <2>1, <2>2 DEF CallKept
<1>19. CASE ShiftDone
  BY <1>19, CallReturned DEF ShiftDone
<1>20. CASE UNCHANGED vars
  <2>1. UNCHANGED <<cap, buckets, pc, op, entry, old, cursor>>
    BY <1>20 DEF vars, table, frame
  <2>. QED  BY <1>1, <2>1 DEF CallKept, Stored, Carrying, Remaining
<1>. QED  BY <1>3, <1>4, <1>5, <1>6, <1>7, <1>8, <1>9, <1>10, <1>11, <1>12, <1>13,
            <1>14, <1>15, <1>16, <1>17, <1>18, <1>19, <1>20, CallInsert
         DEF Next, Step

-----------------------------------------------------------------------------
(* Every action is a step of the map, or none.                             *)

(* What a lookup finds is the key's value. *)
LEMMA FoundValue ==
    ASSUME Known, Found
    PROVE  /\ MapBefore[op.key] = buckets[Probed].value
           /\ Probed \in 0 .. cap - 1
           /\ buckets[Probed] # None
           /\ Within(buckets, DOMAIN buckets, op.key, buckets[Probed].value)
<1>1. /\ pc = "probe" /\ Probed \in 0 .. cap - 1 /\ op.key \in Keys
      /\ buckets[Probed].key = op.key
  BY ProbedType, KnownTypes DEF Found
<1>2. buckets[Probed] # None
  BY KnownTypes DEF Found, GivesUp, TypeOK, Entries
<1>3. Within(buckets, DOMAIN buckets, op.key, buckets[Probed].value)
  BY <1>1, <1>2, KnownTypes DEF Within, Is
<1>4. Has(op.key, buckets[Probed].value)
  BY <1>3, HasIn
<1>. QED  BY <1>1, <1>2, <1>3, <1>4, ReadValue, KnownTypes

(* A call begins: the map is what it was. *)
LEMMA CallIsCall ==
    ASSUME Known, Known', pc = "idle", op' \in Abstract!Operations,
           result' = result, pc' \in {"insert", "probe"},
           pc' = "insert" => entry'.key = op'.key,
           UNCHANGED <<cap, buckets, old, cursor>>
    PROVE  Abstract!Call
<1>1. op = None
  BY KnownTypes DEF TypeOK
<1>2. Readable /\ Readable'
  BY KnownReadable, KnownReadableNext
<1>3. ASSUME NEW key \in Keys
      PROVE  MapBefore'[key] = MapBefore[key]
  <2>1. Plain(key) /\ Plain(key)' /\ Settled(key)
    BY DEF Plain, Inserted, Settled
  <2>2. \A value : Has(key, value) <=> Within(buckets, DOMAIN buckets, key, value)
    BY <1>2, <2>1, TableStores DEF Readable
  <2>3. \A value : Has(key, value)' <=> Within(buckets, DOMAIN buckets, key, value)
    <3>. SUFFICES ASSUME NEW value
                  PROVE  Has(key, value)' <=> Within(buckets, DOMAIN buckets, key, value)
      OBVIOUS
    <3>1. CASE pc' = "insert"
      <4>1. ~ Inserted'
        BY <3>1 DEF Inserted
      <4>. QED  BY <1>2, <3>1, <4>1 DEF Readable
    <3>2. CASE pc' = "probe"
      <4>1. Settled(key)'
        BY <3>2 DEF Settled
      <4>2. Remaining' = {}
        BY KnownTypes DEF Remaining
      <4>3. Stored(key, value)' <=> Within(buckets, DOMAIN buckets, key, value)
        BY <3>2, <4>2 DEF Stored, Carrying, Within
      <4>. QED  BY <1>2, <4>1, <4>3 DEF Readable
    <3>. QED  BY <3>1, <3>2
  <2>. QED  BY <2>1, <2>2, <2>3, SameValue
<1>4. MapBefore' = MapBefore
  BY <1>3 DEF MapBefore
<1>. QED  BY <1>1, <1>4 DEF Abstract!Call

(* insert has put its entry down where the key was not. *)
LEMMA PlaceAnswers ==
    ASSUME Known, Known', InsertPlace
    PROVE  Abstract!Return \/ UNCHANGED <<MapBefore, op, result>>
<1>1. /\ pc = "insert" /\ buckets[Target] = None
      /\ \A key, value : Stored(key, value)' <=> Stored(key, value)
  BY InsertPlaceStores DEF InsertPlace
<1>2. MapBefore[op.key] = None
  <2>1. Absent(buckets, cap, entry.key)
    BY <1>1, HandAbsent, KnownTypes
  <2>2. Inserted \/ entry.key = op.key
    BY <1>1 DEF Inserted
  <2>. QED  BY <1>1, <2>1, <2>2, ReadNew
<1>3. Stored(op.key, op.value) /\ op \in Abstract!Operations
  BY <1>1, KnownTypes DEF CallKept
<1>4. CASE ShouldResize(len + 1)
  <2>1. pc' = "resize" /\ op' = op /\ result' = result
    BY <1>4 DEF InsertPlace, Resize
  <2>2. MapBefore'[op.key] = None
    <3>1. Inserted'
      BY <2>1 DEF Inserted
    <3>. QED  BY <2>1, <3>1, KnownReadableNext DEF Readable
  <2>. QED  BY <1>1, <1>2, <2>1, <2>2, RoundKeeps
<1>5. CASE ~ ShouldResize(len + 1)
  <2>1. Return(None)
    BY <1>5 DEF InsertPlace
  <2>2. PICK new : new = op.value
    OBVIOUS
  <2>3. new = Abstract!NewValueOf(op, None)
    BY <1>1, <2>2, KnownTypes DEF TypeOK, Abstract!NewValueOf
  <2>4. \A key : key = op.key => Stored(key, new)'
    BY <1>1, <1>3, <2>2
  <2>. QED  BY <1>1, <1>2, <2>1, <2>3, <2>4, ReturnAnswers
<1>. QED  BY <1>4, <1>5

\* insert has met its key.
LEMMA ReplaceAnswers ==
    ASSUME Known, Known', InsertReplace
    PROVE  Abstract!Return
<1>. DEFINE d == buckets[Target]
<1>1. /\ pc = "insert" /\ d # None /\ d.key = entry.key
      /\ buckets' = [buckets EXCEPT ![Target].value = entry.value]
      /\ Return(d.value)
  BY DEF InsertReplace
<1>2. Target \in 0 .. cap - 1 /\ entry \in Entries /\ entry.value \in Values
  BY <1>1, KnownTypes, TargetType DEF Entries
<1>3. entry.key = op.key /\ entry.value = op.value
  BY <1>1, <1>2, KnownTypes DEF CallKept, Absent, Lacks
<1>4. Within(buckets, DOMAIN buckets, op.key, d.value)
  BY <1>1, <1>2, <1>3, KnownTypes DEF Within, Is
<1>5. MapBefore[op.key] = d.value
  <2>1. Has(op.key, d.value)
    BY <1>4, HasIn
  <2>. QED  BY <1>1, <1>3, <2>1, ReadValue, KnownTypes
<1>6. \A key, value : Stored(key, value)' <=> IF key = op.key THEN value = op.value
                          ELSE Within(buckets, DOMAIN buckets, key, value)
  <2>1. PICK t \in 0 .. cap - 1, v \in Values : t = Target /\ v = entry.value
    BY <1>2
  <2>2. buckets[t] # None /\ buckets' = [buckets EXCEPT ![t].value = v]
    BY <1>1, <2>1
  <2>3. \A key, value : Stored(key, value)' <=> IF key = buckets[t].key THEN value = v
                            ELSE Within(buckets, DOMAIN buckets, key, value)
    BY <1>1, <2>2, AssignStores
  <2>. QED  BY <1>1, <1>3, <2>1, <2>3
<1>7. ASSUME NEW key, NEW value, key # op.key
      PROVE  Stored(key, value)' <=> Stored(key, value)
  <2>1. Remaining = {}
    BY <1>1, KnownTypes
  <2>2. Stored(key, value) <=> Within(buckets, DOMAIN buckets, key, value)
    BY <1>3, <1>7, <2>1 DEF Stored, Is, Within
  <2>. QED  BY <1>6, <1>7, <2>2
<1>8. PICK new : new = op.value
  OBVIOUS
<1>9. \A key : key = op.key => Stored(key, new)'
  BY <1>6, <1>8
<1>10. new = Abstract!NewValueOf(op, d.value)
  BY <1>1, <1>8, KnownTypes DEF TypeOK, Abstract!NewValueOf
<1>. HIDE DEF d
<1>. QED  BY <1>1, <1>5, <1>7, <1>9, <1>10, ReturnAnswers

\* A round in which the table changes its shape, and not what it holds.
LEMMA MovingKeeps ==
    ASSUME Known, Known', op' = op, result' = result,
           \/ Inserted /\ Inserted'
           \/ /\ pc = "insert" /\ pc' = "insert"
              /\ Inserted \/ Absent(buckets, cap, op.key)
              /\ Inserted' \/ Absent(buckets', cap', op'.key)
           \/ pc = "shift" /\ pc' = "shift" /\ entry' = entry,
           \A key, value : Stored(key, value)' <=> Stored(key, value)
    PROVE  UNCHANGED <<MapBefore, op, result>>
<1>1. Readable /\ Readable'
  BY KnownReadable, KnownReadableNext
<1>2. pc # "idle" /\ pc' # "idle"
  BY DEF Inserted
<1>3. MapBefore'[op.key] = MapBefore[op.key]
  BY <1>1 DEF Readable
<1>. QED  BY <1>2, <1>3, RoundKeeps

LEMMA ProbeKeeps ==
    ASSUME Known, Known', InsertProbe
    PROVE  UNCHANGED <<MapBefore, op, result>>
<1>. DEFINE d == buckets[Target]
<1>1. /\ pc = "insert" /\ pc' = pc /\ op' = op /\ cap' = cap /\ result' = result
      /\ UNCHANGED <<pc, old, cursor>>
      /\ d # None /\ d.key # entry.key /\ Displace /\ Carrying
  BY DEF InsertProbe, Carrying
<1>2. /\ Target \in 0 .. cap - 1 /\ entry \in Entries /\ d \in Entries
      /\ entry.psl \in Nat /\ d.psl \in Nat
  BY <1>1, KnownTypes, TargetType DEF Entries
<1>3. \A key, value : Stored(key, value)' <=> Stored(key, value)
  BY <1>1, DisplaceStores
<1>4. CASE d.psl < entry.psl
  <2>1. /\ buckets' = [buckets EXCEPT ![Target] = entry]
        /\ entry' = [d EXCEPT !.psl = @ + 1]
    BY <1>1, <1>4 DEF Displace
  <2>2. entry'.key = d.key
    BY <1>2, <2>1 DEF Entries
  <2>3. Absent(buckets, cap, entry.key)
    BY <1>1, <1>4, HandAbsent, KnownTypes
  <2>4. WellPlaced(hasher, buckets, cap, {})
    BY <1>1, KnownTypes DEF RobinHood, Holes
  <2>5. Absent(buckets', cap, d.key)
    BY <1>1, <1>2, <1>4, <2>1, <2>3, <2>4, KnownTypes, TableTypes, PutCarriesOn
  <2>6. Inserted \/ Absent(buckets, cap, op.key)
    BY <1>1, <2>3 DEF Inserted
  <2>7. Inserted' \/ Absent(buckets', cap', op'.key)
    BY <1>1, <2>2, <2>5 DEF Inserted
  <2>. QED  BY <1>1, <1>3, <2>6, <2>7, MovingKeeps
<1>5. CASE ~ (d.psl < entry.psl)
  <2>1. buckets' = buckets /\ entry' = [entry EXCEPT !.psl = @ + 1]
    BY <1>1, <1>5 DEF Displace
  <2>2. entry'.key = entry.key
    BY <1>2, <2>1 DEF Entries
  <2>3. CASE Inserted
    BY <1>1, <1>3, <2>2, <2>3, MovingKeeps DEF Inserted
  <2>4. CASE ~ Inserted
    <3>1. ~ Inserted'
      BY <1>1, <2>2, <2>4 DEF Inserted
    <3>2. MapBefore'[op.key] = MapBefore[op.key]
      <4>1. Readable /\ Readable'
        BY KnownReadable, KnownReadableNext
      <4>2. op.key \in Keys
        BY <1>1, KnownTypes
      <4>3. \A key, value : Has(key, value)' <=> Has(key, value)
        BY <1>1, <2>1, <2>4, <3>1, <4>1 DEF Readable
      <4>4. \A key \in Keys : key = op.key => Plain(key) /\ Plain(key)'
        BY <1>1, <2>4, <3>1 DEF Plain
      <4>. QED  BY <4>2, <4>3, <4>4, SameValue
    <3>. QED  BY <1>1, <1>3, <3>2, RoundKeeps
  <2>. QED  BY <2>3, <2>4
<1>. QED  BY <1>4, <1>5

\* A lookup gives up: there was nothing, and there is nothing.
LEMMA MissAnswers ==
    ASSUME Known, Known', ProbeMiss
    PROVE  Abstract!Return
<1>1. pc = "probe" /\ Return(None) /\ buckets' = buckets
  BY DEF ProbeMiss, table
<1>2. Absent(buckets, cap, op.key)
  BY <1>1, MissAbsent, AbsentKeys, KnownTypes DEF ProbeMiss
<1>3. \A key, value : /\ Stored(key, value)' <=> Within(buckets, DOMAIN buckets, key, value)
                      /\ Stored(key, value) <=> Within(buckets, DOMAIN buckets, key, value)
  BY <1>1, ReturnStores, TableStores
<1>4. \A key, value : key = op.key => ~ Stored(key, value) /\ ~ Stored(key, value)'
  BY <1>2, <1>3, AbsentWithin, KnownTypes
<1>5. MapBefore[op.key] = None
  <2>1. \A value : ~ Has(op.key, value)
    BY <1>1, <1>4, HasStored DEF Settled
  <2>. QED  BY <1>1, <2>1, ReadNone, KnownTypes
<1>6. PICK new : new = None
  OBVIOUS
<1>7. new = Abstract!NewValueOf(op, None)
  BY <1>1, <1>6, KnownTypes DEF TypeOK, Abstract!NewValueOf
<1>. QED  BY <1>1, <1>3, <1>4, <1>5, <1>6, <1>7, ReturnAnswers

LEMMA GetAnswers ==
    ASSUME Known, Known', FoundGet
    PROVE  Abstract!Return
<1>1. /\ pc = "probe" /\ Return(buckets[Probed].value) /\ buckets' = buckets
      /\ Found /\ op.kind = "get"
  BY DEF FoundGet, Found, table
<1>2. PICK new : new = buckets[Probed].value
  OBVIOUS
<1>3. \A key, value : /\ Stored(key, value)' <=> Within(buckets, DOMAIN buckets, key, value)
                      /\ Stored(key, value) <=> Within(buckets, DOMAIN buckets, key, value)
  BY <1>1, ReturnStores, TableStores
<1>4. \A key : key = op.key => Stored(key, new)'
  BY <1>1, <1>2, <1>3, FoundValue
<1>5. new = Abstract!NewValueOf(op, buckets[Probed].value)
  BY <1>1, <1>2 DEF Abstract!NewValueOf
<1>6. MapBefore[op.key] = buckets[Probed].value
  BY <1>1, FoundValue
<1>. QED  BY <1>1, <1>3, <1>4, <1>5, <1>6, ReturnAnswers

LEMMA GetMutAnswers ==
    ASSUME Known, Known', FoundGetMut
    PROVE  Abstract!Return
<1>1. /\ pc = "probe" /\ Return(buckets[Probed].value)
      /\ Found /\ op.kind = "get_mut"
      /\ buckets' = [buckets EXCEPT ![Probed].value = op.value]
  BY DEF FoundGetMut, Found
<1>2. /\ op.value \in Values
      /\ buckets[Probed].value \in Values
      /\ buckets[Probed].key = op.key
      /\ MapBefore[op.key] = buckets[Probed].value
  BY <1>1, FoundValue, KnownTypes DEF TypeOK, Found, Entries
<1>3. PICK t \in 0 .. cap - 1, new \in Values : t = Probed /\ new = op.value
  BY <1>1, <1>2, FoundValue
<1>4. buckets[t] # None /\ buckets' = [buckets EXCEPT ![t].value = new]
  BY <1>1, <1>3, FoundValue
<1>5. \A key, value : Stored(key, value)' <=> IF key = buckets[t].key THEN value = new
                          ELSE Within(buckets, DOMAIN buckets, key, value)
  BY <1>1, <1>4, AssignStores
<1>6. \A key, value : Stored(key, value) <=> Within(buckets, DOMAIN buckets, key, value)
  BY <1>1, TableStores
<1>7. new = Abstract!NewValueOf(op, buckets[Probed].value)
  BY <1>1, <1>2, <1>3, NoneAssumption DEF Abstract!NewValueOf
<1>8. /\ \A key, value : key # op.key => (Stored(key, value)' <=> Stored(key, value))
      /\ \A key : key = op.key => Stored(key, new)'
  BY <1>2, <1>3, <1>5, <1>6
<1>. QED  BY <1>1, <1>2, <1>7, <1>8, ReturnAnswers

\* del has taken its key's entry out and goes on to shift; the map is still
\* the one before.
LEMMA DelKeeps ==
    ASSUME Known, Known', FoundDel
    PROVE  UNCHANGED <<MapBefore, op, result>>
<1>1. /\ pc = "probe" /\ pc' = "shift" /\ op' = op /\ result' = result
      /\ entry' = buckets[Probed] /\ Found
  BY DEF FoundDel, Found
<1>2. \A key, value : key # op.key => (Stored(key, value)' <=> Stored(key, value))
  BY FoundDelStores
<1>3. MapBefore'[op.key] = MapBefore[op.key]
  BY <1>1, FoundValue, KnownReadableNext DEF Readable
<1>. QED  BY <1>1, <1>2, <1>3, RoundKeeps

LEMMA DelAnswers ==
    ASSUME Known, Known', ShiftDone
    PROVE  Abstract!Return
<1>1. pc = "shift" /\ Return(entry.value) /\ buckets' = buckets
  BY DEF ShiftDone, table
<1>2. Absent(buckets, cap, op.key) /\ MapBefore[op.key] = entry.value
  BY <1>1, KnownTypes, ReadTaken DEF CallKept
<1>3. \A key, value : /\ Stored(key, value)' <=> Within(buckets, DOMAIN buckets, key, value)
                      /\ Stored(key, value) <=> Within(buckets, DOMAIN buckets, key, value)
  BY <1>1, ReturnStores, TableStores
<1>4. \A key, value : key = op.key => ~ Stored(key, value)'
  BY <1>2, <1>3, AbsentWithin, KnownTypes
<1>5. PICK new : new = None
  OBVIOUS
<1>6. new = Abstract!NewValueOf(op, entry.value)
  BY <1>1, <1>5, KnownTypes DEF TypeOK, Abstract!NewValueOf
<1>. QED  BY <1>1, <1>2, <1>3, <1>4, <1>5, <1>6, ReturnAnswers

\* A resize ends, and with it the insert.
LEMMA ResizeAnswers ==
    ASSUME Known, Known', ResizeDone
    PROVE  Abstract!Return
<1>1. pc = "resize" /\ Return(None) /\ Inserted
  BY DEF ResizeDone, Inserted
<1>2. \A key, value : Stored(key, value)' <=> Stored(key, value)
  BY DoneStores
<1>3. Stored(op.key, op.value)
  BY <1>1, KnownTypes DEF CallKept
<1>4. PICK new : new = op.value
  OBVIOUS
<1>5. \A key : key = op.key => Stored(key, new)'
  BY <1>2, <1>3, <1>4
<1>6. new = Abstract!NewValueOf(op, None)
  BY <1>1, <1>4, KnownTypes DEF TypeOK, Abstract!NewValueOf
<1>7. MapBefore[op.key] = None
  BY <1>1, ReadInserted
<1>. QED  BY <1>1, <1>2, <1>5, <1>6, <1>7, ReturnAnswers

LEMMA MapInit == Init => Abstract!Init
<1>. SUFFICES ASSUME Init PROVE Abstract!Init
  OBVIOUS
<1>1. Known
  BY TypeInit, OrderInit, LoadInit, CallInit DEF Known, Inductive
<1>2. pc = "idle" /\ buckets = NewTable(cap) /\ op = None /\ result = None /\ cap \in Nat
  BY <1>1, KnownTypes DEF Init
<1>3. \A key, value : ~ Has(key, value)
  <2>. SUFFICES ASSUME NEW key, NEW value PROVE ~ Has(key, value)
    OBVIOUS
  <2>1. ~ Within(buckets, DOMAIN buckets, key, value)
    BY <1>2, NewTableHolds, NewTableType
  <2>. QED  BY <1>1, <1>2, <2>1, HasStored, TableStores DEF Settled
<1>4. \A key \in Keys : MapBefore[key] = None
  BY <1>1, <1>2, <1>3, ReadNone
<1>5. MapBefore = [key \in Keys |-> None]
  BY <1>4 DEF MapBefore
<1>. QED  BY <1>2, <1>5 DEF Abstract!Init

LEMMA MapStep ==
    Known /\ Known' /\ [Next]_vars => [Abstract!Next]_(Abstract!vars)
<1>. SUFFICES ASSUME Known, Known', [Next]_vars
              PROVE  Abstract!Call \/ Abstract!Return \/ UNCHANGED <<MapBefore, op, result>>
  BY DEF Abstract!Next, Abstract!vars
<1>1. ASSUME NEW key \in Keys, NEW value \in Values, Insert(key, value)
      PROVE  Abstract!Call
  BY <1>1, CallIsCall DEF Insert, table, Abstract!Operations
<1>2. ASSUME NEW o \in Abstract!Operations, Lookup(o)
      PROVE  Abstract!Call
  BY <1>2, CallIsCall DEF Lookup, table
<1>3. ASSUME NEW key \in Keys, NEW value \in Values, GetMut(key, value)
      PROVE  Abstract!Call
  BY <1>2, <1>3 DEF GetMut, Abstract!Operations
<1>4. ASSUME NEW key \in Keys, Get(key) \/ Del(key)
      PROVE  Abstract!Call
  BY <1>2, <1>4 DEF Get, Del, Abstract!Operations
<1>5. ASSUME ResizeSkip \/ ResizeTake \/ InsertEntryPlace \/ InsertEntryProbe
      PROVE  UNCHANGED <<MapBefore, op, result>>
  <2>1. op' = op /\ result' = result /\ Inserted /\ Inserted'
    BY <1>5 DEF ResizeSkip, ResizeTake, InsertEntryPlace, InsertEntryProbe, Inserted
  <2>2. InsertEntryProbe => /\ Carrying /\ buckets[Target] # None /\ Displace
                            /\ UNCHANGED <<pc, old, cursor>>
    BY DEF InsertEntryProbe, Carrying
  <2>3. \A key, value : Stored(key, value)' <=> Stored(key, value)
    BY <1>5, <2>2, SkipStores, TakeStores, EntryPlaceStores, DisplaceStores
  <2>. QED  BY <2>1, <2>3, MovingKeeps
<1>6. CASE ProbeOn
  <2>1. UNCHANGED <<cap, buckets, pc, op, entry, old, cursor, result>>
    BY <1>6 DEF ProbeOn, table
  <2>. QED  BY <2>1 DEF MapBefore, Held, Inserted, Occupied, Remaining
<1>7. CASE ShiftBack
  <2>1. /\ op' = op /\ result' = result /\ entry' = entry
        /\ pc = "shift" /\ pc' = "shift"
    BY <1>7 DEF ShiftBack
  <2>. QED  BY <1>7, <2>1, ShiftBackStores, MovingKeeps
<1>8. CASE UNCHANGED vars
  <2>1. UNCHANGED <<cap, buckets, pc, op, entry, old, cursor, result>>
    BY <1>8 DEF vars, table, frame
  <2>. QED  BY <2>1 DEF MapBefore, Held, Inserted, Occupied, Remaining
<1>. QED  BY <1>1, <1>3, <1>4, <1>5, <1>6, <1>7, <1>8, PlaceAnswers, ReplaceAnswers,
            ProbeKeeps, ResizeAnswers, MissAnswers, GetAnswers, GetMutAnswers,
            DelKeeps, DelAnswers
         DEF Next, Step

-----------------------------------------------------------------------------
(* The theorem.                                                            *)

LEMMA KnownInvariant == Spec => []Known
<1>1. Init /\ Inductive => Known
  BY CallInit DEF Known
<1>2. Known /\ [Next]_vars /\ Inductive' => Known'
  BY CallStep DEF Known
<1>. QED  BY <1>1, <1>2, InductiveInvariant, PTL DEF Spec

(* The Robin Hood table is a map: whatever the hashes, each operation answers
   with what its key held and leaves what KeyMap says, over collisions,
   displaced entries, resizes and shifts (the methods of KeyStore). *)
THEOREM TableIsMap == Spec => ImplementsKeyMap
<1>1. Init => Abstract!Init
  BY MapInit
<1>2. Known /\ Known' /\ [Next]_vars => [Abstract!Next]_(Abstract!vars)
  BY MapStep
<1>. QED  BY <1>1, <1>2, KnownInvariant, PTL DEF Spec, ImplementsKeyMap, Abstract!Spec
=============================================================================
