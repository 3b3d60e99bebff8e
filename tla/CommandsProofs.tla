--------------------------- MODULE CommandsProofs ---------------------------
(* Lemmas about the operators of Commands, for every choice of its          *)
(* constants: what each command returns, and that MSET's last pair exists.  *)
EXTENDS Commands, TLAPS, NaturalsInduction, WellFoundedInduction, SequenceTheorems

(* Every non-empty set of indices bounded by n has a largest element. *)
LEMMA LargestIndexExists ==
    ASSUME NEW n \in Nat, NEW S \in SUBSET (1 .. n), S # {}
    PROVE  \E i \in S : \A j \in S : j <= i
<1> DEFINE R == OpToRel(<, Nat)
           T == {n - i : i \in S}
<1>1. IsWellFoundedOn(R, Nat)
  BY NatLessThanWellFounded
<1>2. ASSUME NEW a \in Nat, NEW b \in Nat, a < b
      PROVE  <<a, b>> \in R
  BY <1>2 DEF OpToRel
<1>3. \A i \in S : n - i \in Nat
  OBVIOUS
<1>4. T \subseteq Nat
  BY <1>3
<1>5. T # {}
  <2>1. PICK i : i \in S
    OBVIOUS
  <2> QED BY <2>1
<1> HIDE DEF R
<1>6. PICK x \in T : \A y \in T : ~(<<y, x>> \in R)
  BY <1>1, <1>4, <1>5, WFMin
<1>7. PICK i \in S : x = n - i
  BY <1>6
<1>8. ASSUME NEW j \in S PROVE j <= i
  <2>1. ~(<<n - j, n - i>> \in R)
    BY <1>6, <1>7
  <2>2. ~(n - j < n - i)
    BY <1>2, <1>3, <2>1
  <2>3. i \in Int /\ j \in Int
    OBVIOUS
  <2> QED BY <2>2, <2>3
<1> QED BY <1>8

(* The pair of MSET whose value stays exists for every key it names, so
   apply_mset leaves a well-formed store. *)
LEMMA ApplyMSetType ==
    ASSUME NEW entries \in EntryLists, NEW st \in Stores
    PROVE  ApplyMSet(entries, st) \in Stores
<1>1. entries \in Seq(Keys \X Values)
  BY ArgumentAssumption
<1>2. Len(entries) \in Nat /\ DOMAIN entries = 1 .. Len(entries)
  BY <1>1, LenProperties
<1> DEFINE Last(key) == CHOOSE i \in DOMAIN entries : IsLastEntry(entries, i, key)
<1>3. ASSUME NEW key \in Keys, \E i \in DOMAIN entries : entries[i][1] = key
      PROVE  NewValue(entries[Last(key)][2]) \in StoredValues
  <2> DEFINE S == {i \in DOMAIN entries : entries[i][1] = key}
  <2>1. S \in SUBSET (1 .. Len(entries)) /\ S # {}
    BY <1>2, <1>3
  <2>2. PICK i \in S : \A j \in S : j <= i
    BY <1>2, <2>1, LargestIndexExists
  <2>3. IsLastEntry(entries, i, key)
    BY <1>2, <2>2 DEF IsLastEntry
  <2>4. Last(key) \in DOMAIN entries
    BY <2>2, <2>3
  <2>5. entries[Last(key)] \in Keys \X Values
    BY <1>1, <1>2, <2>4, ElementOfSeq
  <2> QED BY <2>5 DEF NewValue, StoredValues
<1> HIDE DEF Last
<1>4. ApplyMSet(entries, st) =
        [key \in Keys |-> IF \E i \in DOMAIN entries : entries[i][1] = key
                          THEN NewValue(entries[Last(key)][2]) ELSE st[key]]
  BY DEF ApplyMSet, Last
<1> QED BY <1>3, <1>4 DEF Stores

(* Every command leaves a well-formed store (apply_write). *)
LEMMA ApplyWriteType ==
    ASSUME NEW cmd \in WriteCommands, NEW st \in Stores, NEW now
    PROVE  ApplyWrite(cmd, st, now) \in Stores
<1>1. CASE cmd.op = "SET"
  <2>1. cmd.key \in Keys /\ cmd.value \in Values
    BY <1>1 DEF WriteCommands
  <2>2. NewValue(cmd.value) \in StoredValues
    BY <2>1 DEF NewValue, StoredValues
  <2> QED BY <1>1, <2>1, <2>2 DEF ApplyWrite, ApplySet, Stores
<1>2. CASE cmd.op = "MSET"
  <2>1. cmd.entries \in EntryLists
    BY <1>2 DEF WriteCommands
  <2> QED BY <1>2, <2>1, ApplyMSetType DEF ApplyWrite
<1>3. CASE cmd.op = "DEL"
  BY <1>3 DEF ApplyWrite, ApplyDel, RemoveKeys, Stores
<1>4. CASE cmd.op = "EXPIREAT"
  <2>1. cmd.key \in Keys /\ cmd.at \in Timestamps
    BY <1>4 DEF WriteCommands
  <2> DEFINE swept == EjectIfExpired(st, cmd.key, now)
  <2>2. swept \in Stores
    BY <2>1 DEF EjectIfExpired, Stores
  <2>3. ASSUME swept[cmd.key] # None
        PROVE  [swept EXCEPT ![cmd.key].expires_at = cmd.at] \in Stores
    <3>1. swept[cmd.key] \in StoredValues
      BY <2>1, <2>2, <2>3 DEF Stores
    <3>2. [swept[cmd.key] EXCEPT !.expires_at = cmd.at] \in StoredValues
      BY <2>1, <3>1 DEF StoredValues
    <3> QED BY <2>1, <2>2, <3>2 DEF Stores
  <2> HIDE DEF swept
  <2>4. ApplyWrite(cmd, st, now) =
          IF swept[cmd.key] = None THEN swept
          ELSE [swept EXCEPT ![cmd.key].expires_at = cmd.at]
    BY <1>4 DEF ApplyWrite, ApplyExpireAt, swept
  <2> QED BY <2>2, <2>3, <2>4
<1> QED BY <1>1, <1>2, <1>3, <1>4 DEF WriteCommands
=============================================================================
