-------------------------- MODULE Evolution_proofs --------------------------
(***************************************************************************)
(* Proofs that a reader of any version of a schema reads what a writer of  *)
(* any other one has stored, for every schema, every set of types and      *)
(* values and any number of changes: first that the bytes of a flat        *)
(* message lead every reader to its fields (FlatCodec), then that the      *)
(* changes of Evolution keep the versions such that they do.               *)
(***************************************************************************)
EXTENDS Evolution, TLAPS, FiniteSetTheorems, NaturalsInduction

-----------------------------------------------------------------------------
(* Least and greatest elements.                                            *)

LEMMA LeastExists ==
  ASSUME NEW S \in SUBSET Nat, S # {}
  PROVE  \E x \in S : \A y \in S : x <= y
<1> DEFINE R == OpToRel(<, Nat)
<1>1. IsWellFoundedOn(R, Nat)
  BY NatLessThanWellFounded
<1>2. \A x, y \in Nat : <<x, y>> \in R <=> x < y
  BY DEF OpToRel
<1> HIDE DEF R
<1>3. PICK x \in S : \A y \in S : <<y, x>> \notin R
  BY <1>1, WFMin
<1>4. \A y \in S : ~(y < x) /\ y \in Nat /\ x \in Nat
  BY <1>2, <1>3
<1> QED
  BY <1>4

LEMMA MinIsLeast ==
  ASSUME NEW S \in SUBSET Nat, S # {}
  PROVE  Min(S) \in S /\ \A y \in S : Min(S) <= y
  BY LeastExists DEF Min

LEMMA MaxIsGreatest ==
  ASSUME NEW n \in Nat, NEW S \in SUBSET (0 .. n), S # {}
  PROVE  Max(S) \in S /\ \A y \in S : Max(S) >= y
<1> DEFINE T == {k \in Nat : n - k \in S}
<1>1. PICK y \in S : TRUE
  OBVIOUS
<1>2. n - y \in T
  BY <1>1
<1>3. PICK t \in T : \A z \in T : t <= z
  BY <1>2, LeastExists
<1>4. \A z \in S : n - z \in T /\ z \in Int
  OBVIOUS
<1>5. \A z \in S : n - t >= z
  BY <1>3, <1>4
<1> QED
  BY <1>3, <1>5 DEF Max

-----------------------------------------------------------------------------
(* Sums.                                                                   *)

(* The function that SumBelow is defined by.                               *)
Summed(size, sums, n) ==
  sums = [f \in 0 .. n |-> IF f = 0 THEN 0 ELSE sums[f - 1] + size[f]]

LEMMA SumsExist ==
  ASSUME NEW size \in [Field -> Nat]
  PROVE  \E sums : Summed(size, sums, MaxField)
<1> DEFINE Failing == {n \in 0 .. MaxField : ~ \E sums : Summed(size, sums, n)}
<1>1. MaxField \in Nat
  BY FlatCodecAssumption
<1>2. SUFFICES ASSUME Failing # {} PROVE FALSE
  BY <1>1, SMTT(30)
<1>3. Failing \in SUBSET Nat
  BY <1>1
<1>4. PICK n \in Failing : \A m \in Failing : n <= m
  BY <1>2, <1>3, LeastExists
<1>5. n \in 0 .. MaxField /\ ~ \E sums : Summed(size, sums, n)
  BY <1>4
<1>6. CASE n = 0
  <2>1. Summed(size, [f \in 0 .. 0 |-> 0], 0)
    BY DEF Summed
  <2> QED
    BY <1>5, <1>6, <2>1
<1>7. CASE n # 0
  <2>1. n - 1 \in 0 .. MaxField /\ ~(n <= n - 1)
    BY <1>1, <1>5, <1>7
  <2>2. n - 1 \notin Failing
    BY <1>4, <2>1
  <2>3. PICK before : Summed(size, before, n - 1)
    BY <2>1, <2>2
  <2> DEFINE sums == [f \in 0 .. n |-> IF f = n THEN before[n - 1] + size[n] ELSE before[f]]
  <2>4. \A f \in 0 .. n - 1 : before[f] = IF f = 0 THEN 0 ELSE before[f - 1] + size[f]
    BY <2>3 DEF Summed
  <2>5. \A f \in 0 .. n : sums[f] = IF f = 0 THEN 0 ELSE sums[f - 1] + size[f]
    BY <1>1, <1>5, <1>7, <2>4
  <2>6. sums = [f \in 0 .. n |-> sums[f]]
    OBVIOUS
  <2> HIDE DEF sums
  <2>7. sums = [f \in 0 .. n |-> IF f = 0 THEN 0 ELSE sums[f - 1] + size[f]]
    BY <2>5, <2>6
  <2> QED
    BY <1>5, <2>7 DEF Summed
<1> QED
  BY <1>6, <1>7

LEMMA SumBelowIs ==
  ASSUME NEW size \in [Field -> Nat]
  PROVE  \E sums \in [0 .. MaxField -> Nat] :
           /\ sums[0] = 0
           /\ \A f \in Field : sums[f] = sums[f - 1] + size[f]
           /\ \A id : SumBelow(size, id) = sums[id - 1]
<1> DEFINE sums == CHOOSE upTo : upTo = [f \in 0 .. MaxField |->
                                          IF f = 0 THEN 0 ELSE upTo[f - 1] + size[f]]
<1>1. sums = [f \in 0 .. MaxField |-> IF f = 0 THEN 0 ELSE sums[f - 1] + size[f]]
  <2>1. \E s : s = [f \in 0 .. MaxField |-> IF f = 0 THEN 0 ELSE s[f - 1] + size[f]]
    BY SumsExist DEF Summed
  <2> QED
    BY <2>1
<1>2. \A id : SumBelow(size, id) = sums[id - 1]
  BY DEF SumBelow
<1> HIDE DEF sums
<1>3. MaxField \in Nat
  BY FlatCodecAssumption
<1>4. sums[0] = 0
  BY <1>1, <1>3
<1>5. \A f \in Field : sums[f] = sums[f - 1] + size[f]
  BY <1>1, <1>3 DEF Field
<1>6. \A f \in 0 .. MaxField : sums[f] \in Nat
  <2> DEFINE Failing == {n \in 0 .. MaxField : sums[n] \notin Nat}
  <2>1. SUFFICES ASSUME Failing # {} PROVE FALSE
    OBVIOUS
  <2>2. Failing \in SUBSET Nat
    BY <1>3
  <2>3. PICK n \in Failing : \A m \in Failing : n <= m
    BY <2>1, <2>2, LeastExists
  <2>4. n \in 0 .. MaxField /\ n # 0 /\ sums[n] \notin Nat
    BY <1>4, <2>3
  <2>5. n - 1 \in 0 .. MaxField /\ ~(n <= n - 1) /\ n \in Field
    BY <1>3, <2>4 DEF Field
  <2>6. sums[n - 1] \in Nat
    BY <2>3, <2>5
  <2> QED
    BY <1>5, <2>4, <2>5, <2>6
<1>7. sums = [f \in 0 .. MaxField |-> sums[f]]
  BY <1>1
<1>8. sums \in [0 .. MaxField -> Nat]
  BY <1>6, <1>7
<1> QED
  BY <1>2, <1>4, <1>5, <1>8

LEMMA SumBelowStep ==
  ASSUME NEW size \in [Field -> Nat]
  PROVE  /\ SumBelow(size, 1) = 0
         /\ \A id \in Field : /\ SumBelow(size, id) \in Nat /\ SumBelow(size, id + 1) \in Nat
                              /\ SumBelow(size, id + 1) = SumBelow(size, id) + size[id]
<1>1. MaxField \in Nat \ {0}
  BY FlatCodecAssumption
<1>2. PICK sums \in [0 .. MaxField -> Nat] :
        /\ sums[0] = 0
        /\ \A f \in Field : sums[f] = sums[f - 1] + size[f]
        /\ \A id : SumBelow(size, id) = sums[id - 1]
  BY SumBelowIs
<1>3. SumBelow(size, 1) = 0
  BY <1>2
<1>4. ASSUME NEW id \in Field
      PROVE  /\ SumBelow(size, id) \in Nat /\ SumBelow(size, id + 1) \in Nat
             /\ SumBelow(size, id + 1) = SumBelow(size, id) + size[id]
  <2>1. id - 1 \in 0 .. MaxField /\ id \in 0 .. MaxField /\ (id + 1) - 1 = id
    BY <1>1 DEF Field
  <2> QED
    BY <1>2, <2>1
<1> QED
  BY <1>3, <1>4

(* Sizes that add up below id have sums that do.                           *)
AddUp(a, b, c, id) == \A f \in Field : f < id => a[f] + b[f] = c[f]

LEMMA SumOfSums ==
  ASSUME NEW a \in [Field -> Nat], NEW b \in [Field -> Nat], NEW c \in [Field -> Nat],
         NEW id \in Field, AddUp(a, b, c, id)
  PROVE  SumBelow(a, id) + SumBelow(b, id) = SumBelow(c, id)
<1> DEFINE Failing == {n \in Field : n <= id /\ SumBelow(a, n) + SumBelow(b, n) # SumBelow(c, n)}
<1>1. SUFFICES ASSUME Failing # {} PROVE FALSE
  BY DEF Field
<1>2. Failing \in SUBSET Nat
  BY FlatCodecAssumption DEF Field
<1>3. PICK n \in Failing : \A m \in Failing : n <= m
  BY <1>1, <1>2, LeastExists
<1>4. n \in Field /\ n <= id /\ SumBelow(a, n) + SumBelow(b, n) # SumBelow(c, n)
  BY <1>3
<1>5. n # 1
  BY <1>4, SumBelowStep
<1>6. n - 1 \in Field /\ n - 1 < id /\ ~(n <= n - 1) /\ (n - 1) + 1 = n
  BY <1>4, <1>5, FlatCodecAssumption DEF Field
<1>7. SumBelow(a, n - 1) + SumBelow(b, n - 1) = SumBelow(c, n - 1)
  BY <1>3, <1>6 DEF Field
<1>8. a[n - 1] + b[n - 1] = c[n - 1]
  BY <1>6 DEF AddUp
<1>9. /\ SumBelow(a, n) = SumBelow(a, n - 1) + a[n - 1]
      /\ SumBelow(b, n) = SumBelow(b, n - 1) + b[n - 1]
      /\ SumBelow(c, n) = SumBelow(c, n - 1) + c[n - 1]
      /\ SumBelow(a, n - 1) \in Nat /\ SumBelow(b, n - 1) \in Nat
      /\ a[n - 1] \in Nat /\ b[n - 1] \in Nat
  BY <1>6, SumBelowStep
<1> QED
  BY <1>4, <1>7, <1>8, <1>9

(* Later fields lie behind earlier ones.                                   *)
LEMMA SumBelowGrows ==
  ASSUME NEW size \in [Field -> Nat], NEW i \in Field, NEW j \in Field, i < j
  PROVE  SumBelow(size, i) + size[i] <= SumBelow(size, j)
<1> DEFINE Failing == {n \in Field : i < n /\ ~(SumBelow(size, i + 1) <= SumBelow(size, n))}
<1>1. SumBelow(size, i) + size[i] = SumBelow(size, i + 1)
  BY SumBelowStep
<1>2. SUFFICES ASSUME Failing # {} PROVE FALSE
  BY <1>1
<1>3. Failing \in SUBSET Nat
  BY FlatCodecAssumption DEF Field
<1>4. PICK n \in Failing : \A m \in Failing : n <= m
  BY <1>2, <1>3, LeastExists
<1>5. n \in Field /\ i < n /\ ~(SumBelow(size, i + 1) <= SumBelow(size, n))
  BY <1>4
<1>6. n # i + 1
  BY <1>5, SumBelowStep
<1>7. n - 1 \in Field /\ i < n - 1 /\ ~(n <= n - 1) /\ (n - 1) + 1 = n
  BY <1>5, <1>6, FlatCodecAssumption DEF Field
<1>8. SumBelow(size, i + 1) <= SumBelow(size, n - 1)
  BY <1>4, <1>7
<1>9. /\ SumBelow(size, n) = SumBelow(size, n - 1) + size[n - 1]
      /\ SumBelow(size, n - 1) \in Nat /\ size[n - 1] \in Nat /\ SumBelow(size, i + 1) \in Nat
  BY <1>7, SumBelowStep
<1> QED
  BY <1>5, <1>8, <1>9

-----------------------------------------------------------------------------
(* Schemas.                                                                *)
LEMMA SchemaFacts ==
  ASSUME NEW s \in Schema
  PROVE  /\ Ids(s) \subseteq Field /\ Live(s) \subseteq Ids(s)
         /\ \A id \in Ids(s) : s.fields[id] \in FieldDef /\ SizeOf(s, id) \in {1, 4, 8}
         /\ MaxFieldId(s) \in 0 .. MaxField
         /\ \A id \in Ids(s) : id <= MaxFieldId(s)
<1>1. PICK ids \in SUBSET Field : s.fields \in [ids -> FieldDef]
  BY DEF Schema
<1>2. Ids(s) = ids /\ Live(s) \subseteq ids
  BY <1>1 DEF Ids, Live
<1>3. ASSUME NEW id \in Ids(s)
      PROVE  s.fields[id] \in FieldDef /\ SizeOf(s, id) \in {1, 4, 8}
  <2>1. s.fields[id] \in FieldDef
    BY <1>1, <1>2
  <2>2. s.fields[id].type \in Type
    BY <2>1 DEF FieldDef
  <2> QED
    BY <2>1, <2>2, FlatCodecAssumption DEF SizeOf
<1> DEFINE S == Ids(s) \cup {0}
<1>4. MaxField \in Nat /\ S \in SUBSET (0 .. MaxField) /\ S # {}
  BY <1>2, FlatCodecAssumption DEF Field
<1> HIDE DEF S
<1>5. Max(S) \in S /\ \A y \in S : Max(S) >= y
  BY <1>4, MaxIsGreatest
<1>6. MaxFieldId(s) = Max(S)
  BY DEF MaxFieldId, S
<1>7. \A id \in Ids(s) : id \in S
  BY DEF S
<1> QED
  BY <1>2, <1>3, <1>4, <1>5, <1>6, <1>7

(* The sizes FlatOffset sums up.                                           *)
SizesOf(s) == [f \in Field |-> IF f \in Ids(s) THEN SizeOf(s, f) ELSE 0]

LEMMA SizesOfType ==
  ASSUME NEW s \in Schema
  PROVE  /\ SizesOf(s) \in [Field -> Nat]
         /\ \A id \in Ids(s) : id \in Field /\ SizesOf(s)[id] = SizeOf(s, id)
         /\ \A id : FlatOffset(s, id) = SumBelow(SizesOf(s), id)
<1>1. Ids(s) \subseteq Field /\ \A id \in Ids(s) : SizeOf(s, id) \in Nat
  BY SchemaFacts
<1> QED
  BY <1>1 DEF SizesOf, FlatOffset

(* The bytes of a field, and of different fields.                          *)
BytesOf(s, id) == FlatOffset(s, id) .. FlatOffset(s, id) + SizeOf(s, id) - 1

LEMMA BytesApart ==
  ASSUME NEW s \in Schema, NEW i \in Ids(s), NEW j \in Ids(s)
  PROVE  /\ FlatOffset(s, i) \in Nat /\ FlatOffset(s, i) \in BytesOf(s, i)
         /\ i # j => BytesOf(s, i) \cap BytesOf(s, j) = {}
         /\ i <= j => BytesOf(s, i) \subseteq 0 .. FlatOffset(s, j) + SizeOf(s, j) - 1
<1> DEFINE sizes == SizesOf(s)
<1>1. /\ sizes \in [Field -> Nat] /\ i \in Field /\ j \in Field
      /\ sizes[i] = SizeOf(s, i) /\ sizes[j] = SizeOf(s, j)
      /\ FlatOffset(s, i) = SumBelow(sizes, i) /\ FlatOffset(s, j) = SumBelow(sizes, j)
  BY SizesOfType
<1>2. SizeOf(s, i) \in {1, 4, 8} /\ SizeOf(s, j) \in {1, 4, 8}
  BY SchemaFacts
<1> HIDE DEF sizes
<1>3. SumBelow(sizes, i) \in Nat /\ SumBelow(sizes, j) \in Nat
  BY <1>1, SumBelowStep
<1>4. i \in Nat /\ j \in Nat
  BY <1>1, FlatCodecAssumption DEF Field
<1>5. i < j => FlatOffset(s, i) + SizeOf(s, i) <= FlatOffset(s, j)
  BY <1>1, SumBelowGrows
<1>6. j < i => FlatOffset(s, j) + SizeOf(s, j) <= FlatOffset(s, i)
  BY <1>1, SumBelowGrows
<1>7. FlatOffset(s, i) \in Nat /\ FlatOffset(s, j) \in Nat
  BY <1>1, <1>3
<1> QED
  BY ONLY <1>2, <1>4, <1>5, <1>6, <1>7 DEF BytesOf

-----------------------------------------------------------------------------
(* The bits of the metadata: bit p is bit p % 8 of byte p \div 8.          *)
IsBit(meta, p) == p % 8 \in meta[p \div 8 + 1]

(* A field takes three bits with its presence and two without.             *)
LEMMA FieldMetaSizeIs ==
  ASSUME NEW expl \in BOOLEAN
  PROVE  FieldMetaSize(expl, TRUE) = IF expl THEN 3 ELSE 2
BY DEF FieldMetaSize, Bool

LEMMA SizeIndexIs ==
  ASSUME NEW id \in Nat, NEW expl \in BOOLEAN
  PROVE  SizeIndex(id, expl) = IF expl THEN 3 * id - 2 ELSE 2 * id - 2
<1> DEFINE size == FieldMetaSize(expl, TRUE)
           first == Bool(expl)
<1>1. size = IF expl THEN 3 ELSE 2
  BY DEF FieldMetaSize, Bool
<1>2. first = IF expl THEN 1 ELSE 0
  BY DEF Bool
<1>3. SizeIndex(id, expl) = (id - 1) * size + first
  BY DEF SizeIndex
<1> HIDE DEF size, first
<1>4. CASE expl
  <2>1. SizeIndex(id, expl) = (id - 1) * 3 + 1
    BY <1>1, <1>2, <1>3, <1>4
  <2>2. (id - 1) * 3 + 1 = 3 * id - 2
    OBVIOUS
  <2> QED
    BY <1>4, <2>1, <2>2
<1>5. CASE ~expl
  <2>1. SizeIndex(id, expl) = (id - 1) * 2 + 0
    BY <1>1, <1>2, <1>3, <1>5
  <2>2. (id - 1) * 2 + 0 = 2 * id - 2
    OBVIOUS
  <2> QED
    BY <1>5, <2>1, <2>2
<1> QED
  BY <1>4, <1>5

LEMMA CorrectionIs ==
  ASSUME NEW size \in {1, 4, 8}
  PROVE  /\ CorrectionOf(size) \in SUBSET {0, 1}
         /\ SizeFrom(CorrectionOf(size)) = size
<1>1. CorrectionOf(1) = {0} /\ CorrectionOf(4) = {1} /\ CorrectionOf(8) = {0, 1}
  BY DEF CorrectionOf
<1>2. SizeFrom({0}) = 1
  BY DEF SizeFrom
<1>3. SizeFrom({1}) = 4
  BY DEF SizeFrom
<1>4. SizeFrom({0, 1}) = 8
  BY DEF SizeFrom
<1>5. {0} \in SUBSET {0, 1} /\ {1} \in SUBSET {0, 1} /\ {0, 1} \in SUBSET {0, 1}
  OBVIOUS
<1> QED
  BY <1>1, <1>2, <1>3, <1>4, <1>5

LEMMA Shifts ==
  ASSUME NEW b, NEW n \in Nat, NEW x \in 0 .. 7
  PROVE  /\ (x \in ShiftLeft(b, n)) <=> (\E c \in b : x = c + n)
         /\ (x \in ShiftRight(b, n)) <=> (\E c \in b : c >= n /\ x = c - n)
  BY DEF ShiftLeft, ShiftRight

(* A byte of the mask: what lies in it, and what the byte before carries.  *)
LEMMA MaskByte ==
  ASSUME NEW s \in Schema, NEW expl \in BOOLEAN, NEW x \in 0 .. 7,
         NEW k \in 1 .. CalculateMetaSize(MaxFieldId(s), expl, TRUE),
         \A id \in Ids(s) : SizeIndex(id, expl) \in Nat
  PROVE  x \in BuildSizeMask(s, expl)[k] <=>
           \E id \in Ids(s) : \E b \in CorrectionOf(SizeOf(s, id)) :
             \/ SizeIndex(id, expl) \div 8 = k - 1 /\ x = b + (SizeIndex(id, expl) % 8)
             \/ /\ SizeIndex(id, expl) \div 8 = (k - 1) - 1 /\ SizeIndex(id, expl) % 8 = 7
                /\ b >= 1 /\ x = b - 1
<1> DEFINE corr(id) == CorrectionOf(SizeOf(s, id))
           index(id) == SizeIndex(id, expl)
           here(j) == {id \in Ids(s) : index(id) \div 8 = j - 1}
           carried == {id \in here(k - 1) : index(id) % 8 = 7}
<1>1. x \in BuildSizeMask(s, expl)[k] <=>
        \/ \E id \in here(k) : x \in ShiftLeft(corr(id), index(id) % 8)
        \/ \E id \in carried : x \in ShiftRight(corr(id), 1)
  BY DEF BuildSizeMask
<1>2. \A id \in Ids(s) : index(id) % 8 \in Nat
  OBVIOUS
<1>3. \A id \in here(k) : x \in ShiftLeft(corr(id), index(id) % 8) <=>
                            \E b \in corr(id) : x = b + (index(id) % 8)
  BY <1>2, Shifts
<1>4. \A id \in carried : x \in ShiftRight(corr(id), 1) <=> \E b \in corr(id) : b >= 1 /\ x = b - 1
  BY Shifts
<1>5. \A id :
        /\ (id \in here(k)) <=> (id \in Ids(s) /\ index(id) \div 8 = k - 1)
        /\ (id \in carried) <=>
             (id \in Ids(s) /\ index(id) \div 8 = (k - 1) - 1 /\ index(id) % 8 = 7)
  OBVIOUS
<1> HIDE DEF here, carried
<1>6. x \in BuildSizeMask(s, expl)[k] <=>
        \/ \E id \in here(k) : \E b \in corr(id) : x = b + (index(id) % 8)
        \/ \E id \in carried : \E b \in corr(id) : b >= 1 /\ x = b - 1
  BY <1>1, <1>3, <1>4, Zenon
<1> QED
  BY <1>5, <1>6, Zenon

(* A bit at place b of a field of a byte's width in bits, or the next one. *)
LEMMA BitPlaces ==
  ASSUME NEW p \in Nat, NEW i \in Nat, NEW b \in {0, 1}
  PROVE  (p = i + b) <=>
           \/ i \div 8 = p \div 8 /\ p % 8 = b + (i % 8)
           \/ i \div 8 = p \div 8 - 1 /\ i % 8 = 7 /\ b >= 1 /\ p % 8 = b - 1
<1>1. p = 8 * (p \div 8) + (p % 8) /\ p % 8 \in 0 .. 7 /\ p \div 8 \in Nat
  OBVIOUS
<1>2. i = 8 * (i \div 8) + (i % 8) /\ i % 8 \in 0 .. 7 /\ i \div 8 \in Nat
  OBVIOUS
<1> DEFINE pq == p \div 8
           pr == p % 8
           iq == i \div 8
           ir == i % 8
<1>3. /\ p = 8 * pq + pr /\ pr \in 0 .. 7 /\ pq \in Nat
      /\ i = 8 * iq + ir /\ ir \in 0 .. 7 /\ iq \in Nat
  BY <1>1, <1>2
<1> HIDE DEF pq, pr, iq, ir
<1>4. CASE b = 0
  BY ONLY <1>3, <1>4
<1>5. CASE b = 1
  BY ONLY <1>3, <1>5
<1> QED
  BY <1>4, <1>5 DEF pq, pr, iq, ir

(* The two bits of a size lie where its index says, the second one in the  *)
(* next byte if need be.                                                   *)
LEMMA MaskBits ==
  ASSUME NEW s \in Schema, NEW expl \in BOOLEAN, NEW p \in Nat,
         p \div 8 + 1 \in 1 .. CalculateMetaSize(MaxFieldId(s), expl, TRUE)
  PROVE  IsBit(BuildSizeMask(s, expl), p) <=>
           \E id \in Ids(s) : \E b \in CorrectionOf(SizeOf(s, id)) : p = SizeIndex(id, expl) + b
<1>1. \A id \in Ids(s) : /\ SizeIndex(id, expl) \in Nat
                         /\ CorrectionOf(SizeOf(s, id)) \in SUBSET {0, 1}
  <2>1. \A id \in Ids(s) : id \in Nat /\ id >= 1
    BY SchemaFacts, FlatCodecAssumption DEF Field
  <2>2. \A id \in Ids(s) : CorrectionOf(SizeOf(s, id)) \in SUBSET {0, 1}
    BY SchemaFacts, CorrectionIs
  <2>3. \A id \in Ids(s) : SizeIndex(id, expl) \in Nat
    <3>1. ASSUME NEW id \in Nat, id >= 1
          PROVE  SizeIndex(id, expl) \in Nat
      <4>1. SizeIndex(id, expl) = IF expl THEN 3 * id - 2 ELSE 2 * id - 2
        BY SizeIndexIs
      <4> QED
        BY ONLY <3>1, <4>1
    <3> QED
      BY <2>1, <3>1
  <2> QED
    BY <2>2, <2>3
<1> DEFINE k == p \div 8 + 1
           x == p % 8
<1>2. k \in 1 .. CalculateMetaSize(MaxFieldId(s), expl, TRUE) /\ x \in 0 .. 7 /\ k - 1 = p \div 8
  <2>1. k \in 1 .. CalculateMetaSize(MaxFieldId(s), expl, TRUE)
    BY Zenon
  <2>2. p % 8 \in 0 .. 7 /\ (p \div 8 + 1) - 1 = p \div 8
    BY ONLY p \in Nat
  <2> QED
    BY ONLY <2>1, <2>2
<1>3. IsBit(BuildSizeMask(s, expl), p) <=> x \in BuildSizeMask(s, expl)[k]
  BY DEF IsBit
<1> HIDE DEF k, x
<1>4. x \in BuildSizeMask(s, expl)[k] <=>
           \E id \in Ids(s) : \E b \in CorrectionOf(SizeOf(s, id)) :
             \/ SizeIndex(id, expl) \div 8 = k - 1 /\ x = b + (SizeIndex(id, expl) % 8)
             \/ /\ SizeIndex(id, expl) \div 8 = (k - 1) - 1 /\ SizeIndex(id, expl) % 8 = 7
                /\ b >= 1 /\ x = b - 1
  <2>1. \A kk \in 1 .. CalculateMetaSize(MaxFieldId(s), expl, TRUE), xx \in 0 .. 7 :
         xx \in BuildSizeMask(s, expl)[kk] <=>
           \E id \in Ids(s) : \E b \in CorrectionOf(SizeOf(s, id)) :
             \/ SizeIndex(id, expl) \div 8 = kk - 1 /\ xx = b + (SizeIndex(id, expl) % 8)
             \/ /\ SizeIndex(id, expl) \div 8 = (kk - 1) - 1 /\ SizeIndex(id, expl) % 8 = 7
                /\ b >= 1 /\ xx = b - 1
    BY <1>1, MaskByte, ZenonT(60)
  <2> QED
    BY <1>2, <2>1
<1> USE DEF x
<1>5. \A id \in Ids(s) : \A b \in CorrectionOf(SizeOf(s, id)) :
        (p = SizeIndex(id, expl) + b) <=>
          \/ SizeIndex(id, expl) \div 8 = k - 1 /\ x = b + (SizeIndex(id, expl) % 8)
          \/ /\ SizeIndex(id, expl) \div 8 = (k - 1) - 1 /\ SizeIndex(id, expl) % 8 = 7
             /\ b >= 1 /\ x = b - 1
  <2>1. SUFFICES ASSUME NEW i \in Nat, NEW b \in {0, 1}
                 PROVE  (p = i + b) <=>
                          \/ i \div 8 = k - 1 /\ x = b + (i % 8)
                          \/ i \div 8 = (k - 1) - 1 /\ i % 8 = 7 /\ b >= 1 /\ x = b - 1
    BY <1>1
  <2> QED
    BY <1>2, BitPlaces
<1> QED
  BY <1>3, <1>4, <1>5

(* A mask consists of bytes.                                               *)
LEMMA MaskBytes ==
  ASSUME NEW s \in Schema, NEW expl \in BOOLEAN,
         NEW k \in 1 .. CalculateMetaSize(MaxFieldId(s), expl, TRUE)
  PROVE  BuildSizeMask(s, expl)[k] \in Byte
<1> DEFINE corr(id) == CorrectionOf(SizeOf(s, id))
           index(id) == SizeIndex(id, expl)
           here(j) == {id \in Ids(s) : index(id) \div 8 = j - 1}
           carried == {id \in here(k - 1) : index(id) % 8 = 7}
<1>1. BuildSizeMask(s, expl)[k] =
        (UNION {ShiftLeft(corr(id), index(id) % 8) : id \in here(k)})
        \cup (UNION {ShiftRight(corr(id), 1) : id \in carried})
  BY DEF BuildSizeMask
<1>2. \A id \in Ids(s) : corr(id) \in SUBSET {0, 1}
  BY SchemaFacts, CorrectionIs
<1>3. \A id \in here(k) : ShiftLeft(corr(id), index(id) % 8) \subseteq 0 .. 7
  BY DEF ShiftLeft
<1>4. ASSUME NEW id \in carried
      PROVE  ShiftRight(corr(id), 1) \subseteq 0 .. 7
  <2>1. corr(id) \in SUBSET {0, 1}
    BY <1>2
  <2> HIDE DEF corr
  <2> QED
    BY <2>1 DEF ShiftRight
<1> HIDE DEF here, carried, corr, index
<1>5. (UNION {ShiftLeft(corr(id), index(id) % 8) : id \in here(k)}) \subseteq 0 .. 7
  BY <1>3, Zenon
<1>6. (UNION {ShiftRight(corr(id), 1) : id \in carried}) \subseteq 0 .. 7
  BY <1>4, Zenon
<1> QED
  BY <1>1, <1>5, <1>6, Zenon DEF Byte

(* Bits are numbered from that of the first field on.                      *)
LEMMA BitOf ==
  ASSUME NEW p \in Nat
  PROVE  p % 8 \in 0 .. 7 /\ p \div 8 \in Nat /\ p = 8 * (p \div 8) + (p % 8)
OBVIOUS

LEMMA ByteHolds ==
  ASSUME NEW n \in Nat, NEW p \in Nat, p < n
  PROVE  p \div 8 + 1 \in 1 .. (n + 7) \div 8
<1>1. p = 8 * (p \div 8) + (p % 8) /\ p \div 8 \in Nat /\ p % 8 \in 0 .. 7
  BY BitOf
<1>2. n + 7 = 8 * ((n + 7) \div 8) + ((n + 7) % 8) /\ (n + 7) \div 8 \in Nat /\ (n + 7) % 8 \in 0 .. 7
  BY BitOf, n + 7 \in Nat
<1> DEFINE pq == p \div 8
           pr == p % 8
           nq == (n + 7) \div 8
           nr == (n + 7) % 8
<1>3. /\ p = 8 * pq + pr /\ pq \in Nat /\ pr \in 0 .. 7
      /\ n + 7 = 8 * nq + nr /\ nq \in Nat /\ nr \in 0 .. 7
      /\ p < n
  BY <1>1, <1>2
<1> HIDE DEF pq, pr, nq, nr
<1>4. pq + 1 \in 1 .. nq
  BY ONLY <1>3, n \in Nat, p \in Nat
<1> QED
  BY <1>4 DEF pq, nq

(* The bytes of metadata that n fields of width bits take hold each bit.   *)
LEMMA MetaHolds ==
  ASSUME NEW n \in Nat, NEW expl \in BOOLEAN, NEW sized \in BOOLEAN, NEW p \in Nat,
         p < n * FieldMetaSize(expl, sized)
  PROVE  p \div 8 + 1 \in 1 .. CalculateMetaSize(n, expl, sized)
<1>1. FieldMetaSize(expl, sized) \in 0 .. 3
  BY DEF FieldMetaSize, Bool
<1> DEFINE bits == n * FieldMetaSize(expl, sized)
<1>2. bits \in Nat
  BY <1>1
<1>3. CalculateMetaSize(n, expl, sized) = (bits + 7) \div 8
  BY DEF CalculateMetaSize
<1>4. p < bits
  OBVIOUS
<1> HIDE DEF bits
<1> QED
  BY <1>2, <1>3, <1>4, ByteHolds

(* The presence bit of a field is the first of its bits.                   *)
PresenceWidth(sized) == IF sized THEN 3 ELSE 1

LEMMA PresenceIs ==
  ASSUME NEW maxId \in Nat \ {0}, NEW ids \in SUBSET (1 .. maxId - 1), NEW sized \in BOOLEAN
  PROVE  /\ DOMAIN PresenceBits(ids, maxId, sized) = 1 .. CalculateMetaSize(maxId - 1, TRUE, sized)
         /\ \A k \in 1 .. CalculateMetaSize(maxId - 1, TRUE, sized) :
              PresenceBits(ids, maxId, sized)[k] \in Byte
         /\ \A p \in Nat : p < (maxId - 1) * PresenceWidth(sized) =>
              (IsBit(PresenceBits(ids, maxId, sized), p) <=>
                 \E id \in ids : p = (id - 1) * PresenceWidth(sized))
<1> DEFINE width == PresenceWidth(sized)
<1>0. width \in {1, 3} /\ width = FieldMetaSize(TRUE, sized)
  BY DEF PresenceWidth, FieldMetaSize, Bool
<1> HIDE DEF width
<1> DEFINE bits == PresenceBits(ids, maxId, sized)
           index(id) == (id - 1) * width
           n == CalculateMetaSize(maxId - 1, TRUE, sized)
<1>1. bits = [k \in 1 .. n |-> {index(id) % 8 : id \in {f \in ids : index(f) \div 8 = k - 1}}]
  BY <1>0 DEF PresenceBits
<1>2. \A id \in ids : index(id) \in Nat
  <2>1. \A id \in ids : (id - 1) * 1 \in Nat /\ (id - 1) * 3 \in Nat
    OBVIOUS
  <2> QED
    BY <1>0, <2>1
<1>3. \A id \in ids : index(id) % 8 \in 0 .. 7
  <2> HIDE DEF index
  <2> QED
    BY <1>2, BitOf
<1>4. \A k \in 1 .. n : bits[k] \in Byte
  <2> HIDE DEF index, bits, n
  <2> QED
    BY <1>1, <1>3 DEF Byte
<1>5. ASSUME NEW p \in Nat, p < (maxId - 1) * width
      PROVE  IsBit(bits, p) <=> \E id \in ids : p = index(id)
  <2>1. p \div 8 + 1 \in 1 .. n /\ (p \div 8 + 1) - 1 = p \div 8
    <3> DEFINE all == (maxId - 1) * width
    <3>1. n = (all + 7) \div 8
      BY <1>0, Zenon DEF CalculateMetaSize
    <3>2. all \in Nat /\ p < all /\ n = (all + 7) \div 8
      <4>1. (maxId - 1) * 1 \in Nat /\ (maxId - 1) * 3 \in Nat
        OBVIOUS
      <4> QED
        BY <1>0, <1>5, <3>1, <4>1
    <3> HIDE DEF all, n
    <3>3. p \div 8 + 1 \in 1 .. n
      BY ONLY <3>2, ByteHolds, p \in Nat
    <3>4. (p \div 8 + 1) - 1 = p \div 8
      BY BitOf
    <3> QED
      BY <3>3, <3>4
  <2> HIDE DEF bits, n, index
  <2>2. bits[p \div 8 + 1] = {index(id) % 8 : id \in {f \in ids : index(f) \div 8 = p \div 8}}
    BY <1>1, <2>1
  <2>3. IsBit(bits, p) <=> \E id \in ids : index(id) \div 8 = p \div 8 /\ index(id) % 8 = p % 8
    BY <2>2 DEF IsBit
  <2>4. \A id \in ids : (index(id) \div 8 = p \div 8 /\ index(id) % 8 = p % 8) <=> (p = index(id))
    BY <1>2, BitOf
  <2> QED
    BY <2>3, <2>4
<1> QED
  BY <1>1, <1>4, <1>5 DEF width

(* Applying a mask adds the bits of the sizes below the largest id.        *)
SizedBits(maxId, expl) == (maxId - 1) * FieldMetaSize(expl, TRUE)

LEMMA SizesApplied ==
  ASSUME NEW s \in Schema, NEW maxId \in Nat, maxId - 1 \in 1 .. MaxFieldId(s),
         NEW expl \in BOOLEAN, NEW meta,
         DOMAIN meta = 1 .. CalculateMetaSize(maxId - 1, expl, TRUE),
         expl => \A k \in DOMAIN meta : meta[k] \in Byte
  PROVE  LET new == ApplySizeMask(meta, BuildSizeMask(s, expl), maxId, expl, expl)
         IN  /\ DOMAIN new = DOMAIN meta
             /\ \A k \in DOMAIN new : new[k] \in Byte
             /\ \A p \in Nat :
                  p < SizedBits(maxId, expl) =>
                    (IsBit(new, p) <=>
                       \/ expl /\ IsBit(meta, p)
                       \/ \E id \in Ids(s) : \E b \in CorrectionOf(SizeOf(s, id)) :
                            p = SizeIndex(id, expl) + b)
<1> DEFINE width == FieldMetaSize(expl, TRUE)
           last == MaxFieldId(s)
           n == CalculateMetaSize(maxId - 1, expl, TRUE)
           all == CalculateMetaSize(last, expl, TRUE)
           bits == (maxId - 1) * width
           mask == BuildSizeMask(s, expl)
           new == ApplySizeMask(meta, mask, maxId, expl, expl)
<1>1. width \in {2, 3}
  BY FieldMetaSizeIs
<1>2. last \in Nat /\ maxId - 1 \in 1 .. last
  BY SchemaFacts
<1>3. new = [k \in DOMAIN meta |->
               (IF expl THEN meta[k] ELSE {}) \cup {b \in mask[k] : 8 * (k - 1) + b < bits}]
  BY DEF ApplySizeMask
<1>0. bits = SizedBits(maxId, expl)
  BY DEF SizedBits
<1>4. n = (bits + 7) \div 8 /\ all = (last * width + 7) \div 8 /\ DOMAIN meta = 1 .. n
  BY DEF CalculateMetaSize
<1>5. \A k \in 1 .. all : mask[k] \in Byte
  BY MaskBytes
<1>6. \A p \in Nat : p \div 8 + 1 \in 1 .. all =>
        (IsBit(mask, p) <=> \E id \in Ids(s) : \E b \in CorrectionOf(SizeOf(s, id)) :
                              p = SizeIndex(id, expl) + b)
  BY MaskBits
<1> HIDE DEF width, last, n, all, mask, new
<1>7. bits \in Nat /\ last * width \in Nat /\ bits <= last * width
  <2>1. bits \in Nat /\ last * 2 \in Nat /\ last * 3 \in Nat
    <3>1. (maxId - 1) * 2 \in Nat /\ (maxId - 1) * 3 \in Nat /\ last * 2 \in Nat /\ last * 3 \in Nat
      BY ONLY <1>2, maxId \in Nat
    <3> QED
      BY <1>1, <3>1
  <2>2. (maxId - 1) * 2 <= last * 2 /\ (maxId - 1) * 3 <= last * 3
    BY ONLY <1>2, maxId \in Nat
  <2> QED
    BY <1>1, <2>1, <2>2
<1> HIDE DEF bits
<1>8. 1 .. n \subseteq 1 .. all
  <2> DEFINE room == last * width
  <2>1. bits \in Nat /\ room \in Nat /\ bits <= room
    BY <1>7
  <2>2. n = (bits + 7) \div 8 /\ all = (room + 7) \div 8
    BY <1>4
  <2> HIDE DEF room
  <2>3. n \in Nat /\ all \in Nat /\ n <= all
    BY ONLY <2>1, <2>2
  <2> QED
    BY ONLY <2>3
<1>9. ASSUME NEW k \in DOMAIN meta
      PROVE  new[k] \in Byte
  <2>1. mask[k] \in Byte /\ (expl => meta[k] \in Byte)
    BY <1>4, <1>5, <1>8
  <2>2. new[k] = (IF expl THEN meta[k] ELSE {}) \cup {b \in mask[k] : 8 * (k - 1) + b < bits}
    BY <1>3
  <2>3. {b \in mask[k] : 8 * (k - 1) + b < bits} \in Byte
    BY <2>1 DEF Byte
  <2> DEFINE sizes == {b \in mask[k] : 8 * (k - 1) + b < bits}
  <2> HIDE DEF sizes
  <2> QED
    BY <2>1, <2>2, <2>3 DEF Byte, sizes
<1>10. ASSUME NEW p \in Nat, p < bits
       PROVE  IsBit(new, p) <=> (expl /\ IsBit(meta, p)) \/ IsBit(mask, p)
  <2> DEFINE k == p \div 8 + 1
  <2>1. k \in 1 .. n
    BY <1>4, <1>7, <1>10, ByteHolds
  <2>2. 8 * (k - 1) + (p % 8) = p
    BY BitOf
  <2>3. new[k] = (IF expl THEN meta[k] ELSE {}) \cup {b \in mask[k] : 8 * (k - 1) + b < bits}
    BY <1>3, <1>4, <2>1
  <2> DEFINE x == p % 8
  <2> HIDE DEF k, x
  <2>4. x \in new[k] <=> (expl /\ x \in meta[k]) \/ (x \in mask[k] /\ 8 * (k - 1) + x < bits)
    BY ONLY <2>3, expl \in BOOLEAN
  <2>5. 8 * (k - 1) + x < bits
    BY <1>10, <2>2 DEF x
  <2>6. \A f : IsBit(f, p) <=> x \in f[k]
    BY DEF IsBit, x, k
  <2> QED
    BY <2>4, <2>5, <2>6
<1>11. ASSUME NEW p \in Nat, p < bits
       PROVE  p \div 8 + 1 \in 1 .. all
  BY <1>4, <1>7, <1>8, <1>11, ByteHolds
<1>12. DOMAIN new = DOMAIN meta
  BY <1>3
<1>13. \A p \in Nat : p < bits =>
         (IsBit(new, p) <=> \/ expl /\ IsBit(meta, p)
                            \/ \E id \in Ids(s) : \E b \in CorrectionOf(SizeOf(s, id)) :
                                 p = SizeIndex(id, expl) + b)
  BY <1>6, <1>10, <1>11
<1> QED
  BY <1>0, <1>9, <1>12, <1>13, Zenon DEF new, mask

-----------------------------------------------------------------------------
(* Reading the metadata.                                                   *)

LEMMA ShiftBack ==
  ASSUME NEW b \in SUBSET Nat, NEW n \in Nat
  PROVE  ShiftRight(b, n) \cap {0, 1} = {x \in {0, 1} : n + x \in b}
<1>1. ASSUME NEW x \in {0, 1}
      PROVE  x \in ShiftRight(b, n) <=> n + x \in b
  <2>1. ASSUME n + x \in b
        PROVE  x \in ShiftRight(b, n)
    <3>1. n + x >= n /\ x = (n + x) - n
      OBVIOUS
    <3> QED
      BY <2>1, <3>1 DEF ShiftRight
  <2>2. ASSUME x \in ShiftRight(b, n)
        PROVE  n + x \in b
    BY <2>2 DEF ShiftRight
  <2> QED
    BY <2>1, <2>2
<1> QED
  BY <1>1

LEMMA MetaByteIs ==
  ASSUME NEW m, NEW n \in Nat, DOMAIN m.meta = 1 .. n,
         \A k \in DOMAIN m.meta : m.meta[k] \in Byte
  PROVE  \A j \in Nat : /\ MetaByte(m, j) \in Byte
                        /\ j + 1 \in 1 .. n => MetaByte(m, j) = m.meta[j + 1]
BY FlatCodecAssumption DEF MetaByte

(* Where the two bits of a size start: the second one may lie in the next  *)
(* byte, with explicit presence only.                                      *)
LEMMA ImplicitPlace ==
  ASSUME NEW f \in Nat \ {0}, NEW x \in {0, 1}
  PROVE  /\ ((2 * f - 2) + x) \div 8 = (f - 1) \div 4
         /\ ((2 * f - 2) + x) % 8 = 2 * ((f - 1) % 4) + x
         /\ (2 * f - 2) + x \in Nat /\ (f - 1) \div 4 \in Nat /\ 2 * ((f - 1) % 4) \in Nat
<1> DEFINE g == f - 1
           q == g \div 4
           r == g % 4
           p == (2 * f - 2) + x
           pq == p \div 8
           pr == p % 8
<1>1. g \in Nat /\ p = 2 * g + x /\ p \in Nat
  OBVIOUS
<1> HIDE DEF g, p
<1>2. g = 4 * q + r /\ q \in Nat /\ r \in 0 .. 3
  BY <1>1
<1>3. p = 8 * pq + pr /\ pq \in Nat /\ pr \in 0 .. 7
  BY <1>1, BitOf
<1> HIDE DEF q, r, pq, pr
<1>4. 8 * pq + pr = 8 * q + (2 * r + x)
  BY ONLY <1>1, <1>2, <1>3, x \in {0, 1}
<1>5. 2 * r + x \in 0 .. 7
  BY ONLY <1>2, x \in {0, 1}
<1>6. pq = q /\ pr = 2 * r + x
  BY ONLY <1>2, <1>3, <1>4, <1>5
<1>7. 2 * r \in Nat
  BY ONLY <1>2
<1> QED
  BY <1>1, <1>2, <1>6, <1>7 DEF pq, pr, p, q, r, g

LEMMA ExplicitPlace ==
  ASSUME NEW f \in Nat \ {0}, NEW x \in {0, 1}
  PROVE  LET bit == 3 * (f - 1)
             p == (3 * f - 2) + x
         IN  /\ bit \in Nat /\ p \in Nat /\ (bit % 8) + 1 \in Nat
             /\ \/ /\ p \div 8 = bit \div 8 /\ (p % 8) = ((bit % 8) + 1) + x
                \/ /\ p \div 8 = bit \div 8 + 1 /\ (p % 8) + 8 = ((bit % 8) + 1) + x
<1> DEFINE bit == 3 * (f - 1)
           p == (3 * f - 2) + x
           q == bit \div 8
           r == bit % 8
           pq == p \div 8
           pr == p % 8
<1>1. bit \in Nat /\ p = bit + 1 + x /\ p \in Nat
  OBVIOUS
<1> HIDE DEF bit, p
<1>2. bit = 8 * q + r /\ q \in Nat /\ r \in 0 .. 7
  BY <1>1, BitOf
<1>3. p = 8 * pq + pr /\ pq \in Nat /\ pr \in 0 .. 7
  BY <1>1, BitOf
<1> HIDE DEF q, r, pq, pr
<1>4. 8 * pq + pr = 8 * q + ((r + 1) + x)
  BY ONLY <1>1, <1>2, <1>3, x \in {0, 1}
<1>5. (pq = q /\ pr = (r + 1) + x) \/ (pq = q + 1 /\ pr + 8 = (r + 1) + x)
  BY ONLY <1>2, <1>3, <1>4, x \in {0, 1}
<1>6. r + 1 \in Nat
  BY ONLY <1>2
<1> QED
  BY <1>1, <1>5, <1>6 DEF pq, pr, p, q, r, bit

(* A size is read from the two bits at its index.                          *)
SizeBits(meta, i) == {x \in {0, 1} : IsBit(meta, i + x)}

LEMMA ImplicitSizeRead ==
  ASSUME NEW m, NEW n \in Nat, DOMAIN m.meta = 1 .. n,
         \A k \in DOMAIN m.meta : m.meta[k] \in Byte,
         NEW f \in Nat \ {0}, ((2 * f - 2) + 1) \div 8 + 1 \in 1 .. n
  PROVE  ResolveImplicitSize(m, f) = SizeFrom(SizeBits(m.meta, 2 * f - 2))
<1> DEFINE i == 2 * f - 2
           j == (f - 1) \div 4
           r == 2 * ((f - 1) % 4)
           byte == MetaByte(m, j)
<1>1. \A x \in {0, 1} : (i + x) \div 8 = j /\ (i + x) % 8 = r + x /\ i + x \in Nat
  BY ImplicitPlace
<1>2. j \in Nat /\ r \in Nat
  BY ImplicitPlace
<1>3. j + 1 \in 1 .. n
  BY <1>1
<1> HIDE DEF i, j, r
<1>4. byte \in SUBSET Nat /\ byte = m.meta[j + 1]
  <2>1. \A a \in Nat : MetaByte(m, a) \in Byte /\ (a + 1 \in 1 .. n => MetaByte(m, a) = m.meta[a + 1])
    BY MetaByteIs
  <2>2. byte \in Byte /\ byte = m.meta[j + 1]
    BY <1>2, <1>3, <2>1
  <2> HIDE DEF byte
  <2> QED
    BY <2>2 DEF Byte
<1>5. \A x \in {0, 1} : IsBit(m.meta, i + x) <=> r + x \in byte
  BY <1>1, <1>4 DEF IsBit
<1> HIDE DEF byte
<1>6. ShiftRight(byte, r) \cap {0, 1} = {x \in {0, 1} : r + x \in byte}
  BY <1>2, <1>4, ShiftBack
<1>7. ShiftRight(byte, r) \cap {0, 1} = SizeBits(m.meta, i)
  BY <1>5, <1>6 DEF SizeBits
<1>8. ResolveImplicitSize(m, f) = SizeFrom(ShiftRight(byte, r) \cap {0, 1})
  BY DEF ResolveImplicitSize, byte, j, r
<1> QED
  BY <1>7, <1>8 DEF i

LEMMA ExplicitSizeRead ==
  ASSUME NEW m, NEW n \in Nat, DOMAIN m.meta = 1 .. n,
         \A k \in DOMAIN m.meta : m.meta[k] \in Byte,
         NEW f \in Nat \ {0}, ((3 * f - 2) + 1) \div 8 + 1 \in 1 .. n
  PROVE  ResolveExplicitSize(m, f) = SizeFrom(SizeBits(m.meta, 3 * f - 2))
<1> DEFINE i == 3 * f - 2
           bit == 3 * (f - 1)
           j == bit \div 8
           r == (bit % 8) + 1
           low == MetaByte(m, j)
           next == MetaByte(m, j + 1)
           both == low \cup {b + 8 : b \in next}
<1>1. \A x \in {0, 1} :
        /\ bit \in Nat /\ i + x \in Nat /\ r \in Nat
        /\ \/ (i + x) \div 8 = j /\ (i + x) % 8 = r + x
           \/ (i + x) \div 8 = j + 1 /\ ((i + x) % 8) + 8 = r + x
  BY ExplicitPlace
<1>2. j \in Nat /\ r \in Nat /\ \A x \in {0, 1} : (i + x) % 8 \in 0 .. 7 /\ i + x \in Nat
  BY <1>1, BitOf
<1>3. \A x \in {0, 1} : (i + x) \div 8 + 1 \in 1 .. n
  <2>1. (i + 1) \div 8 + 1 \in 1 .. n
    OBVIOUS
  <2>2. (i + 0) \div 8 \in Nat /\ (i + 0) \div 8 <= (i + 1) \div 8
    <3>1. i \in Nat
      OBVIOUS
    <3> HIDE DEF i
    <3>2. \A a \in Nat : (a + 0) \div 8 \in Nat /\ (a + 0) \div 8 <= (a + 1) \div 8
      OBVIOUS
    <3> QED
      BY <3>1, <3>2
  <2> QED
    BY <2>1, <2>2
<1> HIDE DEF i, r, j
<1>4. \A a \in Nat : MetaByte(m, a) \in Byte /\ (a + 1 \in 1 .. n => MetaByte(m, a) = m.meta[a + 1])
  BY MetaByteIs
<1>5. low \in SUBSET (0 .. 7) /\ next \in SUBSET (0 .. 7)
  BY <1>2, <1>4 DEF Byte
<1>6. (j + 1 \in 1 .. n => low = m.meta[j + 1]) /\ ((j + 1) + 1 \in 1 .. n => next = m.meta[(j + 1) + 1])
  BY <1>2, <1>4
<1> HIDE DEF low, next
<1>7. both \in SUBSET Nat
  <2>1. \A b \in low : b \in Nat
    BY <1>5
  <2>2. \A b \in next : b + 8 \in Nat
    BY <1>5
  <2> QED
    BY ONLY <2>1, <2>2
<1>8. ASSUME NEW x \in {0, 1}
      PROVE  IsBit(m.meta, i + x) <=> r + x \in both
  <2>1. (i + x) % 8 \in 0 .. 7 /\ (i + x) \div 8 + 1 \in 1 .. n
    BY <1>2, <1>3
  <2>2. CASE (i + x) \div 8 = j /\ (i + x) % 8 = r + x
    <3>1. IsBit(m.meta, i + x) <=> r + x \in low
      BY <1>6, <2>1, <2>2 DEF IsBit
    <3>2. r + x \notin {b + 8 : b \in next}
      BY <1>5, <2>1, <2>2
    <3> QED
      BY <3>1, <3>2
  <2>3. CASE (i + x) \div 8 = j + 1 /\ ((i + x) % 8) + 8 = r + x
    <3> DEFINE c == (i + x) % 8
    <3>1. IsBit(m.meta, i + x) <=> c \in next
      BY <1>6, <2>1, <2>3 DEF IsBit
    <3>2. c \in 0 .. 7 /\ c + 8 = r + x
      BY <2>1, <2>3
    <3> HIDE DEF c
    <3>3. r + x \notin low /\ (r + x \in {b + 8 : b \in next} <=> c \in next)
      BY ONLY <1>5, <3>2
    <3> QED
      BY <3>1, <3>3
  <2> QED
    BY <1>1, <2>2, <2>3
<1> HIDE DEF both
<1>9. ShiftRight(both, r) \cap {0, 1} = {x \in {0, 1} : r + x \in both}
  BY <1>2, <1>7, ShiftBack
<1>10. ShiftRight(both, r) \cap {0, 1} = SizeBits(m.meta, i)
  BY <1>8, <1>9 DEF SizeBits
<1>11. ResolveExplicitSize(m, f) = SizeFrom(ShiftRight(both, r) \cap {0, 1})
  BY DEF ResolveExplicitSize, both, low, next, j, r
<1> QED
  BY <1>10, <1>11 DEF i

LEMMA CorrectionType ==
  ASSUME NEW m, NEW f
  PROVE  Correction(m, f) \in Nat
<1>1. ASSUME NEW c \in SUBSET {0, 1}
      PROVE  SizeFrom(c) \in Nat
  <2>1. c = {} \/ c = {0} \/ c = {1} \/ c = {0, 1}
    OBVIOUS
  <2>2. SizeFrom({}) = 0 /\ SizeFrom({0}) = 1 /\ SizeFrom({1}) = 4 /\ SizeFrom({0, 1}) = 8
    <3>1. SizeFrom({}) = 0
      BY DEF SizeFrom
    <3>2. SizeFrom({0}) = 1
      BY DEF SizeFrom
    <3>3. SizeFrom({1}) = 4
      BY DEF SizeFrom
    <3>4. SizeFrom({0, 1}) = 8
      BY DEF SizeFrom
    <3> QED
      BY <3>1, <3>2, <3>3, <3>4
  <2>3. 0 \in Nat /\ 1 \in Nat /\ 4 \in Nat /\ 8 \in Nat
    OBVIOUS
  <2> QED
    BY <2>1, <2>2, <2>3, Zenon
<1>2. ResolveImplicitSize(m, f) \in Nat
  BY <1>1 DEF ResolveImplicitSize
<1>3. ResolveExplicitSize(m, f) \in Nat
  BY <1>1 DEF ResolveExplicitSize
<1> QED
  BY <1>2, <1>3, Zenon DEF Correction

-----------------------------------------------------------------------------
(* Writing a flat message.                                                 *)

(* The fields of which a trace is left: those an implicit writer drops are *)
(* equal to their defaults.                                                *)
Kept(s, added, expl) ==
  {id \in DOMAIN added : expl \/ ~IsEqual(s.fields[id].type, added[id], Default[id])}

(* Explicit presence is paid for when a default was added only.            *)
Truly(s, added, expl) ==
  expl /\ \E id \in Kept(s, added, expl) : IsEqual(s.fields[id].type, added[id], Default[id])

EncodedMeta(s, ids, maxId, truly, sized) ==
  LET presence == IF truly THEN PresenceBits(ids, maxId, sized) ELSE <<>>
      room == [k \in 1 .. CalculateMetaSize(maxId - 1, FALSE, sized) |-> Beyond]
  IN  IF sized THEN ApplySizeMask(IF truly THEN presence ELSE room,
                                  BuildSizeMask(s, truly), maxId, truly, truly)
      ELSE presence

EncodedData(s, added, ids, maxId) ==
  [o \in 0 .. FlatOffset(s, maxId - 1) + SizeOf(s, maxId - 1) - 1 |->
     IF {id \in ids : o \in BytesOf(s, id)} = {} THEN {}
     ELSE LET id == CHOOSE f \in {id \in ids : o \in BytesOf(s, id)} : TRUE
          IN  Xor(added[id], Default[id])]

LEMMA EncodeIs ==
  ASSUME NEW s, NEW added, NEW expl \in BOOLEAN, NEW sized \in BOOLEAN,
         Kept(s, added, expl) # {},
         NEW maxId, maxId = Max(Kept(s, added, expl)) + 1
  PROVE  Encode(s, added, expl, sized) =
           [maxId |-> maxId, sized |-> sized, expl |-> Truly(s, added, expl),
            meta |-> EncodedMeta(s, Kept(s, added, expl), maxId, Truly(s, added, expl), sized),
            data |-> EncodedData(s, added, Kept(s, added, expl), maxId)]
BY DEF Encode, Kept, Truly, EncodedMeta, EncodedData, BytesOf

LEMMA EncodeNothing ==
  ASSUME NEW s, NEW added, NEW expl \in BOOLEAN, NEW sized \in BOOLEAN,
         Kept(s, added, expl) = {}
  PROVE  Encode(s, added, expl, sized) =
           [maxId |-> 0, sized |-> FALSE, expl |-> FALSE, meta |-> <<>>, data |-> <<>>]
BY DEF Encode, Kept

(* The metadata of a flat message tells the size of every field below the  *)
(* largest id, and, where presence is explicit, which of them were added.  *)
MetaTells(meta, s, ids, maxId, truly, sized) ==
  /\ truly \/ sized => DOMAIN meta = 1 .. CalculateMetaSize(maxId - 1, truly, sized)
  /\ ~truly /\ ~sized => DOMAIN meta = {}
  /\ \A k \in DOMAIN meta : meta[k] \in Byte
  /\ sized => \A p \in Nat : p < SizedBits(maxId, truly) =>
       (IsBit(meta, p) <=>
          \/ truly /\ \E id \in ids : p = 3 * id - 3
          \/ \E id \in Ids(s) : \E b \in CorrectionOf(SizeOf(s, id)) :
               p = SizeIndex(id, truly) + b)
  /\ truly /\ ~sized => \A p \in Nat : p < maxId - 1 =>
       (IsBit(meta, p) <=> \E id \in ids : p = id - 1)

LEMMA MetaIsBytes ==
  ASSUME NEW s \in Schema, Ids(s) = 1 .. MaxFieldId(s),
         NEW maxId \in Nat, maxId - 1 \in Ids(s), NEW ids \in SUBSET (1 .. maxId - 1),
         NEW truly \in BOOLEAN, NEW sized \in BOOLEAN
  PROVE  MetaTells(EncodedMeta(s, ids, maxId, truly, sized), s, ids, maxId, truly, sized)
<1> DEFINE presence == PresenceBits(ids, maxId, sized)
           room == [k \in 1 .. CalculateMetaSize(maxId - 1, FALSE, sized) |-> Beyond]
           base == IF truly THEN presence ELSE room
           meta == EncodedMeta(s, ids, maxId, truly, sized)
           n == CalculateMetaSize(maxId - 1, truly, sized)
           applied == ApplySizeMask(base, BuildSizeMask(s, truly), maxId, truly, truly)
           width == PresenceWidth(sized)
<1>1. /\ sized => meta = applied
      /\ ~sized => meta = IF truly THEN presence ELSE <<>>
  BY DEF EncodedMeta
<1>3. maxId \in Nat \ {0} /\ maxId - 1 \in 1 .. MaxFieldId(s)
  <2>1. maxId - 1 >= 1
    BY SchemaFacts
  <2> QED
    BY <2>1
<1>4. /\ DOMAIN presence = 1 .. CalculateMetaSize(maxId - 1, TRUE, sized)
      /\ \A k \in 1 .. CalculateMetaSize(maxId - 1, TRUE, sized) : presence[k] \in Byte
      /\ \A p \in Nat : p < (maxId - 1) * width =>
           (IsBit(presence, p) <=> \E id \in ids : p = (id - 1) * width)
  BY <1>3, PresenceIs, ZenonT(60)
<1>5. DOMAIN room = 1 .. CalculateMetaSize(maxId - 1, FALSE, sized)
  OBVIOUS
<1>6. /\ truly => CalculateMetaSize(maxId - 1, TRUE, sized) = n
      /\ ~truly => CalculateMetaSize(maxId - 1, FALSE, sized) = n
  <2> HIDE DEF n
  <2>1. CASE truly
    <3>1. truly = TRUE
      BY <2>1
    <3> QED
      BY <2>1, <3>1, Zenon DEF n
  <2>2. CASE ~truly
    <3>1. truly = FALSE
      BY <2>2
    <3> QED
      BY <2>2, <3>1, Zenon DEF n
  <2> QED
    BY <2>1, <2>2
<1> HIDE DEF width, presence, room, meta, n, applied
<1>7. DOMAIN base = 1 .. n /\ (truly => base = presence /\ \A k \in DOMAIN base : base[k] \in Byte)
  BY <1>4, <1>5, <1>6
<1> HIDE DEF base
<1>8. sized => /\ DOMAIN meta = 1 .. n
               /\ \A k \in DOMAIN meta : meta[k] \in Byte
               /\ \A p \in Nat : p < SizedBits(maxId, truly) =>
                    (IsBit(meta, p) <=>
                       \/ truly /\ \E id \in ids : p = 3 * id - 3
                       \/ \E id \in Ids(s) : \E b \in CorrectionOf(SizeOf(s, id)) :
                            p = SizeIndex(id, truly) + b)
  <2> HAVE sized
  <2>1. sized = TRUE /\ n = CalculateMetaSize(maxId - 1, truly, TRUE)
    BY Zenon DEF n
  <2>2. /\ DOMAIN applied = DOMAIN base
        /\ \A k \in DOMAIN applied : applied[k] \in Byte
        /\ \A p \in Nat : p < SizedBits(maxId, truly) =>
             (IsBit(applied, p) <=>
                \/ truly /\ IsBit(base, p)
                \/ \E id \in Ids(s) : \E b \in CorrectionOf(SizeOf(s, id)) :
                     p = SizeIndex(id, truly) + b)
    <3>1. DOMAIN base = 1 .. CalculateMetaSize(maxId - 1, truly, TRUE)
      BY <1>7, <2>1
    <3>2. truly => \A k \in DOMAIN base : base[k] \in Byte
      BY <1>7
    <3> QED
      BY ONLY <1>3, <3>1, <3>2, SizesApplied, s \in Schema, truly \in BOOLEAN, ZenonT(60) DEF applied
  <2>3. ASSUME NEW p \in Nat, p < SizedBits(maxId, truly), truly
        PROVE  IsBit(base, p) <=> \E id \in ids : p = 3 * id - 3
    <3>1. width = 3
      BY DEF width, PresenceWidth
    <3>2. FieldMetaSize(truly, TRUE) = 3
      BY <2>3, FieldMetaSizeIs
    <3>5. p < (maxId - 1) * width
      BY <2>3, <3>1, <3>2 DEF SizedBits
    <3>3. IsBit(presence, p) <=> \E id \in ids : p = (id - 1) * 3
      BY <1>4, <3>1, <3>5
    <3>4. \A id \in ids : (id - 1) * 3 = 3 * id - 3
      OBVIOUS
    <3> QED
      BY <1>7, <2>3, <3>3, <3>4
  <2> QED
    BY <1>1, <1>7, <2>2, <2>3
<1>9. ~sized => /\ truly => meta = presence
                /\ ~truly => DOMAIN meta = {}
                /\ \A p \in Nat : p < maxId - 1 => (IsBit(presence, p) <=> \E id \in ids : p = id - 1)
  <2>1. SUFFICES ASSUME ~sized
                 PROVE  /\ truly => meta = presence
                        /\ ~truly => DOMAIN meta = {}
                        /\ \A p \in Nat : p < maxId - 1 =>
                             (IsBit(presence, p) <=> \E id \in ids : p = id - 1)
    OBVIOUS
  <2>2. width = 1
    BY <2>1 DEF width, PresenceWidth
  <2>3. \A p \in Nat : p < maxId - 1 => (IsBit(presence, p) <=> \E id \in ids : p = id - 1)
    BY <1>3, <1>4, <2>2
  <2>4. DOMAIN <<>> = {}
    OBVIOUS
  <2> QED
    BY <1>1, <2>1, <2>3, <2>4
<1>10. truly \/ sized => DOMAIN meta = 1 .. n
  BY <1>4, <1>6, <1>8, <1>9
<1>11. ~truly /\ ~sized => DOMAIN meta = {}
  BY <1>9
<1>12. \A k \in DOMAIN meta : meta[k] \in Byte
  BY <1>4, <1>8, <1>9
<1>13. sized => \A p \in Nat : p < SizedBits(maxId, truly) =>
         (IsBit(meta, p) <=>
            \/ truly /\ \E id \in ids : p = 3 * id - 3
            \/ \E id \in Ids(s) : \E b \in CorrectionOf(SizeOf(s, id)) :
                 p = SizeIndex(id, truly) + b)
  BY <1>8
<1>14. truly /\ ~sized => \A p \in Nat : p < maxId - 1 =>
         (IsBit(meta, p) <=> \E id \in ids : p = id - 1)
  BY <1>9
<1> QED
  BY <1>10, <1>11, <1>12, <1>13, <1>14, Zenon DEF meta, n, MetaTells

LEMMA SizedRoom ==
  ASSUME NEW maxId \in Nat, maxId - 1 \in Nat, NEW truly \in BOOLEAN
  PROVE  /\ SizedBits(maxId, truly) = IF truly THEN 3 * maxId - 3 ELSE 2 * maxId - 2
         /\ SizedBits(maxId, truly) \in Nat
         /\ CalculateMetaSize(maxId - 1, truly, TRUE) = (SizedBits(maxId, truly) + 7) \div 8
<1> DEFINE width == FieldMetaSize(truly, TRUE)
           all == SizedBits(maxId, truly)
<1>1. width = IF truly THEN 3 ELSE 2
  BY FieldMetaSizeIs
<1>2. CalculateMetaSize(maxId - 1, truly, TRUE) = (all + 7) \div 8
  BY DEF CalculateMetaSize, SizedBits
<1>3. all = (maxId - 1) * width
  BY DEF SizedBits
<1> HIDE DEF width, all
<1>4. (maxId - 1) * 3 = 3 * maxId - 3 /\ (maxId - 1) * 2 = 2 * maxId - 2
      /\ 3 * maxId - 3 \in Nat /\ 2 * maxId - 2 \in Nat
  OBVIOUS
<1>5. all = IF truly THEN 3 * maxId - 3 ELSE 2 * maxId - 2
  <2>1. CASE truly
    <3>1. all = (maxId - 1) * 3
      BY <1>1, <1>3, <2>1
    <3> QED
      BY <1>4, <2>1, <3>1
  <2>2. CASE ~truly
    <3>1. all = (maxId - 1) * 2
      BY <1>1, <1>3, <2>2
    <3> QED
      BY <1>4, <2>2, <3>1
  <2> QED
    BY <2>1, <2>2
<1> QED
  BY <1>2, <1>4, <1>5 DEF all

(* Bits of different fields are different.                                 *)
LEMMA IndicesApart ==
  ASSUME NEW truly \in BOOLEAN, NEW f \in Nat, NEW id \in Nat,
         NEW x \in {0, 1}, NEW b \in {0, 1}
  PROVE  /\ SizeIndex(f, truly) + x = SizeIndex(id, truly) + b => f = id /\ x = b
         /\ truly => SizeIndex(f, truly) + x # 3 * id - 3
<1>1. /\ SizeIndex(f, truly) = IF truly THEN 3 * f - 2 ELSE 2 * f - 2
      /\ SizeIndex(id, truly) = IF truly THEN 3 * id - 2 ELSE 2 * id - 2
  BY SizeIndexIs
<1> DEFINE i == SizeIndex(f, truly)
           j == SizeIndex(id, truly)
<1> HIDE DEF i, j
<1>2. i = (IF truly THEN 3 * f - 2 ELSE 2 * f - 2) /\ j = IF truly THEN 3 * id - 2 ELSE 2 * id - 2
  BY <1>1 DEF i, j
<1>3. CASE truly
  <2>1. i = 3 * f - 2 /\ j = 3 * id - 2
    BY <1>2, <1>3
  <2>2. (i + x = j + b => f = id /\ x = b) /\ i + x # 3 * id - 3
    BY ONLY <2>1, f \in Nat, id \in Nat, x \in {0, 1}, b \in {0, 1}
  <2> QED
    BY <2>2 DEF i, j
<1>4. CASE ~truly
  <2>1. i = 2 * f - 2 /\ j = 2 * id - 2
    BY <1>2, <1>4
  <2>2. i + x = j + b => f = id /\ x = b
    BY ONLY <2>1, f \in Nat, id \in Nat, x \in {0, 1}, b \in {0, 1}
  <2> QED
    BY <1>4, <2>2 DEF i, j
<1> QED
  BY <1>3, <1>4

(* A flat message of schema s, which has no gap, with the fields of ids.   *)
Encoding(m, s, added, ids, maxId, truly, sized) ==
  /\ s \in Schema /\ Ids(s) = 1 .. MaxFieldId(s)
  /\ ids \in SUBSET Ids(s) /\ ids \in SUBSET (1 .. maxId - 1)
  /\ maxId \in Nat /\ maxId - 1 \in Ids(s)
  /\ truly \in BOOLEAN /\ sized \in BOOLEAN
  /\ m.maxId = maxId /\ m.sized = sized /\ m.expl = truly
  /\ m.meta = EncodedMeta(s, ids, maxId, truly, sized)
  /\ m.data = EncodedData(s, added, ids, maxId)

LEMMA EncodedSizes ==
  ASSUME NEW m, NEW s, NEW added, NEW ids, NEW maxId, NEW truly, NEW sized,
         Encoding(m, s, added, ids, maxId, truly, sized), sized = TRUE
  PROVE  \A f \in 1 .. maxId - 1 : Correction(m, f) = SizeOf(s, f)
<1>0. /\ s \in Schema /\ Ids(s) = 1 .. MaxFieldId(s)
      /\ ids \in SUBSET Ids(s) /\ ids \in SUBSET (1 .. maxId - 1)
      /\ maxId \in Nat /\ maxId - 1 \in Ids(s)
      /\ truly \in BOOLEAN /\ sized \in BOOLEAN
      /\ m.maxId = maxId /\ m.sized = sized /\ m.expl = truly
      /\ m.meta = EncodedMeta(s, ids, maxId, truly, sized)
      /\ m.data = EncodedData(s, added, ids, maxId)
  BY DEF Encoding
<1> USE <1>0
<1> DEFINE meta == EncodedMeta(s, ids, maxId, truly, sized)
           n == CalculateMetaSize(maxId - 1, truly, sized)
<1>1. /\ DOMAIN meta = 1 .. n
      /\ \A k \in DOMAIN meta : meta[k] \in Byte
      /\ \A p \in Nat : p < SizedBits(maxId, truly) =>
           (IsBit(meta, p) <=>
              \/ truly /\ \E id \in ids : p = 3 * id - 3
              \/ \E id \in Ids(s) : \E b \in CorrectionOf(SizeOf(s, id)) :
                   p = SizeIndex(id, truly) + b)
  <2>1. MetaTells(meta, s, ids, maxId, truly, sized)
    BY MetaIsBytes
  <2> QED
    BY <2>1 DEF MetaTells
<1>2. n = (SizedBits(maxId, truly) + 7) \div 8 /\ n \in Nat
      /\ SizedBits(maxId, truly) \in Nat
      /\ SizedBits(maxId, truly) = IF truly THEN 3 * maxId - 3 ELSE 2 * maxId - 2
  <2>1. n = CalculateMetaSize(maxId - 1, truly, TRUE)
    <3>1. sized = TRUE
      OBVIOUS
    <3> QED
      BY <3>1, Zenon DEF n
  <2>2. maxId - 1 \in Nat
    BY SchemaFacts
  <2> DEFINE all == SizedBits(maxId, truly)
  <2>3. /\ all = IF truly THEN 3 * maxId - 3 ELSE 2 * maxId - 2
        /\ all \in Nat
        /\ CalculateMetaSize(maxId - 1, truly, TRUE) = (all + 7) \div 8
    BY <2>2, SizedRoom
  <2> HIDE DEF n, all
  <2>4. (all + 7) \div 8 \in Nat
    BY ONLY <2>3
  <2> QED
    BY <2>1, <2>3, <2>4 DEF all
<1> HIDE DEF meta, n
<1>3. SUFFICES ASSUME NEW f \in 1 .. maxId - 1
               PROVE  Correction(m, f) = SizeOf(s, f)
  OBVIOUS
<1>4. f \in Nat \ {0} /\ f \in Ids(s) /\ \A id \in Ids(s) : id \in Nat
  BY SchemaFacts
<1>5. \A id \in Ids(s) : CorrectionOf(SizeOf(s, id)) \in SUBSET {0, 1}
  BY SchemaFacts, CorrectionIs
<1> DEFINE i == SizeIndex(f, truly)
<1>6. /\ i = IF truly THEN 3 * f - 2 ELSE 2 * f - 2
      /\ \A x \in {0, 1} : i + x \in Nat /\ i + x < SizedBits(maxId, truly)
  <2>1. i = IF truly THEN 3 * f - 2 ELSE 2 * f - 2
    BY <1>4, SizeIndexIs
  <2> DEFINE all == SizedBits(maxId, truly)
  <2> HIDE DEF i, all
  <2>4. all = IF truly THEN 3 * maxId - 3 ELSE 2 * maxId - 2
    BY <1>2 DEF all
  <2>5. \A x \in {0, 1} : i + x \in Nat /\ i + x < all
    BY ONLY <2>1, <2>4, f \in 1 .. maxId - 1, maxId \in Nat, truly \in BOOLEAN
  <2> QED
    BY <2>1, <2>5 DEF all
<1>7. ASSUME NEW x \in {0, 1}
      PROVE  IsBit(meta, i + x) <=> x \in CorrectionOf(SizeOf(s, f))
  <2>1. IsBit(meta, i + x) <=>
          \/ truly /\ \E id \in ids : i + x = 3 * id - 3
          \/ \E id \in Ids(s) : \E b \in CorrectionOf(SizeOf(s, id)) : i + x = SizeIndex(id, truly) + b
    BY <1>1, <1>6
  <2>2. \A id \in ids : id \in Nat
    OBVIOUS
  <2>3. ~(truly /\ \E id \in ids : i + x = 3 * id - 3)
    BY <1>4, <2>2, IndicesApart
  <2>4. \A id \in Ids(s) : \A b \in CorrectionOf(SizeOf(s, id)) :
          i + x = SizeIndex(id, truly) + b => f = id /\ x = b
    BY <1>4, <1>5, IndicesApart
  <2> HIDE DEF i
  <2>5. (\E id \in Ids(s) : \E b \in CorrectionOf(SizeOf(s, id)) : i + x = SizeIndex(id, truly) + b)
          <=> x \in CorrectionOf(SizeOf(s, f))
    BY <1>4, <2>4, Zenon DEF i
  <2> QED
    BY <2>1, <2>3, <2>5
<1>8. SizeBits(meta, i) = CorrectionOf(SizeOf(s, f))
  BY <1>4, <1>5, <1>7 DEF SizeBits
<1>9. SizeFrom(SizeBits(meta, i)) = SizeOf(s, f)
  BY <1>4, <1>8, SchemaFacts, CorrectionIs
<1>10. (i + 1) \div 8 + 1 \in 1 .. n
  <2>1. i + 1 \in Nat /\ i + 1 < SizedBits(maxId, truly)
    BY <1>6
  <2> HIDE DEF i
  <2> QED
    BY <1>2, <2>1, ByteHolds
<1>11. m.meta = meta
  BY DEF meta
<1> HIDE DEF i
<1>12. CASE truly
  <2>1. i = 3 * f - 2
    BY <1>6, <1>12
  <2>2. ResolveExplicitSize(m, f) = SizeFrom(SizeBits(m.meta, 3 * f - 2))
    BY <1>1, <1>2, <1>4, <1>10, <1>11, <2>1, ExplicitSizeRead
  <2> QED
    BY <1>9, <1>11, <1>12, <2>1, <2>2 DEF Correction
<1>13. CASE ~truly
  <2>1. i = 2 * f - 2
    BY <1>6, <1>13
  <2>2. ResolveImplicitSize(m, f) = SizeFrom(SizeBits(m.meta, 2 * f - 2))
    BY <1>1, <1>2, <1>4, <1>10, <1>11, <2>1, ImplicitSizeRead
  <2> QED
    BY <1>9, <1>11, <1>13, <2>1, <2>2 DEF Correction
<1> QED
  BY <1>12, <1>13

LEMMA EncodedPresence ==
  ASSUME NEW m, NEW s, NEW added, NEW ids, NEW maxId, NEW truly, NEW sized,
         Encoding(m, s, added, ids, maxId, truly, sized), truly
  PROVE  \A r, o : \A id \in 1 .. maxId - 1 : PresenceAt(r, m, id, o) <=> id \in ids
<1>0. /\ s \in Schema /\ Ids(s) = 1 .. MaxFieldId(s)
      /\ ids \in SUBSET Ids(s) /\ ids \in SUBSET (1 .. maxId - 1)
      /\ maxId \in Nat /\ maxId - 1 \in Ids(s)
      /\ truly \in BOOLEAN /\ sized \in BOOLEAN
      /\ m.maxId = maxId /\ m.sized = sized /\ m.expl = truly
      /\ m.meta = EncodedMeta(s, ids, maxId, truly, sized)
      /\ m.data = EncodedData(s, added, ids, maxId)
  BY DEF Encoding
<1> USE <1>0
<1> DEFINE meta == EncodedMeta(s, ids, maxId, truly, sized)
           n == CalculateMetaSize(maxId - 1, truly, sized)
<1>1. MetaTells(meta, s, ids, maxId, truly, sized)
  BY MetaIsBytes
<1>2. DOMAIN meta = 1 .. n
  BY <1>1 DEF MetaTells
<1>3. maxId - 1 \in Nat
  BY SchemaFacts
<1> HIDE DEF meta, n
<1>4. SUFFICES ASSUME NEW r, NEW o, NEW id \in 1 .. maxId - 1
               PROVE  PresenceAt(r, m, id, o) <=> id \in ids
  OBVIOUS
<1> DEFINE bit == IF sized THEN 3 * id - 3 ELSE id - 1
<1>5. bit \in Nat /\ id \in Nat /\ \A j \in ids : j \in Nat
  OBVIOUS
<1>6. bit \div 8 + 1 \in 1 .. n /\ (IsBit(meta, bit) <=> id \in ids)
  <2>1. CASE sized
    <3>1. sized = TRUE
      BY <2>1
    <3>2. n = CalculateMetaSize(maxId - 1, truly, TRUE)
      BY <3>1, Zenon DEF n
    <3>3. /\ SizedBits(maxId, truly) = 3 * maxId - 3
          /\ SizedBits(maxId, truly) \in Nat
          /\ n = (SizedBits(maxId, truly) + 7) \div 8
      BY <1>3, <3>2, SizedRoom
    <3>4. bit = 3 * id - 3 /\ bit < SizedBits(maxId, truly)
      <4>1. bit = 3 * id - 3
        BY <2>1
      <4>2. 3 * id - 3 < 3 * maxId - 3
        BY ONLY id \in 1 .. maxId - 1, maxId \in Nat
      <4> QED
        BY <3>3, <4>1, <4>2
    <3>5. bit \div 8 + 1 \in 1 .. n
      <4> HIDE DEF bit
      <4> QED
        BY <1>5, <3>3, <3>4, ByteHolds
    <3>6. IsBit(meta, bit) <=>
            \/ truly /\ \E j \in ids : bit = 3 * j - 3
            \/ \E j \in Ids(s) : \E b \in CorrectionOf(SizeOf(s, j)) : bit = SizeIndex(j, truly) + b
      BY <1>1, <1>5, <2>1, <3>4 DEF MetaTells
    <3>7. \A j \in Ids(s) : j \in Nat /\ CorrectionOf(SizeOf(s, j)) \in SUBSET {0, 1}
      BY SchemaFacts, CorrectionIs
    <3>8. \A j \in Ids(s) : \A b \in CorrectionOf(SizeOf(s, j)) : bit # SizeIndex(j, truly) + b
      <4>1. ASSUME NEW j \in Nat, NEW b \in {0, 1}
            PROVE  SizeIndex(j, truly) + b # 3 * id - 3
        <5>1. SizeIndex(j, truly) = 3 * j - 2
          BY SizeIndexIs
        <5> DEFINE i == SizeIndex(j, truly)
        <5> HIDE DEF i
        <5>2. i + b # 3 * id - 3
          BY ONLY <5>1, <1>5, j \in Nat, b \in {0, 1} DEF i
        <5> QED
          BY <5>2 DEF i
      <4> HIDE DEF bit
      <4> QED
        BY <3>4, <3>7, <4>1
    <3>9. (\E j \in ids : bit = 3 * j - 3) <=> id \in ids
      <4>1. \A j \in ids : bit = 3 * j - 3 => j = id
        BY <1>5, <3>4
      <4> HIDE DEF bit
      <4> QED
        BY <3>4, <4>1
    <3> HIDE DEF bit
    <3> QED
      BY <3>5, <3>6, <3>8, <3>9
  <2>2. CASE ~sized
    <3>1. bit = id - 1 /\ bit < maxId - 1
      BY <2>2
    <3>2. n = ((maxId - 1) + 7) \div 8
      <4>1. FieldMetaSize(truly, sized) = 1
        BY <2>2 DEF FieldMetaSize, Bool
      <4>2. n = ((maxId - 1) * 1 + 7) \div 8
        BY <4>1 DEF n, CalculateMetaSize
      <4>3. (maxId - 1) * 1 = maxId - 1
        OBVIOUS
      <4> QED
        BY <4>2, <4>3
    <3>3. IsBit(meta, bit) <=> \E j \in ids : bit = j - 1
      BY <1>1, <1>5, <2>2, <3>1 DEF MetaTells
    <3>4. (\E j \in ids : bit = j - 1) <=> id \in ids
      <4>1. \A j \in ids : bit = j - 1 => j = id
        BY <1>5, <3>1
      <4> HIDE DEF bit
      <4> QED
        BY <3>1, <4>1
    <3> HIDE DEF bit
    <3>5. bit \div 8 + 1 \in 1 .. n
      BY <1>3, <1>5, <3>1, <3>2, ByteHolds
    <3> QED
      BY <3>3, <3>4, <3>5
  <2> QED
    BY <2>1, <2>2
<1>7. MetaByte(m, bit \div 8) = meta[bit \div 8 + 1]
  <2>1. m.meta = meta
    BY DEF meta
  <2> HIDE DEF bit
  <2> QED
    BY <1>2, <1>6, <2>1 DEF MetaByte
<1>8. PresenceAt(r, m, id, o) <=> bit % 8 \in MetaByte(m, bit \div 8)
  BY DEF PresenceAt
<1> HIDE DEF bit
<1> QED
  BY <1>6, <1>7, <1>8 DEF IsBit

-----------------------------------------------------------------------------
(* The bytes of the fields.                                                *)
LEMMA WordRead ==
  ASSUME NEW m, NEW o \in Nat, NEW size \in {1, 4, 8}, NEW v,
         o .. o + size - 1 \subseteq DOMAIN m.data,
         \A i \in o .. o + size - 1 : m.data[i] = v
  PROVE  ReadWord(m, o, size) = v
<1>1. o \in o .. o + size - 1
  OBVIOUS
<1> QED
  BY <1>1 DEF ReadWord

LEMMA EncodedWords ==
  ASSUME NEW m, NEW s, NEW added, NEW ids, NEW maxId, NEW truly, NEW sized,
         Encoding(m, s, added, ids, maxId, truly, sized),
         NEW id \in Ids(s), id < maxId
  PROVE  ReadWord(m, FlatOffset(s, id), SizeOf(s, id)) =
           IF id \in ids THEN Xor(added[id], Default[id]) ELSE {}
<1>0. /\ s \in Schema /\ Ids(s) = 1 .. MaxFieldId(s)
      /\ ids \in SUBSET Ids(s) /\ ids \in SUBSET (1 .. maxId - 1)
      /\ maxId \in Nat /\ maxId - 1 \in Ids(s)
      /\ truly \in BOOLEAN /\ sized \in BOOLEAN
      /\ m.maxId = maxId /\ m.sized = sized /\ m.expl = truly
      /\ m.meta = EncodedMeta(s, ids, maxId, truly, sized)
      /\ m.data = EncodedData(s, added, ids, maxId)
  BY DEF Encoding
<1> USE <1>0
<1> DEFINE last == maxId - 1
           owners(o) == {j \in ids : o \in BytesOf(s, j)}
<1>1. SizeOf(s, id) \in {1, 4, 8} /\ FlatOffset(s, id) \in Nat
      /\ last \in Nat /\ id \in Nat /\ id <= last
  <2>1. SizeOf(s, id) \in {1, 4, 8} /\ id \in Field /\ last \in Field
    BY SchemaFacts
  <2>2. id \in Nat /\ last \in Nat
    BY <2>1, FlatCodecAssumption DEF Field
  <2>3. FlatOffset(s, id) \in Nat
    BY BytesApart
  <2> QED
    BY <2>1, <2>2, <2>3
<1>2. BytesOf(s, id) \subseteq 0 .. FlatOffset(s, last) + SizeOf(s, last) - 1
  BY <1>1, BytesApart
<1>3. ASSUME NEW o \in BytesOf(s, id)
      PROVE  owners(o) = IF id \in ids THEN {id} ELSE {}
  <2>1. \A j \in Ids(s) : o \in BytesOf(s, j) => j = id
    BY <1>3, BytesApart
  <2>2. \A j \in ids : j \in Ids(s)
    OBVIOUS
  <2> QED
    BY ONLY <1>3, <2>1, <2>2
<1>4. m.data = [o \in 0 .. FlatOffset(s, last) + SizeOf(s, last) - 1 |->
                  IF owners(o) = {} THEN {}
                  ELSE LET j == CHOOSE f \in owners(o) : TRUE IN Xor(added[j], Default[j])]
  BY DEF EncodedData
<1> HIDE DEF owners, last
<1>5. ASSUME NEW o \in BytesOf(s, id)
      PROVE  m.data[o] = IF id \in ids THEN Xor(added[id], Default[id]) ELSE {}
  <2>1. m.data[o] = IF owners(o) = {} THEN {}
                    ELSE LET j == CHOOSE f \in owners(o) : TRUE IN Xor(added[j], Default[j])
    BY <1>2, <1>4, <1>5
  <2>2. CASE id \in ids
    <3>1. (CHOOSE f \in {id} : TRUE) = id
      OBVIOUS
    <3>2. owners(o) = {id}
      BY <1>3, <2>2
    <3> QED
      BY <2>1, <2>2, <3>1, <3>2
  <2>3. CASE id \notin ids
    BY <1>3, <2>1, <2>3
  <2> QED
    BY <2>2, <2>3
<1>6. BytesOf(s, id) \subseteq DOMAIN m.data
  BY <1>2, <1>4
<1> DEFINE word == IF id \in ids THEN Xor(added[id], Default[id]) ELSE {}
<1> HIDE DEF word
<1>7. \A o \in BytesOf(s, id) : m.data[o] = word
  BY <1>5 DEF word
<1>8. ReadWord(m, FlatOffset(s, id), SizeOf(s, id)) = word
  <2> DEFINE o == FlatOffset(s, id)
             size == SizeOf(s, id)
  <2>1. o \in Nat /\ size \in {1, 4, 8}
    BY <1>1
  <2>2. BytesOf(s, id) = o .. o + size - 1
    BY DEF BytesOf
  <2> HIDE DEF o, size
  <2>3. o .. o + size - 1 \subseteq DOMAIN m.data /\ \A i \in o .. o + size - 1 : m.data[i] = word
    BY <1>6, <1>7, <2>2
  <2>4. ReadWord(m, o, size) = word
    BY ONLY <2>1, <2>3, WordRead, ZenonT(60)
  <2> QED
    BY <2>4 DEF o, size
<1> QED
  BY <1>8 DEF word

-----------------------------------------------------------------------------
(* Reading a flat message.                                                 *)

(* Versions of a schema agree on the size of a field they both have.       *)
SameWidths(r, s) == \A f \in Ids(r) \cap Ids(s) : SizeOf(r, f) = SizeOf(s, f)

(* The message tells the sizes of the fields below id.                     *)
SizesTold(m, s, id) == \A f \in Ids(s) : f < id => Correction(m, f) = SizeOf(s, f)

(* A reader finds a field where its writer has put it: the fields it knows *)
(* and the sizes of those it does not know add up.                         *)
LEMMA OffsetFound ==
  ASSUME NEW s \in Schema, Ids(s) = 1 .. MaxFieldId(s), NEW r \in Schema, SameWidths(r, s),
         NEW m, NEW id \in Ids(r), id \in Ids(s),
         IsStatic(r, id) \/ SizesTold(m, s, id)
  PROVE  ResolveField(r, m, id) = FlatOffset(s, id) /\ AnyResolveField(r, m, id) = FlatOffset(s, id)
<1> DEFINE missing == [f \in Field |-> IF f \in DeletedIds(r) THEN Correction(m, f) ELSE 0]
           known == SizesOf(r)
           original == SizesOf(s)
           none == [f \in Field |-> 0]
<1>1. /\ known \in [Field -> Nat] /\ original \in [Field -> Nat] /\ none \in [Field -> Nat]
      /\ FlatOffset(r, id) = SumBelow(known, id) /\ FlatOffset(s, id) = SumBelow(original, id)
  BY SizesOfType
<1>2. missing \in [Field -> Nat]
  BY CorrectionType
<1>3. Corrections(r, m, id) = SumBelow(missing, id)
  BY DEF Corrections
<1>4. id \in Field /\ id <= MaxFieldId(r) /\ id <= MaxFieldId(s)
      /\ MaxFieldId(r) \in Nat /\ MaxFieldId(s) \in Nat /\ \A f \in Field : f \in Nat \ {0}
  BY SchemaFacts, FlatCodecAssumption DEF Field
<1>5. \A f \in Field : f < id => f \in Ids(s) /\ (f \in DeletedIds(r) <=> f \notin Ids(r))
  BY <1>4 DEF DeletedIds
<1>6. ASSUME NEW f \in Field, f < id
      PROVE  /\ f \in Ids(r) => known[f] = original[f] /\ missing[f] = 0
             /\ f \notin Ids(r) => known[f] = 0 /\ missing[f] = Correction(m, f)
             /\ original[f] = SizeOf(s, f)
  <2>1. f \in Ids(s) /\ (f \in DeletedIds(r) <=> f \notin Ids(r))
    BY <1>5, <1>6
  <2>2. f \in Ids(r) => SizeOf(r, f) = SizeOf(s, f)
    BY <2>1 DEF SameWidths
  <2> QED
    BY <2>1, <2>2 DEF SizesOf
<1>7. original[id] \in Nat /\ \A f \in Field : known[f] \in Nat /\ missing[f] \in Nat /\ original[f] \in Nat
  BY <1>1, <1>2, <1>4
<1> HIDE DEF missing, known, original, none
<1>10. \A a, b, c \in [Field -> Nat] :
         AddUp(a, b, c, id) => SumBelow(a, id) + SumBelow(b, id) = SumBelow(c, id)
  BY <1>4, SumOfSums, SMTT(60)
<1>8. CASE IsStatic(r, id)
  <2>1. ASSUME NEW f \in Field, f < id
        PROVE  known[f] + none[f] = original[f] /\ missing[f] + none[f] = none[f]
    <3>1. f \in Ids(r)
      BY <1>4, <1>5, <1>8, <2>1 DEF IsStatic
    <3>2. known[f] = original[f] /\ missing[f] = 0 /\ none[f] = 0
      BY <1>6, <2>1, <3>1 DEF none
    <3> QED
      BY <1>7, <3>2
  <2>2. SumBelow(known, id) + SumBelow(none, id) = SumBelow(original, id)
    <3>1. AddUp(known, none, original, id)
      BY <2>1 DEF AddUp
    <3> QED
      BY <1>1, <1>10, <3>1
  <2>3. SumBelow(missing, id) + SumBelow(none, id) = SumBelow(none, id)
    <3>1. AddUp(missing, none, none, id)
      BY <2>1 DEF AddUp
    <3> QED
      BY <1>1, <1>2, <1>10, <3>1
  <2>4. SumBelow(none, id) + SumBelow(none, id) = SumBelow(none, id)
    <3>1. AddUp(none, none, none, id)
      BY DEF none, AddUp
    <3> QED
      BY <1>1, <1>10, <3>1
  <2>5. /\ SumBelow(known, id) \in Nat /\ SumBelow(none, id) \in Nat
        /\ SumBelow(missing, id) \in Nat /\ SumBelow(original, id) \in Nat
    BY <1>1, <1>2, <1>4, SumBelowStep
  <2>6. SumBelow(missing, id) = 0 /\ SumBelow(known, id) = SumBelow(original, id)
    <3> DEFINE k == SumBelow(known, id)
               n == SumBelow(none, id)
               d == SumBelow(missing, id)
               o == SumBelow(original, id)
    <3>1. k \in Nat /\ n \in Nat /\ d \in Nat /\ o \in Nat
      BY <2>5
    <3>2. k + n = o /\ d + n = n /\ n + n = n
      BY <2>2, <2>3, <2>4, Zenon
    <3> HIDE DEF k, n, d, o
    <3>3. d = 0 /\ k = o
      BY ONLY <3>1, <3>2
    <3> QED
      BY <3>3, Zenon DEF k, o, d
  <2>7. FlatOffset(r, id) = FlatOffset(s, id) /\ Corrections(r, m, id) = 0 /\ FlatOffset(r, id) \in Nat
    BY <1>1, <1>3, <2>5, <2>6
  <2> QED
    BY <1>8, <2>7 DEF ResolveField, AnyResolveField
<1>9. CASE ~IsStatic(r, id)
  <2>1. ASSUME NEW f \in Field, f < id
        PROVE  known[f] + missing[f] = original[f]
    <3>1. f \in Ids(s)
      BY <1>5, <2>1
    <3>2. Correction(m, f) = SizeOf(s, f)
      BY <1>9, <2>1, <3>1 DEF SizesTold
    <3> QED
      BY <1>6, <1>7, <2>1, <3>2
  <2>2. SumBelow(known, id) + SumBelow(missing, id) = SumBelow(original, id)
    <3>1. AddUp(known, missing, original, id)
      BY <2>1 DEF AddUp
    <3> QED
      BY <1>1, <1>2, <1>10, <3>1
  <2> QED
    BY <1>1, <1>3, <1>9, <2>2 DEF ResolveField, AnyResolveField
<1> QED
  BY <1>8, <1>9

(* A message with values for some fields of a schema.                      *)
Adds(s, added) ==
  DOMAIN added \subseteq Ids(s) /\ \A id \in DOMAIN added : added[id] \in Value

LEMMA KeptFacts ==
  ASSUME NEW s \in Schema, NEW added, Adds(s, added), NEW expl, Kept(s, added, expl) # {}
  PROVE  LET ids == Kept(s, added, expl)
             maxId == Max(ids) + 1
         IN  /\ ids \subseteq Ids(s) /\ ids \subseteq DOMAIN added
             /\ maxId \in Nat /\ maxId - 1 \in ids /\ maxId - 1 \in Ids(s)
             /\ ids \in SUBSET (1 .. maxId - 1) /\ \A id \in ids : id < maxId
<1> DEFINE ids == Kept(s, added, expl)
           max == Max(ids)
<1>1. ids \subseteq Ids(s) /\ ids \subseteq DOMAIN added /\ ids # {}
  BY DEF Kept, Adds
<1>2. ids \subseteq 1 .. MaxField /\ MaxField \in Nat
  BY <1>1, SchemaFacts, FlatCodecAssumption DEF Field
<1>3. ids \in SUBSET (0 .. MaxField)
  BY <1>2
<1> HIDE DEF ids
<1>4. max \in ids /\ \A id \in ids : max >= id
  BY <1>1, <1>2, <1>3, MaxIsGreatest
<1> HIDE DEF max
<1>5. max \in 1 .. MaxField /\ (max + 1) - 1 = max
  BY <1>2, <1>4
<1>6. max + 1 \in Nat /\ ids \in SUBSET (1 .. (max + 1) - 1) /\ \A id \in ids : id < max + 1
  BY ONLY <1>2, <1>4, <1>5
<1>7. max = Max(ids)
  BY DEF max
<1> QED
  BY <1>1, <1>4, <1>5, <1>6, <1>7 DEF ids

(* Taking the difference twice gives the value back, and an implicit       *)
(* writer keeps only what differs from the default.                        *)
LEMMA XorBack ==
  ASSUME NEW v, NEW d
  PROVE  /\ Xor(Xor(v, d), d) = v /\ Xor({}, d) = d
         /\ Xor(v, d) = {} <=> v = d
BY DEF Xor

LEMMA DefaultsDropped ==
  ASSUME NEW s, NEW added, NEW expl \in BOOLEAN,
         NEW id \in Kept(s, added, expl), id \in Field, ~Truly(s, added, expl)
  PROVE  added[id] # Default[id]
<1>1. ~IsEqual(s.fields[id].type, added[id], Default[id])
  BY DEF Kept, Truly
<1>2. Default[id] \notin NonFinite
  BY EvolutionAssumption
<1> QED
  BY <1>1, <1>2 DEF IsEqual

(* What every reader makes of a field of a flat message that was kept, of  *)
(* one that was not and of one its writer did not know.                    *)
Reading(s, added, expl, sized, m, r, id, o) ==
  /\ s \in Schema /\ Ids(s) = 1 .. MaxFieldId(s) /\ Adds(s, added)
  /\ expl \in BOOLEAN /\ sized \in BOOLEAN /\ m = Encode(s, added, expl, sized)
  /\ r \in Schema /\ SameWidths(r, s) /\ id \in Ids(r)
  /\ sized \/ IsStatic(r, id)
  /\ o \in {ResolveField(r, m, id), AnyResolveField(r, m, id)}

LEMMA FlatReads ==
  ASSUME NEW s, NEW added, NEW expl, NEW sized, NEW m, NEW r, NEW id, NEW o,
         Reading(s, added, expl, sized, m, r, id, o)
  PROVE  /\ ValueAt(r, m, id, o) = IF id \in Kept(s, added, expl) THEN added[id] ELSE Default[id]
         /\ PresenceAt(r, m, id, o) <=> id \in Kept(s, added, expl)
<1>0. /\ s \in Schema /\ Ids(s) = 1 .. MaxFieldId(s) /\ Adds(s, added)
      /\ expl \in BOOLEAN /\ sized \in BOOLEAN /\ m = Encode(s, added, expl, sized)
      /\ r \in Schema /\ SameWidths(r, s) /\ id \in Ids(r)
      /\ sized \/ IsStatic(r, id)
      /\ o \in {ResolveField(r, m, id), AnyResolveField(r, m, id)}
  BY DEF Reading
<1> USE <1>0
<1> DEFINE ids == Kept(s, added, expl)
           maxId == Max(ids) + 1
           truly == Truly(s, added, expl)
<1>1. id \in Field /\ id \in Nat \ {0} /\ truly \in BOOLEAN
  BY SchemaFacts, FlatCodecAssumption DEF Field, Truly
<1>2. CASE ids = {}
  <2>1. m.maxId = 0
    BY <1>2, EncodeNothing
  <2>2. id >= m.maxId /\ ~(id < m.maxId)
    BY <1>1, <2>1
  <2> QED
    BY <1>2, <2>2 DEF ValueAt, PresenceAt
<1>3. CASE ids # {}
  <2>1. /\ ids \subseteq Ids(s) /\ ids \subseteq DOMAIN added
        /\ maxId \in Nat /\ maxId - 1 \in ids /\ maxId - 1 \in Ids(s)
        /\ ids \in SUBSET (1 .. maxId - 1) /\ \A j \in ids : j < maxId
    BY <1>3, KeptFacts
  <2>2. m = [maxId |-> maxId, sized |-> sized, expl |-> truly,
             meta |-> EncodedMeta(s, ids, maxId, truly, sized),
             data |-> EncodedData(s, added, ids, maxId)]
    BY <1>3, EncodeIs
  <2>3. /\ m.maxId = maxId /\ m.sized = sized /\ m.expl = truly
        /\ m.meta = EncodedMeta(s, ids, maxId, truly, sized)
        /\ m.data = EncodedData(s, added, ids, maxId)
    <3> HIDE DEF ids, maxId, truly
    <3> QED
      BY <2>2
  <2>6. Encoding(m, s, added, ids, maxId, truly, sized)
    <3> HIDE DEF ids, maxId, truly
    <3> QED
      BY <1>1, <2>1, <2>3 DEF Encoding
  <2> HIDE DEF ids, maxId, truly
  <2>4. CASE ~(id < maxId)
    <3>1. id >= m.maxId /\ ~(id < m.maxId) /\ id \notin ids
      BY <1>1, <2>1, <2>3, <2>4
    <3> QED
      BY <3>1 DEF ValueAt, PresenceAt, ids
  <2>5. CASE id < maxId
    <3>1. id \in Ids(s) /\ id \in 1 .. maxId - 1
      BY <1>1, <2>1, <2>5, SchemaFacts
    <3>2. IsStatic(r, id) \/ SizesTold(m, s, id)
      <4>1. SUFFICES ASSUME sized
                     PROVE  \A f \in Ids(s) : f < id => Correction(m, f) = SizeOf(s, f)
        BY DEF SizesTold
      <4>2. \A f \in 1 .. maxId - 1 : Correction(m, f) = SizeOf(s, f)
        <5>1. sized = TRUE
          BY <4>1
        <5> QED
          BY ONLY <2>6, <5>1, EncodedSizes
      <4>3. \A f \in Ids(s) : f < id => f \in 1 .. maxId - 1
        BY <1>1, <2>1, <2>5, SchemaFacts
      <4> QED
        BY <4>2, <4>3
    <3>3. o = FlatOffset(s, id)
      <4>1. /\ ResolveField(r, m, id) = FlatOffset(s, id)
            /\ AnyResolveField(r, m, id) = FlatOffset(s, id)
        BY <3>1, <3>2, OffsetFound, ZenonT(60)
      <4> QED
        BY <4>1
    <3>4. SizeOf(r, id) = SizeOf(s, id)
      BY <3>1 DEF SameWidths
    <3> DEFINE word == ReadWord(m, o, SizeOf(r, id))
    <3>5. word = IF id \in ids THEN Xor(added[id], Default[id]) ELSE {}
      <4>1. ReadWord(m, FlatOffset(s, id), SizeOf(s, id)) =
              IF id \in ids THEN Xor(added[id], Default[id]) ELSE {}
        BY <2>5, <2>6, <3>1, EncodedWords
      <4> QED
        BY <3>3, <3>4, <4>1
    <3>6. id \in ids => added[id] \in Value
      BY <2>1 DEF Adds
    <3>7. Default[id] \in Value
      BY <1>1, FlatCodecAssumption
    <3> HIDE DEF word
    <3>8. word \in Value /\ word # Junk
      BY <3>5, <3>6, <3>7, FlatCodecAssumption DEF Xor
    <3>9. ValueAt(r, m, id, o) = Xor(word, Default[id])
      BY <1>1, <2>1, <2>3, <2>5, <3>8 DEF ValueAt, word
    <3>10. ValueAt(r, m, id, o) = IF id \in ids THEN added[id] ELSE Default[id]
      BY <3>5, <3>9, XorBack
    <3>11. PresenceAt(r, m, id, o) <=> id \in ids
      <4>1. CASE truly
        BY <2>6, <3>1, <4>1, EncodedPresence
      <4>2. CASE ~truly
        <5>1. PresenceAt(r, m, id, o) <=> word # {}
          BY <2>3, <2>5, <4>2 DEF PresenceAt, word
        <5>2. id \in ids => added[id] # Default[id]
          BY <1>1, <4>2, DefaultsDropped DEF ids, truly
        <5> QED
          BY <3>5, <5>1, <5>2, XorBack, ZenonT(60)
      <4> QED
        BY <4>1, <4>2
    <3> QED
      BY <3>10, <3>11 DEF ids
  <2> QED
    BY <2>4, <2>5
<1> QED
  BY <1>2, <1>3

(* What kind of bytes a flat message is made of.                           *)
LEMMA FlatTyped ==
  ASSUME NEW s \in Schema, Ids(s) = 1 .. MaxFieldId(s), NEW added, Adds(s, added),
         NEW expl \in BOOLEAN, NEW sized \in BOOLEAN,
         NEW m, m = Encode(s, added, expl, sized)
  PROVE  /\ \A id \in Field : id < m.maxId => m.sized = sized
         /\ \A k \in DOMAIN m.meta : m.meta[k] \in Byte
         /\ \A o \in DOMAIN m.data : m.data[o] \in Value
<1> DEFINE ids == Kept(s, added, expl)
           maxId == Max(ids) + 1
           truly == Truly(s, added, expl)
<1>1. truly \in BOOLEAN
  BY DEF Truly
<1>2. CASE ids = {}
  <2>1. m.maxId = 0 /\ m.meta = <<>> /\ m.data = <<>>
    BY <1>2, EncodeNothing
  <2>2. \A id \in Field : ~(id < 0)
    BY FlatCodecAssumption DEF Field
  <2>3. DOMAIN m.meta = {} /\ DOMAIN m.data = {}
    BY <2>1
  <2> QED
    BY <2>1, <2>2, <2>3
<1>3. CASE ids # {}
  <2>1. /\ ids \subseteq Ids(s) /\ ids \subseteq DOMAIN added
        /\ maxId \in Nat /\ maxId - 1 \in ids /\ maxId - 1 \in Ids(s)
        /\ ids \in SUBSET (1 .. maxId - 1) /\ \A j \in ids : j < maxId
    BY <1>3, KeptFacts
  <2>2. m = [maxId |-> maxId, sized |-> sized, expl |-> truly,
             meta |-> EncodedMeta(s, ids, maxId, truly, sized),
             data |-> EncodedData(s, added, ids, maxId)]
    BY <1>3, EncodeIs
  <2> HIDE DEF ids, maxId, truly
  <2>3. /\ m.sized = sized
        /\ m.meta = EncodedMeta(s, ids, maxId, truly, sized)
        /\ m.data = EncodedData(s, added, ids, maxId)
    BY <2>2
  <2>4. MetaTells(EncodedMeta(s, ids, maxId, truly, sized), s, ids, maxId, truly, sized)
    BY <1>1, <2>1, MetaIsBytes
  <2>5. \A k \in DOMAIN m.meta : m.meta[k] \in Byte
    BY <2>3, <2>4 DEF MetaTells
  <2>6. ASSUME NEW o \in DOMAIN m.data
        PROVE  m.data[o] \in Value
    <3> DEFINE owners == {j \in ids : o \in BytesOf(s, j)}
               owner == CHOOSE f \in owners : TRUE
    <3>1. m.data[o] = IF owners = {} THEN {} ELSE Xor(added[owner], Default[owner])
      BY <2>3, <2>6 DEF EncodedData
    <3>2. owners # {} => owner \in ids
      OBVIOUS
    <3> HIDE DEF owners, owner
    <3>3. owners # {} => added[owner] \in Value /\ Default[owner] \in Value
      <4>1. Ids(s) \subseteq Field
        BY SchemaFacts
      <4> QED
        BY <2>1, <3>2, <4>1, FlatCodecAssumption DEF Adds
    <3> QED
      BY <3>1, <3>3, FlatCodecAssumption DEF Xor
  <2> QED
    BY <2>3, <2>5, <2>6
<1> QED
  BY <1>2, <1>3

-----------------------------------------------------------------------------
(* The versions of a schema.                                               *)

(* What a stored message consists of.                                      *)
StoredBy(w) ==
  /\ w.form \in {"flat", "sparse"}
  /\ w.by \in Schema /\ Adds(w.by, w.added) /\ w.expl \in BOOLEAN
  /\ w.form = "flat" =>
       /\ Ids(w.by) = 1 .. MaxFieldId(w.by) /\ w.by.layout \in {"flat", "dynamic"}
       /\ w.bytes = Encode(w.by, w.added, w.expl, w.by.layout = "dynamic")
  /\ w.form = "sparse" => w.bytes = Stored(w.by, w.added, w.expl)

(* Every version that is running is one of the current layout whose fields *)
(* agree in size with those of the current version.                        *)
VersionsInv ==
  /\ used \subseteq Field /\ changes \in 0 .. MaxVersions
  /\ \A s \in readers \cup {schema} :
       /\ s \in Schema /\ Compiles(s) /\ Ids(s) \subseteq used
       /\ s.layout = schema.layout /\ SameWidths(s, schema)

(* So do those of the version the stored message was written by, and what  *)
(* was written without sizes is read by versions without gaps only.        *)
StoredInv ==
  written # Nothing =>
    /\ StoredBy(written) /\ Ids(written.by) \subseteq used
    /\ \A s \in readers \cup {schema} : SameWidths(s, written.by)
    /\ "flat" \notin Generalized /\ written.by.layout = "flat" => schema.layout = "flat"

EInv == VersionsInv /\ StoredInv

LEMMA NewFields ==
  ASSUME NEW s \in Schema, NEW ids \in SUBSET Field, NEW fields \in [ids -> FieldDef]
  PROVE  /\ [s EXCEPT !.fields = fields] \in Schema
         /\ [s EXCEPT !.fields = fields].layout = s.layout
         /\ [s EXCEPT !.fields = fields].fields = fields
<1> DEFINE new == [s EXCEPT !.fields = fields]
<1>1. new.layout = s.layout /\ new.fields = fields /\ new = [layout |-> s.layout, fields |-> fields]
  BY DEF Schema
<1>2. fields \in UNION {[i -> FieldDef] : i \in SUBSET Field}
  OBVIOUS
<1> HIDE DEF new
<1>3. s.layout \in {"flat", "sparse", "dynamic"}
  BY DEF Schema
<1>4. new \in Schema
  BY <1>1, <1>2, <1>3 DEF Schema
<1> QED
  BY <1>1, <1>4 DEF new

(* A version that keeps the sizes of the fields it takes over, and none of *)
(* whose fields has a number that was used for another one.                *)
Follows(new, old) ==
  /\ new \in Schema /\ new.layout = old.layout
  /\ \A f \in Ids(new) \cap used : f \in Ids(old) /\ SizeOf(new, f) = SizeOf(old, f)

LEMMA Published ==
  ASSUME EInv, NEW s, Publish(s), Follows(s, schema),
         Ids(s) \subseteq used', used \subseteq used', used' \subseteq Field
  PROVE  EInv'
<1>1. schema' = s /\ readers' = readers \cup {schema} /\ written' = written /\ Compiles(s)
      /\ s \in Schema /\ s.layout = schema.layout
  BY DEF Publish, Follows
<1>2. changes' \in 0 .. MaxVersions
  BY EvolutionAssumption DEF Publish, EInv, VersionsInv
<1>3. ASSUME NEW r, Ids(r) \subseteq used, SameWidths(schema, r)
      PROVE  SameWidths(s, r)
  BY <1>3 DEF SameWidths, Follows
<1>4. ASSUME NEW r, Ids(r) \subseteq used, SameWidths(r, schema)
      PROVE  SameWidths(r, s)
  BY <1>4 DEF SameWidths, Follows
<1>5. SameWidths(s, s) /\ SameWidths(schema, schema)
  BY DEF SameWidths
<1>6. VersionsInv'
  <2>1. ASSUME NEW r \in readers \cup {schema}
        PROVE  /\ r \in Schema /\ Compiles(r) /\ Ids(r) \subseteq used'
               /\ r.layout = s.layout /\ SameWidths(r, s)
    BY <1>1, <1>4, <2>1 DEF EInv, VersionsInv
  <2> QED
    BY <1>1, <1>2, <1>5, <2>1 DEF VersionsInv
<1>7. StoredInv'
  <2>1. SUFFICES ASSUME written # Nothing
                 PROVE  /\ Ids(written.by) \subseteq used'
                        /\ \A r \in readers \cup {schema} \cup {s} : SameWidths(r, written.by)
                        /\ StoredBy(written)
                        /\ "flat" \notin Generalized /\ written.by.layout = "flat" => s.layout = "flat"
    BY <1>1 DEF StoredInv
  <2> QED
    BY <1>1, <1>3, <2>1 DEF EInv, StoredInv
<1> QED
  BY <1>6, <1>7 DEF EInv

-----------------------------------------------------------------------------
(* The changes.                                                            *)

LEMMA Dense ==
  ASSUME NEW s, ~IsGapMessage(s)
  PROVE  Ids(s) = 1 .. MaxFieldId(s)
BY DEF IsGapMessage

LEMMA CurrentFields ==
  ASSUME EInv
  PROVE  /\ schema \in Schema /\ Ids(schema) \in SUBSET Field /\ Ids(schema) \subseteq used
         /\ schema.fields \in [Ids(schema) -> FieldDef]
<1>1. schema \in Schema /\ Ids(schema) \subseteq used
  BY DEF EInv, VersionsInv
<1>2. PICK ids \in SUBSET Field : schema.fields \in [ids -> FieldDef]
  BY <1>1 DEF Schema
<1>3. Ids(schema) = ids
  BY <1>2 DEF Ids
<1> QED
  BY <1>1, <1>2, <1>3

LEMMA Replaced ==
  ASSUME EInv, NEW ids \in SUBSET Field, NEW fields \in [ids -> FieldDef],
         Publish([schema EXCEPT !.fields = fields]),
         \A f \in ids \cap used : f \in Ids(schema) /\ Width[fields[f].type] = SizeOf(schema, f),
         ids \subseteq used', used \subseteq used', used' \subseteq Field
  PROVE  EInv'
<1> DEFINE new == [schema EXCEPT !.fields = fields]
<1>1. new \in Schema /\ new.layout = schema.layout /\ new.fields = fields
  BY CurrentFields, NewFields
<1>2. Publish(new)
  OBVIOUS
<1> HIDE DEF new
<1>3. Ids(new) = ids /\ \A f \in ids : SizeOf(new, f) = Width[fields[f].type]
  BY <1>1 DEF Ids, SizeOf
<1>4. Follows(new, schema)
  BY <1>1, <1>3 DEF Follows
<1> QED
  BY <1>2, <1>3, <1>4, Published

LEMMA FieldAdded ==
  ASSUME EInv, NEW id \in Field, NEW t \in NewTypes, AddField(id, t)
  PROVE  EInv'
<1> DEFINE ids == Ids(schema) \cup {id}
           fields == [f \in ids |-> IF f = id THEN [type |-> t, live |-> TRUE] ELSE schema.fields[f]]
<1>1. /\ Ids(schema) \in SUBSET Field /\ Ids(schema) \subseteq used
      /\ schema.fields \in [Ids(schema) -> FieldDef]
  BY CurrentFields
<1>2. [type |-> t, live |-> TRUE] \in FieldDef
  BY EvolutionAssumption DEF FieldDef
<1>3. ids \in SUBSET Field /\ fields \in [ids -> FieldDef]
  BY <1>1, <1>2
<1>4. Publish([schema EXCEPT !.fields = fields]) /\ used' = used \cup {id} /\ id \notin used
  BY DEF AddField
<1>5. \A f \in ids \cap used : f \in Ids(schema) /\ Width[fields[f].type] = SizeOf(schema, f)
  BY <1>4 DEF SizeOf
<1>6. used \subseteq Field
  BY DEF EInv, VersionsInv
<1>7. ids \subseteq used' /\ used \subseteq used' /\ used' \subseteq Field
  BY <1>1, <1>4, <1>6
<1> HIDE DEF fields, ids
<1> QED
  BY <1>3, <1>4, <1>5, <1>7, Replaced

LEMMA FieldDeprecated ==
  ASSUME EInv, NEW id \in Field, Deprecate(id)
  PROVE  EInv'
<1> DEFINE ids == Ids(schema)
           fields == [schema.fields EXCEPT ![id] = [schema.fields[id] EXCEPT !.live = FALSE]]
<1>1. /\ ids \in SUBSET Field /\ ids \subseteq used /\ schema.fields \in [ids -> FieldDef]
  BY CurrentFields
<1>2. id \in ids
  BY DEF Deprecate, Live
<1>3. /\ [schema.fields[id] EXCEPT !.live = FALSE] \in FieldDef
      /\ [schema.fields[id] EXCEPT !.live = FALSE].type = schema.fields[id].type
  BY <1>1, <1>2 DEF FieldDef
<1>4. fields \in [ids -> FieldDef] /\ \A f \in ids : fields[f].type = schema.fields[f].type
  BY <1>1, <1>3
<1>5. Publish([schema EXCEPT !.fields = fields]) /\ used' = used
  BY DEF Deprecate
<1>6. used \subseteq Field
  BY DEF EInv, VersionsInv
<1>7. \A f \in ids \cap used : f \in ids /\ Width[fields[f].type] = SizeOf(schema, f)
  BY <1>4 DEF SizeOf
<1> HIDE DEF fields
<1> QED
  BY <1>1, <1>4, <1>5, <1>6, <1>7, Replaced

LEMMA FieldDeleted ==
  ASSUME EInv, NEW id \in Field, Delete(id)
  PROVE  EInv'
<1> DEFINE ids == Ids(schema) \ {id}
           fields == Restrict(schema.fields, ids)
<1>1. /\ Ids(schema) \in SUBSET Field /\ Ids(schema) \subseteq used
      /\ schema.fields \in [Ids(schema) -> FieldDef]
  BY CurrentFields
<1>2. fields \in [ids -> FieldDef] /\ \A f \in ids : fields[f] = schema.fields[f]
  BY <1>1 DEF Restrict
<1>3. Publish([schema EXCEPT !.fields = fields]) /\ used' = used
  BY DEF Delete
<1>4. used \subseteq Field
  BY DEF EInv, VersionsInv
<1>5. \A f \in ids \cap used : f \in Ids(schema) /\ Width[fields[f].type] = SizeOf(schema, f)
  BY <1>2 DEF SizeOf
<1>6. ids \in SUBSET Field /\ ids \subseteq used
  BY <1>1
<1> HIDE DEF fields, ids
<1> QED
  BY <1>2, <1>3, <1>4, <1>5, <1>6, Replaced

LEMMA TypeChanged ==
  ASSUME EInv, NEW id \in Field, NEW t \in Type, ChangeType(id, t)
  PROVE  EInv'
<1> DEFINE ids == Ids(schema)
           fields == [schema.fields EXCEPT ![id] = [schema.fields[id] EXCEPT !.type = t]]
<1>1. /\ ids \in SUBSET Field /\ ids \subseteq used /\ schema.fields \in [ids -> FieldDef]
  BY CurrentFields
<1>2. id \in ids
  BY DEF ChangeType, Live
<1>3. /\ [schema.fields[id] EXCEPT !.type = t] \in FieldDef
      /\ [schema.fields[id] EXCEPT !.type = t].type = t
  BY <1>1, <1>2 DEF FieldDef
<1>4. Width[schema.fields[id].type] = Width[t]
  BY DEF ChangeType, CheckBaseType
<1>5. fields \in [ids -> FieldDef] /\ \A f \in ids : Width[fields[f].type] = Width[schema.fields[f].type]
  BY <1>1, <1>3, <1>4
<1>6. Publish([schema EXCEPT !.fields = fields]) /\ used' = used
  BY DEF ChangeType
<1>7. used \subseteq Field
  BY DEF EInv, VersionsInv
<1>8. \A f \in ids \cap used : f \in ids /\ Width[fields[f].type] = SizeOf(schema, f)
  BY <1>5 DEF SizeOf
<1> HIDE DEF fields
<1> QED
  BY <1>1, <1>5, <1>6, <1>7, <1>8, Replaced

LEMMA LayoutGeneralized ==
  ASSUME EInv, Generalize
  PROVE  EInv'
<1> DEFINE new == [schema EXCEPT !.layout = "dynamic"]
<1>1. schema \in Schema /\ Ids(schema) \subseteq used /\ used \subseteq Field
  BY DEF EInv, VersionsInv
<1>2. new.layout = "dynamic" /\ new.fields = schema.fields
      /\ new = [layout |-> "dynamic", fields |-> schema.fields]
  BY <1>1 DEF Schema
<1>3. schema.fields \in UNION {[i -> FieldDef] : i \in SUBSET Field}
  BY <1>1 DEF Schema
<1>4. /\ schema' = new /\ readers' = {} /\ changes' = changes + 1 /\ changes < MaxVersions
      /\ used' = used /\ written' = written /\ schema.layout \in Generalized
  BY DEF Generalize
<1> HIDE DEF new
<1>5. new \in Schema
  BY <1>2, <1>3 DEF Schema
<1>6. Ids(new) = Ids(schema) /\ \A f \in Ids(new) : SizeOf(new, f) = SizeOf(schema, f)
  BY <1>2 DEF Ids, SizeOf
<1>7. Compiles(new)
  BY <1>2 DEF Compiles
<1>8. changes' \in 0 .. MaxVersions
  BY <1>4, EvolutionAssumption DEF EInv, VersionsInv
<1>9. VersionsInv'
  <2>1. SameWidths(new, new)
    BY DEF SameWidths
  <2> QED
    BY <1>1, <1>4, <1>5, <1>6, <1>7, <1>8, <2>1 DEF VersionsInv
<1>10. StoredInv'
  <2>1. SUFFICES ASSUME written # Nothing
                 PROVE  /\ StoredBy(written) /\ Ids(written.by) \subseteq used
                        /\ SameWidths(new, written.by)
                        /\ "flat" \notin Generalized /\ written.by.layout = "flat" => new.layout = "flat"
    BY <1>4 DEF StoredInv
  <2>2. /\ StoredBy(written) /\ Ids(written.by) \subseteq used
        /\ SameWidths(schema, written.by)
        /\ "flat" \notin Generalized /\ written.by.layout = "flat" => schema.layout = "flat"
    BY <2>1 DEF EInv, StoredInv
  <2>3. SameWidths(new, written.by)
    BY <1>6, <2>2 DEF SameWidths
  <2> QED
    BY <1>4, <2>2, <2>3
<1> QED
  BY <1>9, <1>10 DEF EInv

-----------------------------------------------------------------------------
(* The message that is stored.                                             *)

LEMMA AddedValues ==
  ASSUME EInv, NEW ids \in SUBSET Live(schema), NEW added \in Additions(ids)
  PROVE  DOMAIN added = ids /\ Adds(schema, added)
<1>1. DOMAIN added = ids /\ \A id \in ids : added[id] \in Patterns[schema.fields[id].type]
  BY DEF Additions
<1>2. ids \subseteq Ids(schema)
  BY DEF Live
<1>3. \A id \in Ids(schema) : schema.fields[id].type \in Type
  BY CurrentFields DEF FieldDef
<1>4. Patterns \in [Type -> SUBSET Value]
  BY EvolutionAssumption
<1>5. \A id \in ids : added[id] \in Value
  BY <1>1, <1>2, <1>3, <1>4
<1> QED
  BY <1>1, <1>2, <1>5 DEF Adds

LEMMA FormsOf ==
  ASSUME NEW s \in Schema, Compiles(s), NEW form \in Forms(s)
  PROVE  /\ form \in {"flat", "sparse"}
         /\ form = "flat" => Ids(s) = 1 .. MaxFieldId(s) /\ s.layout \in {"flat", "dynamic"}
<1>1. s.layout \in {"flat", "sparse", "dynamic"}
  BY DEF Schema
<1>2. CASE s.layout = "flat"
  <2>1. form = "flat" /\ ~IsGapMessage(s)
    BY <1>2 DEF Forms, Compiles
  <2> QED
    BY <1>2, <2>1, Dense
<1>3. CASE s.layout = "sparse"
  BY <1>3 DEF Forms
<1>4. CASE s.layout = "dynamic"
  <2>1. form \in {"flat", "sparse"} /\ (form = "flat" => ~IsGapMessage(s))
    BY <1>4 DEF Forms
  <2> QED
    BY <1>4, <2>1, Dense
<1> QED
  BY <1>1, <1>2, <1>3, <1>4

LEMMA MessageStored ==
  ASSUME EInv, written = Nothing, NEW ids \in SUBSET Live(schema), NEW added \in Additions(ids),
         NEW form \in Forms(schema), NEW expl \in BOOLEAN, Write(form, added, expl)
  PROVE  EInv'
<1> DEFINE bytes == IF form = "flat" THEN Encode(schema, added, expl, schema.layout = "dynamic")
                    ELSE Stored(schema, added, expl)
<1>1. /\ written' = [form |-> form, by |-> schema, added |-> added, expl |-> expl, bytes |-> bytes]
      /\ schema' = schema /\ readers' = readers /\ used' = used /\ changes' = changes
  BY DEF Write
<1>2. schema \in Schema /\ Compiles(schema) /\ Ids(schema) \subseteq used
  BY DEF EInv, VersionsInv
<1>3. /\ form \in {"flat", "sparse"}
      /\ form = "flat" => /\ Ids(schema) = 1 .. MaxFieldId(schema)
                          /\ schema.layout \in {"flat", "dynamic"}
                          /\ bytes = Encode(schema, added, expl, schema.layout = "dynamic")
      /\ form = "sparse" => bytes = Stored(schema, added, expl)
  BY <1>2, FormsOf
<1>4. Adds(schema, added)
  BY AddedValues
<1> HIDE DEF bytes
<1>5. StoredBy(written)'
  BY <1>1, <1>2, <1>3, <1>4 DEF StoredBy
<1>6. VersionsInv'
  BY <1>1 DEF EInv, VersionsInv
<1>7. \A s \in readers \cup {schema} : SameWidths(s, schema)
  BY DEF EInv, VersionsInv
<1>8. StoredInv'
  BY <1>1, <1>2, <1>5, <1>7 DEF StoredInv
<1> QED
  BY <1>6, <1>8 DEF EInv

-----------------------------------------------------------------------------
(* The invariant holds in every state.                                     *)

LEMMA EvolutionInit ==
  ASSUME Init
  PROVE  EInv
<1>1. schema \in Schema /\ Compiles(schema)
  BY EvolutionAssumption DEF Init
<1>2. Ids(schema) \subseteq Field
  BY <1>1, SchemaFacts
<1>3. changes \in 0 .. MaxVersions
  BY EvolutionAssumption DEF Init
<1>4. VersionsInv
  <2>1. readers \cup {schema} = {schema} /\ used = Ids(schema)
    BY DEF Init
  <2>2. SameWidths(schema, schema)
    BY DEF SameWidths
  <2> QED
    BY <1>1, <1>2, <1>3, <2>1, <2>2 DEF VersionsInv
<1>5. StoredInv
  BY DEF Init, StoredInv
<1> QED
  BY <1>4, <1>5 DEF EInv

LEMMA EvolutionStep ==
  ASSUME EInv, [Next]_vars
  PROVE  EInv'
<1>1. CASE \E id \in Field, t \in NewTypes : AddField(id, t)
  BY <1>1, FieldAdded
<1>2. CASE \E id \in Field : Deprecate(id)
  BY <1>2, FieldDeprecated
<1>3. CASE \E id \in Field : Delete(id)
  BY <1>3, FieldDeleted
<1>4. CASE \E id \in Field, t \in Type : ChangeType(id, t)
  BY <1>4, TypeChanged
<1>5. CASE Generalize
  BY <1>5, LayoutGeneralized
<1>6. CASE /\ written = Nothing
           /\ \E ids \in SUBSET Live(schema) :
                \E added \in Additions(ids), form \in Forms(schema), expl \in BOOLEAN :
                  Write(form, added, expl)
  <2>1. PICK ids \in SUBSET Live(schema) :
               \E added \in Additions(ids), form \in Forms(schema), expl \in BOOLEAN :
                 Write(form, added, expl)
    BY <1>6
  <2>2. PICK added \in Additions(ids), form \in Forms(schema), expl \in BOOLEAN :
               Write(form, added, expl)
    BY <2>1
  <2> QED
    BY <1>6, <2>2, MessageStored
<1>7. CASE UNCHANGED vars
  <2>1. /\ schema' = schema /\ readers' = readers /\ used' = used
        /\ written' = written /\ changes' = changes
    BY <1>7 DEF vars
  <2>2. VersionsInv'
    BY <2>1 DEF EInv, VersionsInv
  <2>3. StoredInv'
    BY <2>1 DEF EInv, StoredInv
  <2> QED
    BY <2>2, <2>3 DEF EInv
<1> QED
  BY <1>1, <1>2, <1>3, <1>4, <1>5, <1>6, <1>7 DEF Next

LEMMA Invariant == Spec => []EInv
<1>1. Init => EInv
  BY EvolutionInit
<1>2. EInv /\ [Next]_vars => EInv'
  BY EvolutionStep
<1> QED
  BY <1>1, <1>2, PTL DEF Spec

-----------------------------------------------------------------------------
(* What the invariant is for.                                              *)

(* Every version that runs compiles and uses numbers that were assigned,   *)
(* and what is stored are bytes of metadata and values, whatever changes   *)
(* are made (message.h:108-310, ir_processor.cpp:59-165).                  *)
THEOREM TypeCorrect == Spec => []TypeOK
<1>1. ASSUME EInv
      PROVE  TypeOK
  <2>1. /\ \A s \in readers \cup {schema} : Compiles(s) /\ Ids(s) \subseteq used
        /\ used \subseteq Field /\ changes \in 0 .. MaxVersions
    BY <1>1 DEF EInv, VersionsInv
  <2>2. written.form \in {"none", "flat", "sparse"}
    <3>1. CASE written = Nothing
      BY <3>1 DEF Nothing
    <3>2. CASE written # Nothing
      BY <1>1, <3>2 DEF EInv, StoredInv, StoredBy
    <3> QED
      BY <3>1, <3>2
  <2>3. ASSUME written.form = "flat"
        PROVE  /\ \A k \in DOMAIN written.bytes.meta : written.bytes.meta[k] \in Byte
               /\ \A o \in DOMAIN written.bytes.data : written.bytes.data[o] \in Value
    <3>1. written # Nothing
      BY <2>3 DEF Nothing
    <3>2. StoredBy(written)
      BY <1>1, <3>1 DEF EInv, StoredInv
    <3> DEFINE sized == written.by.layout = "dynamic"
    <3>3. /\ written.by \in Schema /\ Ids(written.by) = 1 .. MaxFieldId(written.by)
          /\ Adds(written.by, written.added) /\ written.expl \in BOOLEAN /\ sized \in BOOLEAN
          /\ written.bytes = Encode(written.by, written.added, written.expl, sized)
      BY <2>3, <3>2 DEF StoredBy
    <3> HIDE DEF sized
    <3> QED
      BY <3>3, FlatTyped
  <2> QED
    BY <2>1, <2>2, <2>3 DEF TypeOK
<1> QED
  BY <1>1, Invariant, PTL

(* What the proofs below say of the stored message: its writer's version   *)
(* is dense, and its sizes were written if that version was dynamic.       *)
LEMMA FlatStored ==
  ASSUME EInv, written.form = "flat"
  PROVE  LET sized == written.by.layout = "dynamic"
         IN  /\ written.by \in Schema /\ Ids(written.by) = 1 .. MaxFieldId(written.by)
             /\ Adds(written.by, written.added)
             /\ written.expl \in BOOLEAN /\ sized \in BOOLEAN
             /\ written.by.layout \in {"flat", "dynamic"}
             /\ written.bytes = Encode(written.by, written.added, written.expl, sized)
             /\ \A s \in readers \cup {schema} : SameWidths(s, written.by)
             /\ "flat" \notin Generalized /\ ~sized => schema.layout = "flat"
<1>1. written # Nothing
  BY DEF Nothing
<1> QED
  BY <1>1 DEF EInv, StoredInv, StoredBy

LEMMA DenseIsStatic ==
  ASSUME NEW s, Ids(s) = 1 .. MaxFieldId(s), NEW id
  PROVE  IsStatic(s, id)
BY DEF IsStatic, DeletedIds

(* With an explicit writer every AddField records the field as set, for    *)
(* the writer's own version to find, whatever its value (support.md:37,    *)
(* serializer.h:649-675, 711-726).                                         *)
THEOREM ExplicitIsRecorded == Spec => []ExplicitRecorded
<1>1. ASSUME EInv
      PROVE  ExplicitRecorded
  <2>1. SUFFICES ASSUME written.form = "flat", written.expl, NEW id \in DOMAIN written.added
                 PROVE  ReadPresence(written.by, written.bytes, id)
    BY DEF ExplicitRecorded
  <2> DEFINE by == written.by
             added == written.added
             expl == written.expl
             sized == by.layout = "dynamic"
             m == written.bytes
             o == ResolveField(by, m, id)
  <2>2. /\ by \in Schema /\ Ids(by) = 1 .. MaxFieldId(by) /\ Adds(by, added)
        /\ expl \in BOOLEAN /\ sized \in BOOLEAN /\ m = Encode(by, added, expl, sized)
    BY <1>1, <2>1, FlatStored
  <2>3. expl /\ id \in DOMAIN added
    BY <2>1
  <2> HIDE DEF by, added, expl, sized, m
  <2>4. IsStatic(by, id)
    BY <2>2, DenseIsStatic
  <2>5. id \in Ids(by) /\ id \in Kept(by, added, expl) /\ SameWidths(by, by)
    BY <2>2, <2>3 DEF Adds, Kept, SameWidths
  <2>6. o \in {ResolveField(by, m, id), AnyResolveField(by, m, id)}
    OBVIOUS
  <2> HIDE DEF o
  <2>7. Reading(by, added, expl, sized, m, by, id, o)
    BY <2>2, <2>4, <2>5, <2>6 DEF Reading
  <2>8. PresenceAt(by, m, id, o)
    BY <2>5, <2>7, FlatReads
  <2> QED
    BY <2>8 DEF ReadPresence, o, by, m
<1> QED
  BY <1>1, Invariant, PTL

(* FieldReadsBack is about the fields a message keeps.                     *)
LEMMA KeptReadsBack ==
  ASSUME NEW s, NEW w, NEW id, NEW value, NEW present \in BOOLEAN,
         value = IF id \in Kept(w.by, w.added, w.expl) THEN w.added[id] ELSE Default[id],
         present <=> id \in Kept(w.by, w.added, w.expl)
  PROVE  FieldReadsBack(s, w, id, value, present)
<1> DEFINE set == id \in DOMAIN w.added
           same == set /\ IsEqual(w.by.fields[id].type, w.added[id], Default[id])
           kept == set /\ (w.expl \/ ~same)
<1>1. id \in Kept(w.by, w.added, w.expl) <=> kept
  BY DEF Kept
<1>2. FieldReadsBack(s, w, id, value, present) <=>
        /\ value = IF kept THEN w.added[id] ELSE Default[id]
        /\ present = kept
  BY DEF FieldReadsBack
<1>3. kept \in BOOLEAN
  OBVIOUS
<1> HIDE DEF kept
<1>4. value = IF kept THEN w.added[id] ELSE Default[id]
  BY <1>1
<1>5. present = kept
  BY <1>1, <1>3
<1> QED
  BY <1>2, <1>4, <1>5

(* A reader that has the sizes, or needs none of them, reads every field   *)
(* back, with the compiled resolver and with that of reflection.           *)
LEMMA FlatReadsBack ==
  ASSUME EInv, "flat" \notin Generalized, written.form = "flat",
         NEW s \in readers \cup {schema}, NEW id \in Live(s),
         NEW o \in {ResolveField(s, written.bytes, id), AnyResolveField(s, written.bytes, id)}
  PROVE  FieldReadsBack(s, written, id, ValueAt(s, written.bytes, id, o),
                        PresenceAt(s, written.bytes, id, o))
<1> DEFINE by == written.by
           added == written.added
           expl == written.expl
           sized == by.layout = "dynamic"
           m == written.bytes
<1>1. /\ by \in Schema /\ Ids(by) = 1 .. MaxFieldId(by) /\ Adds(by, added)
      /\ expl \in BOOLEAN /\ sized \in BOOLEAN /\ m = Encode(by, added, expl, sized)
      /\ SameWidths(s, by)
      /\ ~sized => schema.layout = "flat"
  BY FlatStored
<1>2. /\ s \in Schema /\ Compiles(s) /\ s.layout = schema.layout
      /\ id \in Ids(s)
  BY DEF EInv, VersionsInv, Live
<1>3. sized \/ IsStatic(s, id)
  <2>1. SUFFICES ASSUME ~sized
                 PROVE  IsStatic(s, id)
    OBVIOUS
  <2>2. ~IsGapMessage(s)
    BY <1>1, <1>2, <2>1 DEF Compiles
  <2> QED
    BY <2>2, Dense, DenseIsStatic
<1>4. o \in {ResolveField(s, m, id), AnyResolveField(s, m, id)}
  OBVIOUS
<1> HIDE DEF by, added, expl, sized, m
<1>5. Reading(by, added, expl, sized, m, s, id, o)
  BY <1>1, <1>2, <1>3, <1>4 DEF Reading
<1>6. /\ ValueAt(s, m, id, o) = IF id \in Kept(by, added, expl) THEN added[id] ELSE Default[id]
      /\ PresenceAt(s, m, id, o) <=> id \in Kept(by, added, expl)
  BY <1>5, FlatReads
<1>7. PresenceAt(s, m, id, o) \in BOOLEAN
  BY DEF PresenceAt
<1> DEFINE value == ValueAt(s, m, id, o)
           present == PresenceAt(s, m, id, o)
<1>8. /\ value = IF id \in Kept(written.by, written.added, written.expl)
                   THEN written.added[id] ELSE Default[id]
      /\ present <=> id \in Kept(written.by, written.added, written.expl)
      /\ present \in BOOLEAN
  BY <1>6, <1>7 DEF by, added, expl
<1>9. value = ValueAt(s, written.bytes, id, o) /\ present = PresenceAt(s, written.bytes, id, o)
  BY DEF m
<1> HIDE DEF value, present
<1>10. FieldReadsBack(s, written, id, value, present)
  BY <1>8, KeptReadsBack
<1> QED
  BY <1>9, <1>10

(* A reader corrects an offset for deleted fields only where the sizes of  *)
(* the fields were written (message.h:246-253), as long as no flat layout  *)
(* is made dynamic: the run EvolutionGeneralize shows what happens then.   *)
THEOREM CorrectionsSized ==
  ASSUME "flat" \notin Generalized
  PROVE  Spec => []CorrectionsAreSized
<1>1. ASSUME EInv
      PROVE  CorrectionsAreSized
  <2>1. SUFFICES ASSUME written.form = "flat", NEW s \in readers \cup {schema},
                        NEW id \in Live(s), id < written.bytes.maxId, ~IsStatic(s, id)
                 PROVE  written.bytes.sized
    BY DEF CorrectionsAreSized
  <2> DEFINE sized == written.by.layout = "dynamic"
  <2>2. /\ written.by \in Schema /\ Ids(written.by) = 1 .. MaxFieldId(written.by)
        /\ Adds(written.by, written.added) /\ written.expl \in BOOLEAN /\ sized \in BOOLEAN
        /\ written.bytes = Encode(written.by, written.added, written.expl, sized)
        /\ ~sized => schema.layout = "flat"
    BY <1>1, <2>1, FlatStored
  <2>3. s \in Schema /\ Compiles(s) /\ s.layout = schema.layout /\ id \in Ids(s)
    BY <1>1 DEF EInv, VersionsInv, Live
  <2>4. sized
    <3>1. SUFFICES ASSUME ~sized
                   PROVE  FALSE
      OBVIOUS
    <3>2. ~IsGapMessage(s)
      BY <2>2, <2>3, <3>1 DEF Compiles
    <3> QED
      BY <2>1, <3>2, Dense, DenseIsStatic
  <2>5. id \in Field
    BY <2>3, SchemaFacts
  <2> HIDE DEF sized
  <2>6. written.bytes.sized = sized
    BY <2>1, <2>2, <2>5, FlatTyped
  <2> QED
    BY <2>4, <2>6
<1> QED
  BY <1>1, Invariant, PTL

(* Forward and backward compatibility: whatever documented changes lie     *)
(* between a writer and a reader, in either order, the reader reads what   *)
(* was written, as long as no flat layout is made dynamic                  *)
(* (message.h:108-310, 404-500, serializer.h:563-726,                      *)
(* ir_processor.cpp:80-143, cpp_gen.cpp:1921-1938).                        *)
THEOREM ReadersRead ==
  ASSUME "flat" \notin Generalized
  PROVE  Spec => []EveryReaderReads
<1>1. ASSUME EInv
      PROVE  EveryReaderReads
  <2>1. SUFFICES ASSUME written # Nothing, NEW s \in readers \cup {schema}, NEW id \in Live(s)
                 PROVE  FieldReadsBack(s, written, id, Read(s, written, id), Has(s, written, id))
    BY DEF EveryReaderReads, ReadsBack
  <2>2. StoredBy(written)
    BY <1>1, <2>1 DEF EInv, StoredInv
  <2>3. CASE written.form = "flat"
    <3> DEFINE o == ResolveField(s, written.bytes, id)
    <3>1. /\ Read(s, written, id) = ValueAt(s, written.bytes, id, o)
          /\ Has(s, written, id) = PresenceAt(s, written.bytes, id, o)
      BY <2>3 DEF Read, Has, ReadValue, ReadPresence
    <3>2. o \in {ResolveField(s, written.bytes, id), AnyResolveField(s, written.bytes, id)}
      OBVIOUS
    <3> HIDE DEF o
    <3>3. FieldReadsBack(s, written, id, ValueAt(s, written.bytes, id, o),
                         PresenceAt(s, written.bytes, id, o))
      BY <1>1, <2>3, <3>2, FlatReadsBack
    <3> QED
      BY <3>1, <3>3
  <2>4. CASE written.form = "sparse"
    <3> DEFINE kept == Kept(written.by, written.added, written.expl)
    <3>1. kept \subseteq DOMAIN written.added
      BY DEF Kept
    <3>2. written.bytes = Restrict(written.added, kept)
      BY <2>2, <2>4 DEF StoredBy, Stored, Kept
    <3> HIDE DEF kept
    <3>3. DOMAIN written.bytes = kept /\ \A f \in kept : written.bytes[f] = written.added[f]
      BY <3>1, <3>2 DEF Restrict
    <3> DEFINE value == Read(s, written, id)
               present == Has(s, written, id)
    <3>4. /\ value = IF id \in kept THEN written.added[id] ELSE Default[id]
          /\ present <=> id \in kept
      BY <2>4, <3>3 DEF Read, Has
    <3>5. present \in BOOLEAN
      BY <2>4 DEF Has
    <3> HIDE DEF value, present
    <3>6. FieldReadsBack(s, written, id, value, present)
      BY <3>4, <3>5, KeptReadsBack DEF kept
    <3> QED
      BY <3>6 DEF value, present
  <2> QED
    BY <2>2, <2>3, <2>4 DEF StoredBy
<1> QED
  BY <1>1, Invariant, PTL

(* A program that knows the message by its descriptor only reads the same: *)
(* the resolver made at run time agrees with the compiled one on data of   *)
(* every version (reflect.h:123-131, any_message.h:61-95).                 *)
THEOREM VisitorsRead ==
  ASSUME "flat" \notin Generalized
  PROVE  Spec => []EveryVisitorReads
<1>1. ASSUME EInv
      PROVE  EveryVisitorReads
  <2>1. SUFFICES ASSUME written.form = "flat", NEW s \in readers \cup {schema}, NEW id \in Live(s)
                 PROVE  FieldReadsBack(s, written, id, AnyReadValue(s, written.bytes, id),
                                       AnyReadPresence(s, written.bytes, id))
    BY DEF EveryVisitorReads
  <2> DEFINE o == AnyResolveField(s, written.bytes, id)
  <2>2. o \in {ResolveField(s, written.bytes, id), AnyResolveField(s, written.bytes, id)}
    OBVIOUS
  <2> HIDE DEF o
  <2>3. FieldReadsBack(s, written, id, ValueAt(s, written.bytes, id, o),
                       PresenceAt(s, written.bytes, id, o))
    BY <1>1, <2>1, <2>2, FlatReadsBack
  <2> QED
    BY <2>3 DEF AnyReadValue, AnyReadPresence, o
<1> QED
  BY <1>1, Invariant, PTL
=============================================================================
