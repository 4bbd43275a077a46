------------------------- MODULE Serializer_content -------------------------
(***************************************************************************)
(* Proof that every offset the serializer has handed out reads back as     *)
(* what was written there, for any schema, contents and limits.            *)
(*                                                                         *)
(* An object is settled when every stack that agrees with this one up to   *)
(* the floor reads it back: no later call changes a word below the floor,  *)
(* so it is enough to show that an object is settled when it is promised.  *)
(* What its words are by then is the invariant of the open message.        *)
(***************************************************************************)
EXTENDS Serializer_proofs

Agree(s, r, n) == s \in Seq(Int) /\ n <= Len(s) /\ \A k \in 1 .. n : s[k] = r[k]

Settled(x, r, n) == \A s \in Seq(Int) : Agree(s, r, n) => Reads(s, x)

Content == \A x \in objects : Settled(x, right, Floor)

-----------------------------------------------------------------------------
(* The fields of a message that starts at start: a reference leads below   *)
(* it, or is a foreign one that the guards will refuse.                    *)
FieldsFit(fields, start) ==
  /\ DOMAIN fields \subseteq Field
  /\ \A id \in DOMAIN fields :
       IF id \in RefFields
         THEN fields[id] \in Nat \ {0} /\ (fields[id] <= start \/ fields[id] > MaxOffset)
         ELSE fields[id] \in Scalar

NoDefaults(fields) ==
  \A id \in DOMAIN fields : id \notin RefFields => fields[id] # Default[id]

(* The word of a field in a fixed or flat message at at.                   *)
WordOf(fields, id, at) ==
  IF id \notin DOMAIN fields THEN 0
  ELSE IF id \in RefFields THEN at - fields[id]
  ELSE Xor(fields[id], Default[id])

(* The word of a field that is present in a sparse message at at.          *)
SparseWordOf(fields, id, at) == IF id \in RefFields THEN at - fields[id] ELSE fields[id]

-----------------------------------------------------------------------------
(* What the words of an open message say, kind by kind.                    *)

FixedContent(r, m) ==
  \A id \in Field : r[m.loc - FlatOffset(id)] = WordOf(m.fields, id, m.loc)

FlatContent(r, m) ==
  /\ DOMAIN m.fields \subseteq IF m.maxId = 0 THEN {} ELSE 1 .. m.maxId - 1
  /\ m.maxId # 0 =>
       \A id \in 1 .. m.maxId - 1 : r[m.end - id] = WordOf(m.fields, id, m.end)
  /\ m.maxId # 0 /\ m.explicit =>
       \A id \in 1 .. m.maxId - 1 : r[m.end + id] = IF id \in DOMAIN m.fields THEN 1 ELSE 0
  /\ m.need => m.explicit
  /\ ~m.need => NoDefaults(m.fields)

(* The fields lie above the start in the order they were added, by         *)
(* descending ids, so that none is further away than its id.               *)
SparseRun(r, l, start, base, added, fields, maxId, prev) ==
  /\ Len(r) = start + added
  /\ Len(l) = base + added
  /\ \A i \in 1 .. added :
       /\ l[base + i].off = start + i
       /\ l[base + i].id \in DOMAIN fields
       /\ l[base + i].scalar = (l[base + i].id \notin RefFields)
       /\ r[start + i] = fields[l[base + i].id]
       /\ l[base + i].id < maxId /\ prev <= l[base + i].id
  /\ \A i \in 1 .. added, j \in 1 .. added :
       i <= j => l[base + i].id - l[base + j].id >= j - i
  /\ \A id \in DOMAIN fields : \E i \in 1 .. added : l[base + i].id = id
  /\ added = 0 => maxId = 0 /\ prev = 0
  /\ added # 0 => maxId \in 2 .. IdLimit /\ prev = l[base + added].id

SparseContent(r, l, m) ==
  /\ SparseRun(r, l, m.start, m.base, m.added, m.fields, m.maxId, m.prev)
  /\ ~m.explicit => NoDefaults(m.fields)

(* What the entry of id tells in the metadata that ends at end.            *)
Entry(r, end, id) ==
  r[end + MetaPlace(id)] + IF IsTiny(id) THEN 0 ELSE ByteMod * r[end + MetaPlace(id) - 1]

PreallocatedContent(r, m) ==
  /\ DOMAIN m.fields \subseteq m.accounted
  /\ m.prevOffset = Cardinality(m.accounted) + 1 - Cardinality(DOMAIN m.fields)
  /\ m.prev = 0 => DOMAIN m.fields = {}
  /\ \A id \in DOMAIN m.fields : m.prev <= id
  /\ m.maxId = IF m.accounted = {} THEN 0 ELSE Max(m.accounted) + 1
  /\ r[m.base] = IF m.maxId = 0 THEN 2 ELSE SparseLimit(m.maxId)
  /\ \A id \in 1 .. m.maxId - 1 :
       IF id \in DOMAIN m.fields
         THEN /\ Entry(r, m.base + 1, id) \in m.prevOffset .. Cardinality(m.accounted)
              /\ r[m.base - Entry(r, m.base + 1, id)] = SparseWordOf(m.fields, id, m.base)
         ELSE Entry(r, m.base + 1, id) = 0
  /\ ~m.explicit => NoDefaults(m.fields)

MessageContent ==
  msg.is \in {"fixed", "flat", "sparse", "preallocated"} /\ ~msg.tainted =>
    /\ FieldsFit(msg.fields, msg.start)
    /\ msg.is = "fixed" => FixedContent(right, msg)
    /\ msg.is = "flat" => FlatContent(right, msg)
    /\ msg.is = "sparse" => SparseContent(right, left, msg)
    /\ msg.is = "preallocated" => PreallocatedContent(right, msg)

(* The elements of an open inline array lie MaxField words apart.          *)
Span(n) == MaxField * n

InlineContent ==
  inline.open =>
    /\ msg.is \in {"none", "valueless", "fixed"}
    /\ msg.is = "none" => Size \in {inline.before, inline.before + MaxField}
    /\ msg.is = "fixed" => msg.start = inline.before
    /\ inline.made # <<>> => inline.size = MaxField
    /\ \A k \in 1 .. Len(inline.made) :
         inline.made[k] = inline.before - Span(Len(inline.made) - k)

CInv == IInv /\ Content /\ MessageContent /\ InlineContent

-----------------------------------------------------------------------------
(* Arithmetic.                                                             *)

(* Taking the difference to a default twice gives the value back.          *)
LEMMA XorProperties ==
  ASSUME NEW v \in Scalar, NEW d \in Scalar
  PROVE  /\ Xor(v, d) \in Scalar /\ Xor(0, d) = d
         /\ Xor(v, d) = 0 <=> v = d
         /\ Xor(Xor(v, d), d) = v
  BY DEF Xor, Scalar

(* Every field has a default among the values.                             *)
LEMMA Defaults ==
  ASSUME NEW id \in Field
  PROVE  Default[id] \in Scalar
  BY SerializerAssumption

(* The words of fields are never taken for absent ones by mistake.         *)
LEMMA WordOfProperties ==
  ASSUME NEW fields, NEW start \in Nat, FieldsFit(fields, start),
         NEW at \in Nat, start < at, at <= MaxOffset, NEW id \in Field
  PROVE  /\ WordOf(fields, id, at) \in Int
         /\ id \notin DOMAIN fields => WordOf(fields, id, at) = 0
         /\ id \in DOMAIN fields /\ id \in RefFields =>
              WordOf(fields, id, at) = at - fields[id] /\ fields[id] \in Nat \ {0, at}
         /\ id \in DOMAIN fields /\ id \notin RefFields =>
              /\ WordOf(fields, id, at) = Xor(fields[id], Default[id])
              /\ fields[id] \in Scalar /\ Default[id] \in Scalar
<1>1. MaxOffset \in Nat
  BY SerializerAssumption
<1>2. CASE id \notin DOMAIN fields
  BY <1>2 DEF WordOf
<1>3. CASE id \in DOMAIN fields /\ id \in RefFields
  <2>1. fields[id] \in Nat \ {0} /\ (fields[id] <= start \/ fields[id] > MaxOffset)
    BY <1>3 DEF FieldsFit
  <2> QED
    BY <1>1, <1>3, <2>1 DEF WordOf
<1>4. CASE id \in DOMAIN fields /\ id \notin RefFields
  <2>1. fields[id] \in Scalar /\ Default[id] \in Scalar
    BY <1>4, Defaults DEF FieldsFit
  <2>2. Xor(fields[id], Default[id]) \in Scalar
    BY <2>1, XorProperties
  <2> QED
    BY <1>4, <2>1, <2>2 DEF WordOf, Scalar
<1> QED
  BY <1>2, <1>3, <1>4

(* Whatever flags a limit carries, the ids below it are those below maxId. *)
LEMMA Limits ==
  ASSUME NEW id \in Field, NEW maxId \in Nat
  PROVE  /\ FlatLimit(id) < FlatBit + 4 * maxId <=> id < maxId
         /\ FlatLimit(id) < FlatBit + 4 * maxId + 1 <=> id < maxId
         /\ FlatLimit(id) < FlatBit + 4 * maxId + 2 <=> id < maxId
         /\ FlatLimit(id) < FlatBit + 4 * maxId + 3 <=> id < maxId
         /\ SparseLimit(id) < SparseLimit(maxId) <=> id < maxId
         /\ ~(SparseLimit(id) < 2)
  BY WireAssumption DEF Field, FlatLimit, SparseLimit, FlatBit

-----------------------------------------------------------------------------
(* What the readers find, given the words.                                 *)

(* A word inside the buffer is read as it is.                              *)
LEMMA WordInside ==
  ASSUME NEW s \in Seq(Int), NEW k \in 1 .. Len(s)
  PROVE  Word(s, k) = s[k] /\ s[k] \in Int
  BY SeqFacts DEF Word

(* A fixed message.                                                        *)
FixedWords(s, o, fields) ==
  /\ s \in Seq(Int) /\ o \in MaxField .. Len(s)
  /\ \A id \in Field : s[o - FlatOffset(id)] = WordOf(fields, id, o)

(* A fixed message reads back from its words.                              *)
LEMMA FixedIsRead ==
  ASSUME NEW s, NEW o \in Nat, NEW fields, NEW start \in Nat,
         FieldsFit(fields, start), start < o, o <= MaxOffset, FixedWords(s, o, fields)
  PROVE  Reads(s, [off |-> o, kind |-> "fixed", body |-> fields])
<1> DEFINE x == [off |-> o, kind |-> "fixed", body |-> fields]
<1>1. x.off = o /\ x.kind = "fixed" /\ x.body = fields
  OBVIOUS
<1> HIDE DEF x
<1>2. ASSUME NEW id \in Field
      PROVE  FixedField(s, o, id) = WordOf(fields, id, o)
  <2>1. MaxField \in Nat /\ Len(s) \in Nat
    BY WireAssumption, SeqFacts DEF FixedWords
  <2>2. o - FlatOffset(id) \in 1 .. Len(s)
    BY <2>1 DEF FixedWords, Field, FlatOffset
  <2> QED
    BY <2>2, WordInside DEF FixedField, FixedWords
<1>3. ASSUME NEW id \in Field, id \in RefFields
      PROVE  FixedRef(s, o, id) = IF id \in DOMAIN fields THEN fields[id] ELSE 0
  <2>1. CASE id \in DOMAIN fields
    BY <1>2, <1>3, <2>1, WordOfProperties DEF FixedRef
  <2>2. CASE id \notin DOMAIN fields
    BY <1>2, <2>2, WordOfProperties DEF FixedRef
  <2> QED
    BY <2>1, <2>2
<1>4. ASSUME NEW id \in Field, id \notin RefFields
      PROVE  /\ FixedValue(s, o, id, Default[id])
                  = IF id \in DOMAIN fields THEN fields[id] ELSE Default[id]
             /\ FixedPresence(s, o, id) = (id \in DOMAIN fields /\ fields[id] # Default[id])
  <2>1. CASE id \in DOMAIN fields
    <3>1. /\ FixedField(s, o, id) = Xor(fields[id], Default[id])
          /\ fields[id] \in Scalar /\ Default[id] \in Scalar
      BY <1>2, <1>4, <2>1, WordOfProperties
    <3> QED
      BY <2>1, <3>1, XorProperties DEF FixedValue, FixedPresence
  <2>2. CASE id \notin DOMAIN fields
    <3>1. FixedField(s, o, id) = 0
      BY <1>2, <2>2, WordOfProperties
    <3> QED
      BY <2>2, <3>1, Defaults, XorProperties DEF FixedValue, FixedPresence, Scalar
  <2> QED
    BY <2>1, <2>2
<1>5. ReadsFixed(s, x)
  BY <1>1, <1>3, <1>4 DEF ReadsFixed
<1> QED
  BY <1>1, <1>5 DEF Reads, x

(* A flat message with its presence bits, or one that does without.        *)
FlatTypedLimit(maxId, sized, truly) ==
  FlatBit + 4 * maxId + (IF sized THEN 2 ELSE 0) + (IF truly THEN 1 ELSE 0)

FlatWords(s, o, fields, maxId, sized, truly) ==
  /\ s \in Seq(Int) /\ o \in 1 .. Len(s)
  /\ s[o] = FlatTypedLimit(maxId, sized, truly)
  /\ DOMAIN fields \subseteq IF maxId = 0 THEN {} ELSE 1 .. maxId - 1
  /\ maxId # 0 => /\ maxId <= o
                  /\ \A id \in 1 .. maxId - 1 : s[o - id] = WordOf(fields, id, o)
  /\ maxId # 0 /\ truly =>
       /\ o + maxId - 1 <= Len(s)
       /\ \A id \in 1 .. maxId - 1 : s[o + id] % 2 = IF id \in DOMAIN fields THEN 1 ELSE 0
  /\ ~truly => NoDefaults(fields)

(* The limit a flat message is finished with tells its kind and its ids.   *)
LEMMA TypedLimits ==
  ASSUME NEW id \in Field, NEW maxId \in Nat, NEW sized \in BOOLEAN, NEW truly \in BOOLEAN
  PROVE  /\ FlatTypedLimit(maxId, sized, truly) \in Nat
         /\ FlatLimit(id) < FlatTypedLimit(maxId, sized, truly) <=> id < maxId
         /\ IsFlat(FlatTypedLimit(maxId, sized, truly))
         /\ IsImplicit(FlatTypedLimit(maxId, sized, truly)) <=> ~truly
<1>1. CASE sized /\ truly
  BY <1>1, Limits DEF FlatTypedLimit, IsFlat, IsImplicit, FlatBit
<1>2. CASE sized /\ ~truly
  BY <1>2, Limits DEF FlatTypedLimit, IsFlat, IsImplicit, FlatBit
<1>3. CASE ~sized /\ truly
  BY <1>3, Limits DEF FlatTypedLimit, IsFlat, IsImplicit, FlatBit
<1>4. CASE ~sized /\ ~truly
  BY <1>4, Limits DEF FlatTypedLimit, IsFlat, IsImplicit, FlatBit
<1> QED
  BY <1>1, <1>2, <1>3, <1>4

FlatReading(s, o, fields, start, maxId, sized, truly) ==
  /\ o \in Nat /\ start \in Nat /\ maxId \in Nat /\ sized \in BOOLEAN /\ truly \in BOOLEAN
  /\ FieldsFit(fields, start) /\ start < o /\ o <= MaxOffset
  /\ FlatWords(s, o, fields, maxId, sized, truly)

(* What the accessors find of one field of a flat message.                 *)
LEMMA FlatFields ==
  ASSUME NEW s, NEW o, NEW fields, NEW start, NEW maxId, NEW sized, NEW truly,
         FlatReading(s, o, fields, start, maxId, sized, truly), NEW id \in Field
  PROVE  /\ HasFlat(s, o, id) <=> id < maxId
         /\ ~HasSparse(s, o, id)
         /\ id \in DOMAIN fields => id < maxId
         /\ id < maxId => FlatField(s, o, id) = WordOf(fields, id, o)
         /\ id < maxId => (IsImplicit(Word(s, o)) <=> ~truly)
         /\ id < maxId /\ truly =>
              Word(s, o + id) % 2 = IF id \in DOMAIN fields THEN 1 ELSE 0
<1> USE DEF FlatReading
<1>1. MaxField \in Nat /\ Len(s) \in Nat /\ id \in Nat \ {0} /\ s \in Seq(Int)
  BY WireAssumption, SeqFacts DEF FlatWords, Field
<1>2. Word(s, o) = FlatTypedLimit(maxId, sized, truly)
  BY WordInside DEF FlatWords
<1>3. HasFlat(s, o, id) <=> id < maxId
  BY <1>2, TypedLimits DEF HasFlat
<1>4. ~HasSparse(s, o, id)
  BY <1>2, TypedLimits DEF HasSparse
<1>5. id \in DOMAIN fields => id < maxId
  BY <1>1 DEF FlatWords
<1>6. ASSUME id < maxId
      PROVE  FlatField(s, o, id) = WordOf(fields, id, o)
  <2>1. o - id \in 1 .. Len(s) /\ s[o - id] = WordOf(fields, id, o)
    BY <1>1, <1>6 DEF FlatWords
  <2>2. o - 1 - FlatOffset(id) = o - id
    BY <1>1 DEF FlatOffset
  <2>3. Word(s, o - id) = s[o - id]
    BY <1>1, <2>1, WordInside
  <2> QED
    BY <2>1, <2>2, <2>3 DEF FlatField
<1>7. IsImplicit(Word(s, o)) <=> ~truly
  BY <1>2, TypedLimits
<1>8. ASSUME id < maxId, truly
      PROVE  Word(s, o + id) % 2 = IF id \in DOMAIN fields THEN 1 ELSE 0
  <2>1. /\ o + id \in 1 .. Len(s)
        /\ s[o + id] % 2 = IF id \in DOMAIN fields THEN 1 ELSE 0
    BY <1>1, <1>8 DEF FlatWords
  <2>2. Word(s, o + id) = s[o + id]
    BY <1>1, <2>1, WordInside
  <2> QED
    BY <2>1, <2>2
<1> QED
  BY <1>3, <1>4, <1>5, <1>6, <1>7, <1>8

(* What its reader says of one field.                                      *)
FieldRead(s, x, id) ==
  IF id \in RefFields
    THEN /\ ReadRef(s, x.off, id) = IF id \in DOMAIN x.body THEN x.body[id] ELSE 0
         /\ ReadPresence(s, x.off, id) = (id \in DOMAIN x.body)
    ELSE /\ ReadValue(s, x.off, id, Default[id])
              = IF id \in DOMAIN x.body THEN x.body[id] ELSE Default[id]
         /\ ReadPresence(s, x.off, id)
              = (id \in DOMAIN x.body /\ (x.kind = "explicit" \/ x.body[id] # Default[id]))

(* A finished flat message reads back, as explicit or as implicit.         *)
LEMMA FlatIsRead ==
  ASSUME NEW s, NEW o, NEW fields, NEW start, NEW maxId, NEW sized, NEW truly,
         FlatReading(s, o, fields, start, maxId, sized, truly),
         NEW kind \in {"explicit", "implicit"}, truly => kind = "explicit",
         kind = "implicit" => NoDefaults(fields)
  PROVE  Reads(s, [off |-> o, kind |-> kind, body |-> fields])
<1> DEFINE x == [off |-> o, kind |-> kind, body |-> fields]
<1>1. x.off = o /\ x.kind = kind /\ x.body = fields
  OBVIOUS
<1> HIDE DEF x
<1>2. /\ FieldsFit(fields, start) /\ start \in Nat /\ o \in Nat /\ start < o /\ o <= MaxOffset
      /\ truly \in BOOLEAN /\ (~truly => NoDefaults(fields))
  BY DEF FlatReading, FlatWords
<1>3. ASSUME NEW id \in Field, id \in RefFields
      PROVE  FieldRead(s, x, id)
  <2>1. /\ HasFlat(s, o, id) <=> id < maxId
        /\ ~HasSparse(s, o, id)
        /\ id \in DOMAIN fields => id < maxId
        /\ id < maxId => FlatField(s, o, id) = WordOf(fields, id, o)
        /\ id < maxId => (IsImplicit(Word(s, o)) <=> ~truly)
        /\ id < maxId /\ truly =>
             Word(s, o + id) % 2 = IF id \in DOMAIN fields THEN 1 ELSE 0
    BY FlatFields
  <2>2. CASE id \in DOMAIN fields
    <3>1. FlatField(s, o, id) = o - fields[id] /\ fields[id] \in Nat \ {0, o}
      BY <1>2, <1>3, <2>1, <2>2, WordOfProperties
    <3>2. FlatRef(s, o, id) = fields[id]
      BY <1>2, <3>1 DEF FlatRef
    <3>3. FlatPresence(s, o, id)
      BY <1>2, <2>1, <2>2, <3>1 DEF FlatPresence
    <3>4. ReadRef(s, o, id) = fields[id] /\ ReadPresence(s, o, id)
      BY <2>1, <2>2, <3>2, <3>3 DEF ReadRef, ReadPresence
    <3> QED
      BY <1>1, <1>3, <2>2, <3>4 DEF FieldRead, ReadPresence
  <2>3. CASE id \notin DOMAIN fields
    <3>1. id < maxId => FlatField(s, o, id) = 0
      BY <1>2, <2>1, <2>3, WordOfProperties
    <3>2. id < maxId => FlatRef(s, o, id) = 0
      BY <3>1 DEF FlatRef
    <3>3. id < maxId => ~FlatPresence(s, o, id)
      BY <1>2, <2>1, <2>3, <3>1 DEF FlatPresence
    <3>4. ReadRef(s, o, id) = 0 /\ ~ReadPresence(s, o, id)
      BY <2>1, <3>2, <3>3 DEF ReadRef, ReadPresence
    <3>5. ReadPresence(s, o, id) \in BOOLEAN
      BY DEF ReadPresence
    <3> QED
      BY <1>1, <1>3, <2>3, <3>4, <3>5 DEF FieldRead
  <2> QED
    BY <2>2, <2>3
<1>4. ASSUME NEW id \in Field, id \notin RefFields
      PROVE  FieldRead(s, x, id)
  <2>1. /\ HasFlat(s, o, id) <=> id < maxId
        /\ ~HasSparse(s, o, id)
        /\ id \in DOMAIN fields => id < maxId
        /\ id < maxId => FlatField(s, o, id) = WordOf(fields, id, o)
        /\ id < maxId => (IsImplicit(Word(s, o)) <=> ~truly)
        /\ id < maxId /\ truly =>
             Word(s, o + id) % 2 = IF id \in DOMAIN fields THEN 1 ELSE 0
    BY FlatFields
  <2>2. CASE id \in DOMAIN fields
    <3>1. /\ FlatField(s, o, id) = Xor(fields[id], Default[id])
          /\ fields[id] \in Scalar /\ Default[id] \in Scalar
      BY <1>2, <1>4, <2>1, <2>2, WordOfProperties
    <3>2. FlatValue(s, o, id, Default[id]) = fields[id]
      BY <3>1, XorProperties DEF FlatValue
    <3>3. ~truly => fields[id] # Default[id]
      BY <1>2, <1>4, <2>2 DEF NoDefaults
    <3>4. FlatField(s, o, id) = 0 <=> fields[id] = Default[id]
      BY <3>1, XorProperties
    <3>5. FlatPresence(s, o, id)
      BY <1>2, <2>1, <2>2, <3>3, <3>4 DEF FlatPresence
    <3>6. kind = "explicit" \/ fields[id] # Default[id]
      BY <3>3
    <3>7. ReadValue(s, o, id, Default[id]) = fields[id] /\ ReadPresence(s, o, id)
      BY <2>1, <2>2, <3>2, <3>5 DEF ReadValue, ReadPresence
    <3> QED
      BY <1>1, <1>4, <2>2, <3>6, <3>7 DEF FieldRead, ReadPresence
  <2>3. CASE id \notin DOMAIN fields
    <3>1. id < maxId => FlatField(s, o, id) = 0
      BY <1>2, <2>1, <2>3, WordOfProperties
    <3>2. id < maxId => FlatValue(s, o, id, Default[id]) = Default[id]
      BY <3>1, Defaults, XorProperties DEF FlatValue, Scalar
    <3>3. id < maxId => ~FlatPresence(s, o, id)
      BY <1>2, <2>1, <2>3, <3>1 DEF FlatPresence
    <3>4. ReadValue(s, o, id, Default[id]) = Default[id] /\ ~ReadPresence(s, o, id)
      BY <2>1, <3>2, <3>3 DEF ReadValue, ReadPresence
    <3> QED
      BY <1>1, <1>4, <2>3, <3>4 DEF FieldRead, ReadPresence
  <2> QED
    BY <2>2, <2>3
<1>5. ReadsMessage(s, x)
  BY <1>3, <1>4 DEF ReadsMessage, FieldRead
<1> QED
  BY <1>1, <1>5 DEF Reads, x

(* A sparse message, wherever its metadata is.                             *)
SparseWords(s, o, fields, maxId) ==
  /\ s \in Seq(Int) /\ o \in 1 .. Len(s)
  /\ maxId \in 0 .. IdLimit
  /\ s[o] = IF maxId = 0 THEN 2 ELSE SparseLimit(maxId)
  /\ DOMAIN fields \subseteq IF maxId = 0 THEN {} ELSE 1 .. maxId - 1
  /\ \A id \in 1 .. maxId - 1 :
       IF id \in DOMAIN fields
         THEN /\ SparseOffset(s, o, id) \in 1 .. o - 1
              /\ s[o - SparseOffset(s, o, id)] = SparseWordOf(fields, id, o)
         ELSE SparseOffset(s, o, id) = 0

(* What the accessors find of one field of a sparse message.               *)
LEMMA SparseFields ==
  ASSUME NEW s, NEW o \in Nat, NEW fields, NEW maxId, SparseWords(s, o, fields, maxId),
         NEW id \in Field
  PROVE  /\ ~HasFlat(s, o, id)
         /\ HasSparse(s, o, id) <=> id < maxId
         /\ id \in DOMAIN fields => id < maxId
         /\ id < maxId => (SparsePresence(s, o, id) <=> id \in DOMAIN fields)
         /\ id \in DOMAIN fields =>
              Word(s, o - SparseOffset(s, o, id)) = SparseWordOf(fields, id, o)
<1>1. /\ MaxField \in Nat /\ MaxField <= 8190 /\ Len(s) \in Nat /\ id \in Nat \ {0}
      /\ s \in Seq(Int) /\ maxId \in Nat /\ maxId <= 8191
  BY WireAssumption, SeqFacts DEF SparseWords, Field, IdLimit
<1>2. Word(s, o) = IF maxId = 0 THEN 2 ELSE SparseLimit(maxId)
  BY <1>1, WordInside DEF SparseWords
<1>3. Word(s, o) \in Nat /\ Word(s, o) < FlatBit
  BY <1>1, <1>2 DEF SparseLimit, FlatBit
<1>4. FlatLimit(id) > FlatBit
  BY <1>1 DEF FlatLimit, FlatBit
<1>5. ~HasFlat(s, o, id)
  BY <1>1, <1>3, <1>4 DEF HasFlat, FlatLimit, FlatBit
<1>6. HasSparse(s, o, id) <=> id < maxId
  <2>1. ~IsFlat(Word(s, o))
    BY <1>3 DEF IsFlat, FlatBit
  <2>2. SparseLimit(id) < Word(s, o) <=> id < maxId
    <3>1. /\ SparseLimit(id) < SparseLimit(maxId) <=> id < maxId
          /\ ~(SparseLimit(id) < 2)
      BY <1>1, Limits
    <3> QED
      BY <1>1, <1>2, <3>1
  <2> QED
    BY <2>1, <2>2 DEF HasSparse
<1>7. id \in DOMAIN fields => id < maxId
  BY <1>1 DEF SparseWords
<1>8. id < maxId => id \in 1 .. maxId - 1
  BY <1>1
<1>9. id < maxId => (SparsePresence(s, o, id) <=> id \in DOMAIN fields)
  BY <1>1, <1>8 DEF SparsePresence, SparseWords
<1>10. ASSUME id \in DOMAIN fields
       PROVE  Word(s, o - SparseOffset(s, o, id)) = SparseWordOf(fields, id, o)
  <2>1. /\ SparseOffset(s, o, id) \in 1 .. o - 1
        /\ s[o - SparseOffset(s, o, id)] = SparseWordOf(fields, id, o)
    BY <1>7, <1>8, <1>10 DEF SparseWords
  <2>2. o - SparseOffset(s, o, id) \in 1 .. Len(s)
    BY <1>1, <2>1, SMTT(30) DEF SparseWords
  <2> QED
    BY <1>1, <2>1, <2>2, WordInside
<1> QED
  BY <1>5, <1>6, <1>7, <1>9, <1>10

(* A finished sparse message reads back, wherever its table lies.          *)
LEMMA SparseIsRead ==
  ASSUME NEW s, NEW o \in Nat, NEW fields, NEW maxId, NEW start \in Nat,
         FieldsFit(fields, start), SparseWords(s, o, fields, maxId),
         NEW kind \in {"explicit", "implicit"}, kind = "implicit" => NoDefaults(fields)
  PROVE  Reads(s, [off |-> o, kind |-> kind, body |-> fields])
<1> DEFINE x == [off |-> o, kind |-> kind, body |-> fields]
<1>1. x.off = o /\ x.kind = kind /\ x.body = fields
  OBVIOUS
<1> HIDE DEF x
<1>2. ASSUME NEW id \in Field
      PROVE  ReadPresence(s, o, id) = (id \in DOMAIN fields)
  <2>1. ReadPresence(s, o, id) <=> id \in DOMAIN fields
    BY SparseFields DEF ReadPresence
  <2>2. ReadPresence(s, o, id) \in BOOLEAN
    BY DEF ReadPresence
  <2> QED
    BY <2>1, <2>2
<1>3. ASSUME NEW id \in Field, id \in RefFields
      PROVE  FieldRead(s, x, id)
  <2>1. /\ ~HasFlat(s, o, id) /\ (HasSparse(s, o, id) <=> id < maxId)
        /\ id \in DOMAIN fields => id < maxId
        /\ id < maxId => (SparsePresence(s, o, id) <=> id \in DOMAIN fields)
        /\ id \in DOMAIN fields =>
             Word(s, o - SparseOffset(s, o, id)) = SparseWordOf(fields, id, o)
    BY SparseFields
  <2>2. CASE id \in DOMAIN fields
    <3>1. fields[id] \in Nat
      BY <1>3, <2>2 DEF FieldsFit
    <3>2. Word(s, o - SparseOffset(s, o, id)) = o - fields[id]
      BY <1>3, <2>1, <2>2 DEF SparseWordOf
    <3>3. SparseRef(s, o, id) = fields[id]
      BY <2>1, <2>2, <3>1, <3>2 DEF SparseRef
    <3>4. ReadRef(s, o, id) = fields[id]
      BY <2>1, <2>2, <3>3 DEF ReadRef
    <3> QED
      BY <1>1, <1>2, <1>3, <2>2, <3>4 DEF FieldRead
  <2>3. CASE id \notin DOMAIN fields
    <3>1. ReadRef(s, o, id) = 0
      BY <2>1, <2>3 DEF ReadRef, SparseRef
    <3> QED
      BY <1>1, <1>2, <1>3, <2>3, <3>1 DEF FieldRead
  <2> QED
    BY <2>2, <2>3
<1>4. ASSUME NEW id \in Field, id \notin RefFields
      PROVE  FieldRead(s, x, id)
  <2>1. /\ ~HasFlat(s, o, id) /\ (HasSparse(s, o, id) <=> id < maxId)
        /\ id \in DOMAIN fields => id < maxId
        /\ id < maxId => (SparsePresence(s, o, id) <=> id \in DOMAIN fields)
        /\ id \in DOMAIN fields =>
             Word(s, o - SparseOffset(s, o, id)) = SparseWordOf(fields, id, o)
    BY SparseFields
  <2>2. CASE id \in DOMAIN fields
    <3>1. Word(s, o - SparseOffset(s, o, id)) = fields[id]
      BY <1>4, <2>1, <2>2 DEF SparseWordOf
    <3>2. SparseValue(s, o, id, Default[id]) = fields[id]
      BY <2>1, <2>2, <3>1 DEF SparseValue
    <3>3. ReadValue(s, o, id, Default[id]) = fields[id]
      BY <2>1, <2>2, <3>2 DEF ReadValue
    <3>4. kind = "explicit" \/ fields[id] # Default[id]
      BY <1>4, <2>2 DEF NoDefaults
    <3> QED
      BY <1>1, <1>2, <1>4, <2>2, <3>3, <3>4 DEF FieldRead
  <2>3. CASE id \notin DOMAIN fields
    <3>1. ReadValue(s, o, id, Default[id]) = Default[id]
      BY <2>1, <2>3 DEF ReadValue, SparseValue
    <3> QED
      BY <1>1, <1>2, <1>4, <2>3, <3>1 DEF FieldRead
  <2> QED
    BY <2>2, <2>3
<1>5. ReadsMessage(s, x)
  BY <1>3, <1>4 DEF ReadsMessage, FieldRead
<1> QED
  BY <1>1, <1>5 DEF Reads, x

-----------------------------------------------------------------------------
(* Arrays and strings: a block lies at o when its words do, one by one.    *)
BlockAt(s, o, block) ==
  /\ s \in Seq(Int) /\ block \in Seq(Int)
  /\ o \in Len(block) .. Len(s)
  /\ \A j \in 1 .. Len(block) : s[o - j + 1] = block[j]

(* A block of words reads back as a length and elements.                   *)
LEMMA BlockIsRead ==
  ASSUME NEW s, NEW o \in Nat, NEW block, BlockAt(s, o, block), Len(block) > 0
  PROVE  /\ Length(s, o) = block[1]
         /\ \A i \in 1 .. Len(block) - 1 : Word(s, Elements(o) - (i - 1)) = block[i + 1]
<1>1. Len(block) \in Nat /\ Len(s) \in Nat /\ s \in Seq(Int)
  BY SeqFacts DEF BlockAt
<1>2. ASSUME NEW j \in 1 .. Len(block)
      PROVE  o - j + 1 \in 1 .. Len(s) /\ s[o - j + 1] = block[j]
  BY <1>1 DEF BlockAt
<1>3. Length(s, o) = block[1]
  <2>1. 1 \in 1 .. Len(block) /\ o - 1 + 1 = o
    BY <1>1
  <2>2. o \in 1 .. Len(s) /\ s[o] = block[1]
    BY <1>2, <2>1
  <2> QED
    BY <1>1, <2>2, WordInside DEF Length
<1>4. ASSUME NEW i \in 1 .. Len(block) - 1
      PROVE  Word(s, Elements(o) - (i - 1)) = block[i + 1]
  <2> DEFINE k == o - (i + 1) + 1
  <2>1. i + 1 \in 1 .. Len(block) /\ Elements(o) - (i - 1) = k
    BY <1>1 DEF Elements
  <2>2. k \in 1 .. Len(s) /\ s[k] = block[i + 1]
    BY <1>2, <2>1
  <2> HIDE DEF k
  <2> QED
    BY <1>1, <2>1, <2>2, WordInside
<1> QED
  BY <1>3, <1>4

(* An array of scalars reads back.                                         *)
LEMMA ScalarsAreRead ==
  ASSUME NEW s, NEW o \in Nat, NEW v \in Seq(Scalar), BlockAt(s, o, <<Len(v)>> \o v)
  PROVE  Reads(s, [off |-> o, kind |-> "scalars", body |-> v])
<1> DEFINE x == [off |-> o, kind |-> "scalars", body |-> v]
           block == <<Len(v)>> \o v
<1>1. x.off = o /\ x.kind = "scalars" /\ x.body = v
  OBVIOUS
<1>2. Len(v) \in Nat /\ DOMAIN v = 1 .. Len(v)
  BY SeqFacts
<1>3. /\ Len(block) = Len(v) + 1 /\ block[1] = Len(v)
      /\ \A i \in 1 .. Len(v) : block[i + 1] = v[i]
  BY <1>2
<1> HIDE DEF x, block
<1>4. BlockAt(s, o, block)
  BY DEF block
<1>5. /\ Length(s, o) = Len(v)
      /\ \A i \in 1 .. Len(v) : ScalarAt(s, o, i - 1) = v[i]
  <2>1. Len(block) > 0
    BY <1>2, <1>3
  <2>2. /\ Length(s, o) = block[1]
        /\ \A i \in 1 .. Len(block) - 1 : Word(s, Elements(o) - (i - 1)) = block[i + 1]
    BY ONLY <1>4, <2>1, o \in Nat, BlockIsRead
  <2> QED
    BY <1>2, <1>3, <2>2 DEF ScalarAt
<1>6. ReadsScalars(s, x)
  BY <1>1, <1>2, <1>5 DEF ReadsScalars
<1>7. ReadsArray(s, x)
  BY <1>1, <1>5, <1>6 DEF ReadsArray
<1> QED
  BY <1>1, <1>7 DEF Reads, x

(* A string reads back, its terminator included.                           *)
LEMMA StringIsRead ==
  ASSUME NEW s, NEW o \in Nat, NEW v \in Seq(Scalar), BlockAt(s, o, <<Len(v)>> \o v \o << 0 >>)
  PROVE  Reads(s, [off |-> o, kind |-> "string", body |-> v])
<1> DEFINE x == [off |-> o, kind |-> "string", body |-> v]
           block == <<Len(v)>> \o v \o << 0 >>
<1>1. x.off = o /\ x.kind = "string" /\ x.body = v
  OBVIOUS
<1>2. Len(v) \in Nat /\ DOMAIN v = 1 .. Len(v)
  BY SeqFacts
<1>3. /\ Len(block) = Len(v) + 2 /\ block[1] = Len(v)
      /\ \A i \in 1 .. Len(v) : block[i + 1] = v[i]
      /\ block[Len(v) + 2] = 0
  BY <1>2
<1> HIDE DEF x, block
<1>4. BlockAt(s, o, block)
  BY DEF block
<1>5. /\ Length(s, o) = block[1]
      /\ \A i \in 1 .. Len(block) - 1 : ScalarAt(s, o, i - 1) = block[i + 1]
  <2>1. Len(block) > 0
    BY <1>2, <1>3
  <2>2. /\ Length(s, o) = block[1]
        /\ \A i \in 1 .. Len(block) - 1 : Word(s, Elements(o) - (i - 1)) = block[i + 1]
    BY ONLY <1>4, <2>1, o \in Nat, BlockIsRead
  <2> QED
    BY <1>2, <1>3, <2>2 DEF ScalarAt
<1>6. /\ Length(s, o) = Len(v)
      /\ \A i \in 1 .. Len(v) : ScalarAt(s, o, i - 1) = v[i]
  BY <1>2, <1>3, <1>5
<1>7. ScalarAt(s, o, Len(v)) = 0
  <2> DEFINE i == Len(v) + 1
  <2>1. i \in 1 .. Len(block) - 1 /\ i - 1 = Len(v) /\ block[i + 1] = 0
    BY <1>2, <1>3
  <2>2. ScalarAt(s, o, i - 1) = block[i + 1]
    BY <1>5, <2>1
  <2> HIDE DEF i
  <2> QED
    BY <2>1, <2>2
<1>8. ReadsScalars(s, x)
  BY <1>1, <1>2, <1>6 DEF ReadsScalars
<1>9. ReadsArray(s, x)
  BY <1>1, <1>6, <1>7, <1>8 DEF ReadsArray
<1> QED
  BY <1>1, <1>9 DEF Reads, x

(* Every element of an array of offsets counts from the first one.         *)
Relative(first, list) == [i \in DOMAIN list |-> IF list[i] = 0 THEN 0 ELSE first - list[i]]

(* An array of offsets reads back: each is relative to its own place.      *)
LEMMA RefsAreRead ==
  ASSUME NEW s, NEW o \in Nat, NEW list \in Seq(Nat),
         BlockAt(s, o, <<Len(list)>> \o Relative(o - 1, list))
  PROVE  Reads(s, [off |-> o, kind |-> "refs", body |-> list])
<1> DEFINE x == [off |-> o, kind |-> "refs", body |-> list]
           words == Relative(o - 1, list)
           block == <<Len(list)>> \o words
<1>1. x.off = o /\ x.kind = "refs" /\ x.body = list
  OBVIOUS
<1>2. Len(list) \in Nat /\ DOMAIN list = 1 .. Len(list) /\ \A i \in 1 .. Len(list) : list[i] \in Nat
  BY SeqFacts
<1>3. /\ words \in Seq(Int) /\ Len(words) = Len(list)
      /\ \A i \in 1 .. Len(list) : words[i] = IF list[i] = 0 THEN 0 ELSE o - 1 - list[i]
  BY <1>2 DEF Relative
<1>4. BlockAt(s, o, block)
  OBVIOUS
<1> HIDE DEF x, words
<1>5. /\ Len(block) = Len(list) + 1 /\ block[1] = Len(list)
      /\ \A i \in 1 .. Len(list) : block[i + 1] = words[i]
  BY <1>2, <1>3
<1> HIDE DEF block
<1>6. /\ Length(s, o) = Len(list)
      /\ \A i \in 1 .. Len(list) : Word(s, Elements(o) - (i - 1)) = words[i]
  <2>1. Len(block) > 0
    BY <1>2, <1>5
  <2>2. /\ Length(s, o) = block[1]
        /\ \A i \in 1 .. Len(block) - 1 : Word(s, Elements(o) - (i - 1)) = block[i + 1]
    BY ONLY <1>4, <2>1, o \in Nat, BlockIsRead
  <2> QED
    BY <1>2, <1>3, <1>5, <2>2
<1>7. ASSUME NEW i \in 1 .. Len(list), list[i] # 0
      PROVE  RefAt(s, o, i - 1) = list[i]
  BY <1>2, <1>3, <1>6, <1>7 DEF RefAt, Elements
<1>8. ReadsArray(s, x)
  BY <1>1, <1>2, <1>6, <1>7 DEF ReadsArray
<1> QED
  BY <1>1, <1>8 DEF Reads, x

-----------------------------------------------------------------------------
(* What was settled stays settled.                                         *)

Grown == Kept /\ Floor \in Nat /\ Floor' \in Nat /\ Floor <= Floor'

(* A call that keeps the words below the floor never lowers it.            *)
LEMMA FloorGrows ==
  ASSUME IInv, IInv', Kept,
         \/ msg'.is \in {"none", "valueless"}
         \/ msg'.is \in OpenKinds /\ msg'.start = Floor
  PROVE  Grown
<1>1. Floor \in Nat
  BY FloorType DEF IInv
<1>2. Size' \in Nat
  <2>1. right' \in Seq(Int)
    BY DEF Kept
  <2> QED
    BY <2>1, SeqFacts DEF Size
<1>3. Floor' = Size' \/ Floor' = Floor
  BY FloorCases DEF OpenKinds
<1> QED
  BY <1>1, <1>2, <1>3 DEF Grown, Kept

(* What is settled stays so.                                               *)
LEMMA SettledStays ==
  ASSUME NEW x, Settled(x, right, Floor), Grown
  PROVE  Settled(x, right', Floor')
<1> SUFFICES ASSUME NEW s \in Seq(Int), Agree(s, right', Floor')
             PROVE  Reads(s, x)
  BY DEF Settled
<1>1. Len(s) \in Nat
  BY SeqFacts
<1>2. Agree(s, right, Floor)
  BY <1>1 DEF Agree, Grown, Kept
<1> QED
  BY <1>2 DEF Settled

(* A call that promises nothing new keeps all promises.                    *)
LEMMA ContentKept ==
  ASSUME Content, Grown, objects' = objects
  PROVE  Content'
<1>1. ASSUME NEW x \in objects PROVE Settled(x, right', Floor')
  BY <1>1, SettledStays DEF Content
<1> QED
  BY <1>1 DEF Content

(* A call that promises one settled object keeps all promises.             *)
LEMMA ContentPromised ==
  ASSUME Content, Grown, NEW o, NEW kind, NEW body, Promise(o, kind, body),
         Settled([off |-> o, kind |-> kind, body |-> body], right', Floor')
  PROVE  Content'
<1>1. ASSUME NEW x \in objects PROVE Settled(x, right', Floor')
  BY <1>1, SettledStays DEF Content
<1>2. objects' = objects \cup {[off |-> o, kind |-> kind, body |-> body]}
  BY DEF Promise
<1> QED
  BY <1>1, <1>2 DEF Content

(* Nothing is required of a message that is not open.                      *)
LEMMA NoMessageContent ==
  ASSUME msg' \in {None, Valueless}
  PROVE  MessageContent'
  BY DEF MessageContent, None, Valueless

(* Nothing is required of an array that is not open.                       *)
LEMMA ClosedContent ==
  ASSUME inline' = Closed
  PROVE  InlineContent'
  BY DEF InlineContent, Closed

-----------------------------------------------------------------------------
(* Strings and arrays.                                                     *)

(* A block on top of the stack, and one of its twins further down.         *)
LEMMA PushedBlock ==
  ASSUME NEW r0 \in Seq(Int), NEW block \in Seq(Int),
         NEW s \in Seq(Int), NEW n \in Nat, Agree(s, Push(r0, block), n),
         NEW e \in Len(block) .. n, n <= Len(Push(r0, block)),
         Block(Push(r0, block), e, Len(block))
           = Block(Push(r0, block), Len(Push(r0, block)), Len(block))
  PROVE  BlockAt(s, e, block)
<1> DEFINE r == Push(r0, block)
           size == Len(block)
<1>1. Len(s) \in Nat /\ size \in Nat /\ Len(r0) \in Nat
  BY SeqFacts
<1>2. /\ r \in Seq(Int) /\ Len(r) = Len(r0) + size
      /\ \A k \in 1 .. size : r[Len(r0) + k] = block[size - k + 1]
  BY PushProperties
<1>3. /\ Agree(s, r, n) /\ n <= Len(r)
      /\ Block(r, e, size) = Block(r, Len(r), size) /\ e \in size .. n
  OBVIOUS
<1> HIDE DEF r, size
<1>4. ASSUME NEW j \in 1 .. size
      PROVE  s[e - j + 1] = block[j]
  <2> DEFINE k == size - j + 1
  <2>1. k \in 1 .. size /\ size - k + 1 = j /\ k = size - j + 1
    BY <1>1
  <2> HIDE DEF k
  <2>2. Block(r, e, size)[k] = r[e - size + k]
    <3>1. e \in 0 .. Len(r) /\ size \in 0 .. e
      BY <1>1, <1>2, <1>3, SMTT(30)
    <3> QED
      BY <1>2, <2>1, <3>1, BlockProperties
  <2>3. Block(r, Len(r), size)[k] = r[Len(r) - size + k]
    <3>1. Len(r) \in 0 .. Len(r) /\ size \in 0 .. Len(r)
      BY <1>1, <1>2
    <3> QED
      BY <1>2, <2>1, <3>1, BlockProperties
  <2>4. r[Len(r0) + k] = block[j] /\ Len(r) - size + k = Len(r0) + k
    <3>1. r[Len(r0) + k] = block[size - k + 1]
      BY ONLY <1>2, <2>1
    <3>2. size - k + 1 = j
      BY <2>1
    <3>3. Len(r) - size + k = Len(r0) + k
      BY <1>1, <1>2, <2>1
    <3> QED
      BY ONLY <3>1, <3>2, <3>3
  <2>5. e - size + k = e - j + 1 /\ e - j + 1 \in 1 .. n
    BY <1>1, <1>3, <2>1
  <2>6. s[e - j + 1] = r[e - j + 1]
    BY <1>3, <2>5 DEF Agree
  <2> QED
    BY <1>3, <2>2, <2>3, <2>4, <2>5, <2>6
<1>5. e \in size .. Len(s)
  BY <1>1, <1>3 DEF Agree
<1> QED
  BY <1>4, <1>5 DEF BlockAt, size

(* An object that replaces an equal one of the pool is found in its place. *)
LEMMA DeduplicatedContent ==
  ASSUME CInv, IInv', Kept, NotFinished, NotNested,
         NEW block \in Seq(Int), Len(block) > 0, NEW kind, NEW body,
         Deduplicated(Push(right, block), kind, body),
         UNCHANGED <<left, msg, depth, inline, finished, forced, root>>,
         \A s \in Seq(Int), o \in Nat :
           BlockAt(s, o, block) => Reads(s, [off |-> o, kind |-> kind, body |-> body])
  PROVE  CInv'
<1> DEFINE r == Push(right, block)
           size == Len(block)
<1>1. msg = None /\ inline = Closed /\ Floor = Size
  BY Unnested DEF CInv
<1>2. right \in Seq(Int) /\ Size \in Nat /\ size \in Nat
  BY SeqFacts DEF CInv, IInv, ScalarsInv, Size
<1>3. /\ r \in Seq(Int) /\ Len(r) = Size + size
      /\ \A k \in 1 .. Size : r[k] = right[k]
  BY <1>2, PushProperties DEF Size
<1>4. msg' = None /\ inline' = Closed /\ msg'.is = "none" /\ Floor' = Size'
  BY <1>1, FloorCases DEF None
<1>5. Grown
  BY <1>4, FloorGrows DEF CInv
<1>6. Len(r) - Size = size
  BY <1>2, <1>3
<1>7. Deduplicated(r, kind, body)
  OBVIOUS
<1>8. ASSUME NEW s \in Seq(Int), NEW n \in Nat, Agree(s, r, n), n <= Len(r),
             NEW e \in size .. n, Block(r, e, size) = Block(r, Len(r), size)
      PROVE  Reads(s, [off |-> e, kind |-> kind, body |-> body])
  <2>1. BlockAt(s, e, block)
    BY <1>2, <1>8, PushedBlock
  <2> QED
    BY <1>2, <2>1
<1>9. Pop(r, size) \in Seq(Int) /\ Len(Pop(r, size)) = Size
      /\ \A k \in 1 .. Size : Pop(r, size)[k] = r[k]
  <2>1. size \in 0 .. Len(r) /\ Len(r) - size = Size
    BY <1>2, <1>3
  <2> HIDE DEF r, size
  <2> QED
    BY <1>3, <2>1, PopProperties
<1> HIDE DEF r, size
<1>10. Content'
  <2>1. CASE objects' = objects
    BY <1>5, <2>1, ContentKept DEF CInv
  <2>2. ASSUME NEW e \in Twins(r, size), right' = Pop(r, size), Promise(e.off, kind, body)
        PROVE  Content'
    <3>1. e \in pool /\ e.size = size /\ Block(r, e.off, size) = Block(r, Len(r), size)
      BY <2>2 DEF Twins
    <3>2. e.off \in 0 .. Size /\ size <= e.off
      BY <1>1, <3>1 DEF CInv, IInv, PoolInv
    <3>3. Size' = Size
      BY <1>9, <2>2 DEF Size
    <3>4. ASSUME NEW s \in Seq(Int), Agree(s, right', Floor')
          PROVE  Reads(s, [off |-> e.off, kind |-> kind, body |-> body])
      <4>1. Agree(s, r, Size)
        BY <1>4, <1>9, <2>2, <3>3, <3>4 DEF Agree
      <4>2. e.off \in size .. Size /\ Size <= Len(r)
        BY <1>2, <1>3, <3>2
      <4> QED
        BY <1>2, <1>8, <3>1, <4>1, <4>2
    <3>5. Settled([off |-> e.off, kind |-> kind, body |-> body], right', Floor')
      BY <3>4 DEF Settled
    <3> QED
      BY <1>5, <2>2, <3>5, ContentPromised DEF CInv
  <2>3. ASSUME right' = r, Promise(Len(r), kind, body)
        PROVE  Content'
    <3>1. Size' = Len(r) /\ Len(r) \in Nat
      BY <1>2, <1>3, <2>3 DEF Size
    <3>2. ASSUME NEW s \in Seq(Int), Agree(s, right', Floor')
          PROVE  Reads(s, [off |-> Len(r), kind |-> kind, body |-> body])
      <4>1. Agree(s, r, Len(r)) /\ Len(r) \in size .. Len(r)
        BY <1>2, <1>3, <1>4, <2>3, <3>1, <3>2
      <4> QED
        BY <1>8, <3>1, <4>1
    <3>3. Settled([off |-> Len(r), kind |-> kind, body |-> body], right', Floor')
      BY <3>2 DEF Settled
    <3> QED
      BY <1>5, <2>3, <3>3, ContentPromised DEF CInv
  <2>4. \/ objects' = objects
        \/ right' = Pop(r, size) /\ \E e \in Twins(r, size) : Promise(e.off, kind, body)
        \/ right' = r /\ Promise(Len(r), kind, body)
    BY <1>6, <1>7 DEF Deduplicated
  <2> QED
    BY <2>1, <2>2, <2>3, <2>4
<1> QED
  BY <1>4, <1>10, NoMessageContent, ClosedContent DEF CInv

LEMMA SerializeStringContent ==
  ASSUME CInv, IInv', Kept, NEW v \in Strings, SerializeString(v)
  PROVE  CInv'
<1> DEFINE block == <<Len(v)>> \o v \o << 0 >>
<1>1. v \in Seq(Scalar) /\ v \in Seq(Int) /\ Len(v) \in Nat
  BY SerializerAssumption, ScalarSeqs, SeqFacts
<1>2. block \in Seq(Int) /\ Len(block) > 0
  <2>1. <<Len(v)>> \in Seq(Int) /\ Len(<<Len(v)>>) = 1 /\ << 0 >> \in Seq(Int) /\ Len(<<0>>) = 1
    BY <1>1
  <2>2. <<Len(v)>> \o v \in Seq(Int) /\ Len(<<Len(v)>> \o v) = 1 + Len(v)
    BY <1>1, <2>1, ConcatFacts
  <2> QED
    BY <1>1, <2>1, <2>2, ConcatFacts
<1>3. /\ NotFinished /\ NotNested
      /\ Deduplicated(Push(right, block), "string", v)
      /\ UNCHANGED <<left, msg, depth, inline, finished, forced, root>>
  BY DEF SerializeString
<1>4. \A s \in Seq(Int), o \in Nat :
        BlockAt(s, o, block) => Reads(s, [off |-> o, kind |-> "string", body |-> v])
  BY <1>1, StringIsRead
<1> HIDE DEF block
<1> QED
  BY <1>2, <1>3, <1>4, DeduplicatedContent

LEMMA SerializeArrayContent ==
  ASSUME CInv, IInv', Kept, NEW v \in Vectors, SerializeArray(v)
  PROVE  CInv'
<1> DEFINE block == <<Len(v)>> \o v
<1>1. v \in Seq(Scalar) /\ v \in Seq(Int) /\ Len(v) \in Nat
  BY SerializerAssumption, ScalarSeqs, SeqFacts
<1>2. block \in Seq(Int) /\ Len(block) > 0
  <2>1. <<Len(v)>> \in Seq(Int) /\ Len(<<Len(v)>>) = 1
    BY <1>1
  <2> QED
    BY <1>1, <2>1, ConcatFacts
<1>3. /\ NotFinished /\ NotNested
      /\ Deduplicated(Push(right, block), "scalars", v)
      /\ UNCHANGED <<left, msg, depth, inline, finished, forced, root>>
  BY DEF SerializeArray
<1>4. \A s \in Seq(Int), o \in Nat :
        BlockAt(s, o, block) => Reads(s, [off |-> o, kind |-> "scalars", body |-> v])
  BY <1>1, ScalarsAreRead
<1> HIDE DEF block
<1> QED
  BY <1>2, <1>3, <1>4, DeduplicatedContent

(* A block on top of the stack is where its offset says.                   *)
LEMMA TopBlock ==
  ASSUME NEW r0 \in Seq(Int), NEW block \in Seq(Int),
         NEW s \in Seq(Int), Agree(s, Push(r0, block), Len(Push(r0, block)))
  PROVE  BlockAt(s, Len(r0) + Len(block), block)
<1>1. Len(block) \in Nat /\ Len(r0) \in Nat
  BY SeqFacts
<1> DEFINE n == Len(Push(r0, block))
<1>2. n = Len(r0) + Len(block)
  BY PushProperties
<1>3. Agree(s, Push(r0, block), n) /\ n <= Len(Push(r0, block))
      /\ Block(Push(r0, block), n, Len(block))
           = Block(Push(r0, block), Len(Push(r0, block)), Len(block))
  BY <1>1, <1>2
<1> HIDE DEF n
<1>4. n \in Len(block) .. n /\ n \in Nat
  BY <1>1, <1>2
<1>5. BlockAt(s, n, block)
  BY <1>3, <1>4, PushedBlock
<1> QED
  BY <1>2, <1>5

LEMMA SerializeOffsetsContent ==
  ASSUME CInv, IInv', Kept, NEW n \in RefLists, NEW list \in [1 .. n -> RefInputs],
         SerializeOffsets(list)
  PROVE  CInv'
<1> DEFINE end == Size + Len(list) + 1
           words == Relative(end - 1, list)
           block == <<Len(list)>> \o words
<1>1. n \in Nat \ {0} /\ Len(list) = n /\ DOMAIN list = 1 .. n
  BY SerializerAssumption
<1>2. list \in Seq(Nat)
  <2>1. \A i \in 1 .. n : list[i] \in Nat
    BY RefInputsType DEF CInv, IInv
  <2> QED
    BY <1>1, <2>1
<1>3. /\ msg = None /\ inline = Closed /\ msg' = None /\ inline' = Closed
      /\ msg'.is = "none" /\ Floor' = Size'
  BY Unnested, FloorCases DEF CInv, SerializeOffsets, NotFinished, None
<1>4. Grown
  BY <1>3, FloorGrows DEF CInv
<1>5. right \in Seq(Int) /\ Size \in Nat /\ Len(right) = Size
  BY SeqFacts DEF CInv, IInv, ScalarsInv, Size
<1>6. words \in Seq(Int) /\ Len(words) = n
  BY <1>1, <1>2, <1>5 DEF Relative
<1>7. block \in Seq(Int) /\ Len(block) = n + 1
  <2>1. <<Len(list)>> \in Seq(Int) /\ Len(<<Len(list)>>) = 1
    BY <1>1
  <2> HIDE DEF words
  <2> QED
    BY <1>1, <1>6, <2>1, ConcatFacts
<1>8. \/ objects' = objects
      \/ right' = Push(right, block) /\ Promise(end, "refs", list)
  BY DEF SerializeOffsets, Relative
<1> HIDE DEF block
<1>9. ASSUME right' = Push(right, block), Promise(end, "refs", list)
      PROVE  Content'
  <2>1. ASSUME NEW s \in Seq(Int), Agree(s, right', Floor')
        PROVE  Reads(s, [off |-> end, kind |-> "refs", body |-> list])
    <3>1. Agree(s, Push(right, block), Len(Push(right, block)))
      BY <1>3, <1>9, <2>1 DEF Size
    <3>2. BlockAt(s, Len(right) + Len(block), block)
      BY <1>5, <1>7, <3>1, TopBlock
    <3>3. Len(right) + Len(block) = end /\ end \in Nat
      BY <1>1, <1>5, <1>7
    <3>4. BlockAt(s, end, block)
      BY <3>2, <3>3
    <3> QED
      BY <1>2, <3>3, <3>4, RefsAreRead DEF block
  <2>2. Settled([off |-> end, kind |-> "refs", body |-> list], right', Floor')
    BY <2>1 DEF Settled
  <2> QED
    BY <1>4, <1>9, <2>2, ContentPromised DEF CInv
<1>10. Content'
  BY <1>4, <1>8, <1>9, ContentKept DEF CInv
<1> QED
  BY <1>3, <1>10, NoMessageContent, ClosedContent DEF CInv

-----------------------------------------------------------------------------
(* Arrays of inline elements.                                              *)

(* The words of n elements of an inline array.                             *)
LEMMA SpanProperties ==
  ASSUME NEW n \in Nat
  PROVE  /\ Span(n) \in Nat /\ Span(0) = 0
         /\ Span(n + 1) = Span(n) + MaxField
  BY WireAssumption DEF Span

(* The element just written has its place n elements before the end.       *)
LEMMA InlineElements ==
  ASSUME IInv, InlineContent, inline.open, msg = None,
         IF inline.made = <<>> THEN Size - inline.before > 0
                               ELSE Size - inline.before = inline.size
  PROVE  /\ Size = inline.before + MaxField /\ Size \in Nat
         /\ Append(inline.made, Size) \in Seq(Int)
         /\ Len(Append(inline.made, Size)) = Len(inline.made) + 1 /\ Len(inline.made) \in Nat
         /\ \A k \in 1 .. Len(inline.made) + 1 :
              Append(inline.made, Size)[k] = Size - Span(Len(inline.made) + 1 - k)
<1> DEFINE made == inline.made
<1>1. /\ made \in Seq(Int) /\ inline.before \in Nat /\ Len(made) \in Nat
      /\ Size \in Nat /\ MaxField \in Nat \ {0}
  <2>1. inline \in InlineArray /\ right \in Seq(Int)
    BY DEF IInv, ScalarsInv, Closed
  <2> QED
    BY <2>1, SeqFacts, WireAssumption DEF InlineArray, Size
<1>2. Size = inline.before + MaxField
  BY <1>1 DEF InlineContent, None
<1>3. \A k \in 1 .. Len(made) : made[k] = inline.before - Span(Len(made) - k)
  BY DEF InlineContent
<1> HIDE DEF made
<1>4. /\ Append(made, Size) \in Seq(Int) /\ Len(Append(made, Size)) = Len(made) + 1
      /\ \A k \in 1 .. Len(made) : Append(made, Size)[k] = made[k]
      /\ Append(made, Size)[Len(made) + 1] = Size
  BY <1>1
<1>5. ASSUME NEW k \in 1 .. Len(made) + 1
      PROVE  Append(made, Size)[k] = Size - Span(Len(made) + 1 - k)
  <2>1. CASE k = Len(made) + 1
    <3>1. Len(made) + 1 - k = 0 /\ Span(0) = 0
      BY <1>1, <2>1, SpanProperties
    <3> QED
      BY <1>1, <1>4, <2>1, <3>1
  <2>2. CASE k # Len(made) + 1
    <3> DEFINE n == Len(made) - k
    <3>1. k \in 1 .. Len(made) /\ n \in Nat /\ Len(made) + 1 - k = n + 1
      BY <1>1, <2>2
    <3>2. Append(made, Size)[k] = inline.before - Span(n)
      BY <1>3, <1>4, <3>1
    <3> HIDE DEF n
    <3>3. Span(n) \in Nat /\ Span(n + 1) = Span(n) + MaxField
      BY <3>1, SpanProperties
    <3>4. Size - Span(n + 1) = inline.before - Span(n)
      BY <1>1, <1>2, <3>3
    <3> QED
      BY <3>1, <3>2, <3>4
  <2> QED
    BY <2>1, <2>2
<1> QED
  BY <1>1, <1>2, <1>4, <1>5 DEF made

LEMMA StartInlineContent ==
  ASSUME CInv, IInv', Kept, StartInline
  PROVE  CInv'
<1>1. /\ msg = None /\ msg' = None /\ msg'.is = "none" /\ Size' = Size
      /\ inline' = [open |-> TRUE, before |-> Size, size |-> 0, made |-> <<>>]
      /\ objects' = objects
  BY Unnested DEF CInv, StartInline, None, Size
<1>2. Grown
  BY <1>1, FloorGrows DEF CInv
<1>3. Content'
  BY <1>1, <1>2, ContentKept DEF CInv
<1>4. InlineContent'
  <2>1. inline'.made = <<>> /\ inline'.before = Size' /\ Len(inline'.made) = 0
    BY <1>1
  <2> QED
    BY <1>1, <2>1 DEF InlineContent
<1> QED
  BY <1>1, <1>3, <1>4, NoMessageContent DEF CInv

LEMMA NextElementContent ==
  ASSUME CInv, IInv', Kept, NextElement
  PROVE  CInv'
<1> DEFINE made == Append(inline.made, Size)
<1>1. /\ inline.open /\ msg = None /\ msg' = None /\ msg'.is = "none" /\ Size' = Size
      /\ IF inline.made = <<>> THEN Size - inline.before > 0
                               ELSE Size - inline.before = inline.size
      /\ inline' = [inline EXCEPT !.before = Size, !.size = Size - inline.before, !.made = made]
      /\ objects' = objects
  BY DEF NextElement, None, Size
<1>2. Grown
  BY <1>1, FloorGrows DEF CInv
<1>3. Content'
  BY <1>1, <1>2, ContentKept DEF CInv
<1>4. /\ Size = inline.before + MaxField /\ Size \in Nat
      /\ made \in Seq(Int) /\ Len(made) = Len(inline.made) + 1
      /\ \A k \in 1 .. Len(made) : made[k] = Size - Span(Len(made) - k)
  BY <1>1, InlineElements DEF CInv
<1>5. /\ inline'.before = Size /\ inline'.size = Size - inline.before /\ inline'.made = made
      /\ inline.before \in Nat
  <2>1. inline \in InlineArray
    BY <1>1 DEF CInv, IInv, ScalarsInv, Closed
  <2> HIDE DEF made
  <2> QED
    BY <1>1, <2>1 DEF InlineArray
<1>6. MaxField \in Nat
  BY WireAssumption
<1> HIDE DEF made
<1>7. InlineContent'
  BY <1>1, <1>4, <1>5, <1>6 DEF InlineContent
<1> QED
  BY <1>1, <1>3, <1>7, NoMessageContent DEF CInv

(* An array of inline messages reads back, element by element.             *)
LEMMA InlineIsRead ==
  ASSUME NEW s \in Seq(Int), NEW o \in 1 .. Len(s), NEW body \in Seq(Int), s[o] = Len(body),
         \A i \in 1 .. Len(body) : body[i] = o - 1 - Span(i - 1)
  PROVE  Reads(s, [off |-> o, kind |-> "inline", body |-> body])
<1> DEFINE x == [off |-> o, kind |-> "inline", body |-> body]
<1>1. x.off = o /\ x.kind = "inline" /\ x.body = body /\ DOMAIN body = 1 .. Len(body)
  BY SeqFacts
<1> HIDE DEF x
<1>2. Length(s, o) = Len(body)
  BY WordInside DEF Length
<1>3. \A i \in 1 .. Len(body) : InlineAt(o, i - 1, MaxField) = body[i]
  BY DEF InlineAt, Elements, Span
<1>4. ReadsArray(s, x)
  BY <1>1, <1>2, <1>3 DEF ReadsArray
<1> QED
  BY <1>1, <1>4 DEF Reads, x

LEMMA LastElementContent ==
  ASSUME CInv, IInv', Kept, LastElement
  PROVE  CInv'
<1> DEFINE made == Append(inline.made, Size)
<1>1. /\ inline.open /\ msg = None /\ msg' = None /\ msg'.is = "none" /\ inline' = Closed
      /\ IF inline.made = <<>> THEN Size - inline.before > 0
                               ELSE Size - inline.before = inline.size
      /\ right' = Push(right, <<Len(made)>>)
      /\ objects' = objects \/ Promise(Size + 1, "inline", Reverse(made))
      /\ Floor' = Size'
  BY FloorCases DEF LastElement, None
<1>2. Grown
  BY <1>1, FloorGrows DEF CInv
<1>3. /\ Size \in Nat /\ made \in Seq(Int) /\ Len(made) \in Nat
      /\ \A k \in 1 .. Len(made) : made[k] = Size - Span(Len(made) - k)
  <2> DEFINE n == Len(inline.made) + 1
  <2>1. /\ Size \in Nat /\ made \in Seq(Int) /\ Len(made) = n /\ n \in Nat
        /\ \A k \in 1 .. n : made[k] = Size - Span(n - k)
    BY <1>1, InlineElements, SMTT(30) DEF CInv
  <2> HIDE DEF n, made
  <2> QED
    BY <2>1
<1>4. right \in Seq(Int)
  BY DEF CInv, IInv, ScalarsInv
<1> HIDE DEF made
<1>5. /\ Reverse(made) \in Seq(Int) /\ Len(Reverse(made)) = Len(made)
      /\ \A i \in 1 .. Len(made) : Reverse(made)[i] = made[Len(made) - i + 1]
  BY <1>3, ReverseProperties
<1>6. ASSUME NEW i \in 1 .. Len(made)
      PROVE  Reverse(made)[i] = Size - Span(i - 1)
  <2>1. Len(made) - i + 1 \in 1 .. Len(made) /\ Len(made) - (Len(made) - i + 1) = i - 1
    BY <1>3
  <2>2. made[Len(made) - i + 1] = Size - Span(Len(made) - (Len(made) - i + 1))
    BY <1>3, <2>1
  <2>3. i - 1 \in Nat
    OBVIOUS
  <2>4. Span(i - 1) \in Nat
    BY <2>3, SpanProperties
  <2> QED
    BY <1>3, <1>5, <2>1, <2>2, <2>4
<1>7. /\ Size' = Size + 1 /\ right'[Size + 1] = Len(made)
  <2> DEFINE block == <<Len(made)>>
  <2>1. block \in Seq(Int) /\ Len(block) = 1 /\ block[1] = Len(made)
    BY <1>3
  <2> HIDE DEF block
  <2>2. /\ Len(Push(right, block)) = Size + 1
        /\ Push(right, block)[Size + 1] = block[1]
    <3>1. /\ Len(Push(right, block)) = Len(right) + Len(block)
          /\ \A k \in 1 .. Len(block) :
               Push(right, block)[Len(right) + k] = block[Len(block) - k + 1]
      BY <1>4, <2>1, PushProperties
    <3>2. Push(right, block)[Len(right) + 1] = block[1]
      BY <2>1, <3>1
    <3> QED
      BY <2>1, <3>1, <3>2 DEF Size
  <2> QED
    BY <1>1, <2>1, <2>2 DEF block, Size
<1>8. Settled([off |-> Size + 1, kind |-> "inline", body |-> Reverse(made)], right', Floor')
  <2> SUFFICES ASSUME NEW s \in Seq(Int), Agree(s, right', Floor')
               PROVE  Reads(s, [off |-> Size + 1, kind |-> "inline", body |-> Reverse(made)])
    BY DEF Settled
  <2>1. Len(s) \in Nat
    BY SeqFacts
  <2>2. Size + 1 \in 1 .. Len(s) /\ s[Size + 1] = Len(made)
    BY <1>1, <1>3, <1>7, <2>1 DEF Agree
  <2> DEFINE o == Size + 1
             body == Reverse(made)
  <2>3. /\ body \in Seq(Int) /\ Len(body) = Len(made)
        /\ \A i \in 1 .. Len(made) : body[i] = o - 1 - Span(i - 1)
    <3>1. ASSUME NEW i \in 1 .. Len(made)
          PROVE  body[i] = o - 1 - Span(i - 1)
      <4>1. o - 1 = Size
        BY <1>3
      <4>2. body[i] = Size - Span(i - 1)
        BY <1>6
      <4> HIDE DEF o, body
      <4> QED
        BY <4>1, <4>2
    <3>2. body \in Seq(Int) /\ Len(body) = Len(made)
      BY <1>5
    <3> HIDE DEF o, body
    <3> QED
      BY <3>1, <3>2
  <2>4. o \in 1 .. Len(s) /\ s[o] = Len(made)
    BY <2>2
  <2> HIDE DEF o, body
  <2>5. Reads(s, [off |-> o, kind |-> "inline", body |-> body])
    BY <2>3, <2>4, InlineIsRead
  <2> QED
    BY <2>5 DEF o, body
<1>9. Content'
  BY <1>1, <1>2, <1>8, ContentKept, ContentPromised DEF CInv
<1> QED
  BY <1>1, <1>9, NoMessageContent, ClosedContent DEF CInv

(* What is said of the open message depends on it and the stacks only.     *)
LEMMA SameMessageContent ==
  ASSUME MessageContent, UNCHANGED <<right, left, msg>>
  PROVE  MessageContent'
  BY DEF MessageContent

LEMMA AbandonInlineContent ==
  ASSUME CInv, IInv', Kept, AbandonInline
  PROVE  CInv'
<1>1. UNCHANGED <<right, left, msg, objects>> /\ inline' = Closed
  BY DEF AbandonInline
<1>2. Grown
  <2>1. Floor \in Nat /\ Floor' = Floor
    BY <1>1, FloorType DEF CInv, IInv, Floor, Size
  <2> QED
    BY <2>1 DEF Grown
<1>3. Content'
  BY <1>1, <1>2, ContentKept DEF CInv
<1> QED
  BY <1>1, <1>3, SameMessageContent, ClosedContent DEF CInv

-----------------------------------------------------------------------------
(* The entries of the metadata.                                            *)

(* The entry of an id lies inside a table that accounts for it.            *)
LEMMA MetaPlaces ==
  ASSUME NEW maxId \in Nat, maxId >= 2, NEW id \in 1 .. maxId - 1
  PROVE  /\ MetaPlace(id) \in 1 .. MetaSize(maxId)
         /\ ~IsTiny(id) => MetaPlace(id) - 1 \in 1 .. MetaSize(maxId)
  BY WireAssumption DEF MetaPlace, MetaSize, IsTiny

(* An entry has one word or two.                                           *)
LEMMA MetaPlaceType ==
  ASSUME NEW id \in Nat \ {0}
  PROVE  MetaPlace(id) \in Nat \ {0} /\ (~IsTiny(id) => MetaPlace(id) >= 2)
<1>1. TinyMaxId \in Nat \ {0}
  BY WireAssumption
<1> QED
  BY ONLY <1>1, id \in Nat \ {0} DEF MetaPlace, IsTiny

(* No two entries share a word.                                            *)
LEMMA PlacesDiffer ==
  ASSUME NEW id \in Nat \ {0}, NEW other \in Nat \ {0}, id # other
  PROVE  /\ MetaPlace(id) # MetaPlace(other)
         /\ ~IsTiny(other) => MetaPlace(id) # MetaPlace(other) - 1
         /\ ~IsTiny(id) => MetaPlace(id) - 1 # MetaPlace(other)
         /\ ~IsTiny(id) /\ ~IsTiny(other) => MetaPlace(id) - 1 # MetaPlace(other) - 1
  BY WireAssumption DEF MetaPlace, IsTiny

(* An offset is the sum of its two digits.                                 *)
LEMMA Digits ==
  ASSUME NEW n \in Nat, n < ByteMod * ByteMod
  PROVE  /\ (n % ByteMod) + ByteMod * ((n \div ByteMod) % ByteMod) = n
         /\ n < ByteMod => n % ByteMod = n
<1> DEFINE B == ByteMod
           q == n \div B
<1>1. B \in Nat \ {0} /\ n < B * B
  BY WireAssumption
<1> HIDE DEF B
<1>2. n = B * q + (n % B)
  BY ONLY <1>1, n \in Nat
<1>3. q \in Nat
  BY ONLY <1>1, n \in Nat
<1>4. n % B \in 0 .. B - 1
  BY ONLY <1>1, n \in Nat
<1>5. n < B => n % B = n
  BY ONLY <1>1, n \in Nat
<1> HIDE DEF q
<1>6. q < B
  <2>1. q >= B => B * q >= B * B
    BY ONLY <1>1, <1>3
  <2> QED
    BY <1>1, <1>2, <1>3, <1>4, <2>1
<1>7. q % B = q
  BY ONLY <1>1, <1>3, <1>6
<1>8. (n % B) + B * (q % B) = n
  BY <1>1, <1>2, <1>3, <1>4, <1>7
<1> QED
  BY <1>5, <1>8 DEF B, q

FieldMetaWritten(w, r, base, id, offset) ==
  /\ w \in Seq(Int) /\ Len(w) = Len(r)
  /\ w[base + 1 + MetaPlace(id)] = offset % ByteMod
  /\ ~IsTiny(id) => w[base + 1 + MetaPlace(id) - 1] = (offset \div ByteMod) % ByteMod
  /\ \A k \in 1 .. Len(r) :
       k # base + 1 + MetaPlace(id) /\ (~IsTiny(id) => k # base + 1 + MetaPlace(id) - 1)
         => w[k] = r[k]

(* WriteFieldMeta changes the words of one entry.                          *)
LEMMA MetaWords ==
  ASSUME NEW r \in Seq(Int), NEW base \in Nat, NEW id \in Nat \ {0}, NEW offset \in Nat,
         base + 1 + MetaPlace(id) <= Len(r)
  PROVE  FieldMetaWritten(WriteFieldMeta(r, base, id, offset), r, base, id, offset)
<1> DEFINE low == base + 1 + MetaPlace(id)
           first == [r EXCEPT ![low] = offset % ByteMod]
           second == [first EXCEPT ![low - 1] = (offset \div ByteMod) % ByteMod]
<1>1. /\ low \in 2 .. Len(r) /\ (~IsTiny(id) => low - 1 \in 2 .. Len(r)) /\ Len(r) \in Nat
  BY WireAssumption, SeqFacts DEF MetaPlace, IsTiny
<1>2. offset % ByteMod \in Int /\ (offset \div ByteMod) % ByteMod \in Int
  <2>1. offset % ByteMod \in 0 .. ByteMod - 1 /\ offset \div ByteMod \in Int
    <3>1. offset \in Int
      OBVIOUS
    <3> QED
      BY ONLY <3>1, ByteOperations
  <2>2. (offset \div ByteMod) % ByteMod \in 0 .. ByteMod - 1
    BY <2>1, ByteOperations
  <2> QED
    BY <2>1, <2>2
<1> HIDE DEF low
<1>3. /\ first \in Seq(Int) /\ Len(first) = Len(r)
      /\ \A k \in 1 .. Len(r) : first[k] = IF k = low THEN offset % ByteMod ELSE r[k]
  BY <1>1, <1>2, SetProperties
<1> HIDE DEF first
<1>4. /\ second \in Seq(Int) /\ Len(second) = Len(r)
      /\ \A k \in 1 .. Len(r) :
           second[k] = IF k = low - 1 THEN (offset \div ByteMod) % ByteMod ELSE first[k]
  BY <1>1, <1>2, <1>3, SetProperties
<1> HIDE DEF second
<1> DEFINE w == WriteFieldMeta(r, base, id, offset)
<1>5. w = IF IsTiny(id) THEN first ELSE second
  BY DEF WriteFieldMeta, low, first, second
<1> HIDE DEF w
<1>6. /\ w \in Seq(Int) /\ Len(w) = Len(r) /\ w[low] = offset % ByteMod
      /\ ~IsTiny(id) => w[low - 1] = (offset \div ByteMod) % ByteMod
      /\ \A k \in 1 .. Len(r) : k # low /\ (~IsTiny(id) => k # low - 1) => w[k] = r[k]
  <2>1. CASE IsTiny(id)
    BY <1>1, <1>3, <1>5, <2>1
  <2>2. CASE ~IsTiny(id)
    BY <1>1, <1>3, <1>4, <1>5, <2>2, SMTT(30)
  <2> QED
    BY <2>1, <2>2
<1>7. /\ low = base + 1 + MetaPlace(id) /\ w = WriteFieldMeta(r, base, id, offset)
      /\ MetaPlace(id) \in Int
  BY WireAssumption DEF low, w, MetaPlace, IsTiny
<1>8. FieldMetaWritten(w, r, base, id, offset)
  BY ONLY <1>6, <1>7, base \in Nat, SMTT(30) DEF FieldMetaWritten
<1> QED
  BY <1>7, <1>8

(* The entry that is written is read back, and no other one changes.       *)
LEMMA EntryWritten ==
  ASSUME NEW r \in Seq(Int), NEW base \in Nat, NEW maxId \in Nat, maxId >= 2,
         base + 1 + MetaSize(maxId) <= Len(r), NEW id \in 1 .. maxId - 1,
         NEW offset \in Nat, offset < EntryMod(id)
  PROVE  /\ Entry(WriteFieldMeta(r, base, id, offset), base + 1, id) = offset
         /\ \A other \in 1 .. maxId - 1 : other # id =>
              Entry(WriteFieldMeta(r, base, id, offset), base + 1, other) = Entry(r, base + 1, other)
<1> DEFINE end == base + 1
           w == WriteFieldMeta(r, base, id, offset)
<1>1. ASSUME NEW j \in 1 .. maxId - 1
      PROVE  /\ end + MetaPlace(j) \in 1 .. Len(r)
             /\ ~IsTiny(j) => end + MetaPlace(j) - 1 \in 1 .. Len(r)
  <2>1. MetaPlace(j) \in 1 .. MetaSize(maxId)
    BY MetaPlaces
  <2>2. ~IsTiny(j) => MetaPlace(j) - 1 \in 1 .. MetaSize(maxId)
    BY MetaPlaces
  <2>3. MetaSize(maxId) \in Nat /\ Len(r) \in Nat /\ end \in Nat /\ end + MetaSize(maxId) <= Len(r)
    BY MetaSizeProperties, SeqFacts
  <2> HIDE DEF end
  <2>4. end + MetaPlace(j) \in 1 .. Len(r)
    BY ONLY <2>1, <2>3
  <2>5. ~IsTiny(j) => end + MetaPlace(j) - 1 \in 1 .. Len(r)
    BY ONLY <2>1, <2>2, <2>3, SMTT(30)
  <2> QED
    BY <2>4, <2>5
<1>2. ByteMod \in Nat \ {0}
  BY WireAssumption
<1>3. /\ w[end + MetaPlace(id)] = offset % ByteMod
      /\ ~IsTiny(id) => w[end + MetaPlace(id) - 1] = (offset \div ByteMod) % ByteMod
      /\ \A k \in 1 .. Len(r) :
           k # end + MetaPlace(id) /\ (~IsTiny(id) => k # end + MetaPlace(id) - 1)
             => w[k] = r[k]
  <2>1. base + 1 + MetaPlace(id) <= Len(r) /\ id \in Nat \ {0}
    BY <1>1
  <2>2. FieldMetaWritten(w, r, base, id, offset)
    BY <2>1, MetaWords
  <2> QED
    BY <2>2 DEF FieldMetaWritten
<1> HIDE DEF end, w
<1>4. Entry(w, end, id) = offset
  <2>1. CASE IsTiny(id)
    <3>1. offset < ByteMod /\ offset < ByteMod * ByteMod
      <4>1. offset < ByteMod
        BY <2>1 DEF EntryMod
      <4>2. ByteMod <= ByteMod * ByteMod
        BY ONLY <1>2
      <4> QED
        BY <1>2, <4>1, <4>2
    <3>2. offset % ByteMod = offset
      BY <3>1, Digits
    <3> QED
      BY <1>3, <2>1, <3>2 DEF Entry
  <2>2. CASE ~IsTiny(id)
    <3>1. offset < ByteMod * ByteMod
      BY <2>2 DEF EntryMod
    <3>2. (offset % ByteMod) + ByteMod * ((offset \div ByteMod) % ByteMod) = offset
      BY <3>1, Digits
    <3> QED
      BY <1>3, <2>2, <3>2 DEF Entry
  <2> QED
    BY <2>1, <2>2
<1>5. ASSUME NEW other \in 1 .. maxId - 1, other # id
      PROVE  Entry(w, end, other) = Entry(r, end, other)
  <2>1. /\ MetaPlace(other) # MetaPlace(id)
        /\ ~IsTiny(id) => MetaPlace(other) # MetaPlace(id) - 1
        /\ ~IsTiny(other) => MetaPlace(other) - 1 # MetaPlace(id)
        /\ ~IsTiny(other) /\ ~IsTiny(id) => MetaPlace(other) - 1 # MetaPlace(id) - 1
    BY <1>5, PlacesDiffer
  <2>2. MetaPlace(other) \in Int /\ MetaPlace(id) \in Int /\ end \in Int
    BY MetaPlaces DEF end
  <2>3. ASSUME NEW k \in 1 .. Len(r),
               k = end + MetaPlace(other) \/ (~IsTiny(other) /\ k = end + MetaPlace(other) - 1)
        PROVE  w[k] = r[k]
    <3>1. k # end + MetaPlace(id) /\ (~IsTiny(id) => k # end + MetaPlace(id) - 1)
      BY ONLY <2>1, <2>2, <2>3, SMTT(30)
    <3> QED
      BY <1>3, <3>1
  <2>4. /\ w[end + MetaPlace(other)] = r[end + MetaPlace(other)]
        /\ ~IsTiny(other) => w[end + MetaPlace(other) - 1] = r[end + MetaPlace(other) - 1]
    BY <1>1, <2>3
  <2> QED
    BY <2>4 DEF Entry
<1> QED
  BY <1>4, <1>5 DEF end, w

-----------------------------------------------------------------------------
(* Opening a message.                                                      *)

(* A message without fields.                                               *)
LEMMA NoFields ==
  ASSUME NEW start
  PROVE  /\ DOMAIN <<>> = {} /\ FieldsFit(<<>>, start) /\ NoDefaults(<<>>)
         /\ \A id, at : WordOf(<<>>, id, at) = 0
<1>1. DOMAIN <<>> = {}
  OBVIOUS
<1> QED
  BY <1>1 DEF FieldsFit, NoDefaults, WordOf

(* Zeros on top of the stack.                                              *)
LEMMA ZerosPushed ==
  ASSUME NEW r \in Seq(Int), NEW n \in Nat
  PROVE  /\ Push(r, Zeros(n)) \in Seq(Int) /\ Len(Push(r, Zeros(n))) = Len(r) + n
         /\ \A k \in 1 .. n : Push(r, Zeros(n))[Len(r) + k] = 0
<1>1. /\ Zeros(n) \in Seq(Int) /\ Len(Zeros(n)) = n
      /\ \A k \in 1 .. n : Zeros(n)[k] = 0
  BY ZerosProperties
<1>2. /\ Push(r, Zeros(n)) \in Seq(Int) /\ Len(Push(r, Zeros(n))) = Len(r) + Len(Zeros(n))
      /\ \A k \in 1 .. Len(Zeros(n)) :
           Push(r, Zeros(n))[Len(r) + k] = Zeros(n)[Len(Zeros(n)) - k + 1]
  BY <1>1, PushProperties
<1>3. ASSUME NEW k \in 1 .. n
      PROVE  Push(r, Zeros(n))[Len(r) + k] = 0
  <2>1. n - k + 1 \in 1 .. n
    OBVIOUS
  <2> QED
    BY <1>1, <1>2, <2>1
<1> QED
  BY <1>1, <1>2, <1>3

(* Common to the calls that open a message: they promise nothing.          *)
LEMMA StartContent ==
  ASSUME CInv, IInv', Kept, MessageContent', msg = None, UNCHANGED <<inline, objects>>,
         msg' = Valueless \/ (msg'.is \in OpenKinds /\ msg'.start = Size),
         inline.open => msg'.is \in {"valueless", "fixed"} /\ Size = inline.before
  PROVE  CInv'
<1>1. Floor = Size /\ (msg' = Valueless => msg'.is = "valueless")
  BY FloorCases DEF None, Valueless
<1>2. Grown
  BY <1>1, FloorGrows DEF CInv
<1>3. Content'
  BY <1>2, ContentKept DEF CInv
<1>4. InlineContent'
  <2>1. inline.open => inline'.open /\ inline'.before = inline.before /\ inline'.made = inline.made
                       /\ inline'.size = inline.size
    OBVIOUS
  <2> QED
    BY <1>1, <2>1 DEF CInv, InlineContent, None, OpenKinds
<1> QED
  BY <1>3, <1>4 DEF CInv

LEMMA StartFixedContent ==
  ASSUME CInv, IInv', Kept, StartFixed(MaxField)
  PROVE  CInv'
<1> DEFINE m == [is |-> "fixed", start |-> Size, loc |-> Size + MaxField,
                 tainted |-> FALSE, fields |-> <<>>]
<1>1. /\ msg = None /\ right' = Push(right, Zeros(MaxField))
      /\ msg' = IF Checked(Size + MaxField) THEN m ELSE Valueless
      /\ inline.open => Size = inline.before
      /\ UNCHANGED <<inline, objects>>
  BY DEF StartFixed, Open
<1>2. MaxField \in Nat /\ right \in Seq(Int) /\ Size \in Nat
  BY WireAssumption, SeqFacts DEF CInv, IInv, ScalarsInv, Size
<1>3. \A k \in 1 .. MaxField : right'[Size + k] = 0
  BY <1>1, <1>2, ZerosPushed DEF Size
<1>4. CASE msg' = Valueless
  <2>1. MessageContent' /\ msg'.is = "valueless"
    BY <1>4, NoMessageContent DEF Valueless
  <2> QED
    BY <1>1, <1>4, <2>1, StartContent
<1>5. CASE msg' = m
  <2>1. /\ msg'.is = "fixed" /\ msg'.start = Size /\ msg'.loc = Size + MaxField
        /\ msg'.fields = <<>>
    BY <1>5
  <2>2. FixedContent(right', msg')
    <3>1. ASSUME NEW id \in Field
          PROVE  right'[msg'.loc - FlatOffset(id)] = WordOf(msg'.fields, id, msg'.loc)
      <4> DEFINE k == MaxField - FlatOffset(id)
      <4>1. k \in 1 .. MaxField /\ msg'.loc - FlatOffset(id) = Size + k
        BY <1>2, <2>1 DEF Field, FlatOffset
      <4> HIDE DEF k
      <4>2. right'[msg'.loc - FlatOffset(id)] = 0
        BY <1>3, <4>1
      <4> QED
        BY <2>1, <4>2, NoFields
    <3> QED
      BY <3>1 DEF FixedContent
  <2>3. MessageContent'
    BY <2>1, <2>2, NoFields DEF MessageContent
  <2> QED
    BY <1>1, <2>1, <2>3, StartContent DEF OpenKinds
<1> QED
  BY <1>1, <1>4, <1>5

LEMMA StartFlatContent ==
  ASSUME CInv, IInv', Kept, ~wrapped', NEW explicit \in BOOLEAN, NEW sized \in BOOLEAN,
         StartFlat(explicit, sized)
  PROVE  CInv'
<1>0. Size % OffsetMod = Size
  <2>1. right \in Seq(Int) /\ Size \in Nat
    BY SeqFacts DEF CInv, IInv, ScalarsInv, Size
  <2>2. ~(Size >= OffsetMod)
    BY DEF StartFlat
  <2> QED
    BY <2>1, <2>2, StartIsSize, SerializerAssumption
<1>1. /\ msg = None /\ ~inline.open /\ UNCHANGED <<inline, objects>>
      /\ msg'.is = "flat" /\ msg'.start = Size /\ msg'.maxId = 0 /\ msg'.need = FALSE
      /\ msg'.fields = <<>>
  BY <1>0, Unnested DEF CInv, StartFlat, Open
<1>2. FlatContent(right', msg')
  BY <1>1, NoFields DEF FlatContent
<1>3. MessageContent'
  BY <1>1, <1>2, NoFields DEF MessageContent
<1> QED
  BY <1>1, <1>3, StartContent DEF OpenKinds

LEMMA StartSparseContent ==
  ASSUME CInv, IInv', Kept, NEW explicit \in BOOLEAN, StartSparse(explicit)
  PROVE  CInv'
<1>1. /\ msg = None /\ ~inline.open /\ UNCHANGED <<right, left, inline, objects>>
      /\ msg'.is = "sparse" /\ msg'.start = Size /\ msg'.base = Len(left)
      /\ msg'.added = 0 /\ msg'.maxId = 0 /\ msg'.prev = 0 /\ msg'.fields = <<>>
  BY Unnested DEF CInv, StartSparse, Open
<1>2. Size \in Nat /\ Len(left) \in Nat /\ Size = Len(right)
  BY SeqFacts DEF CInv, IInv, ScalarsInv, LeftInv, Size
<1>3. SparseContent(right', left', msg')
  BY <1>1, <1>2, NoFields DEF SparseContent, SparseRun
<1>4. MessageContent'
  BY <1>1, <1>3, NoFields DEF MessageContent
<1> QED
  BY <1>1, <1>4, StartContent DEF OpenKinds

(* The room of a preallocated message: its fields, the typed limit and an  *)
(* empty table above them.                                                 *)
Reserved(meta, limit, count) == Zeros(meta) \o <<limit>> \o Junks(count)

EmptyTable(r, base, limit, meta) ==
  r[base] = limit /\ \A k \in 1 .. meta : r[base + k] = 0

(* A preallocated message begins with an empty table and room.             *)
LEMMA RoomReserved ==
  ASSUME NEW r \in Seq(Int), NEW meta \in Nat, NEW limit \in Int, NEW count \in Nat
  PROVE  EmptyTable(Push(r, Reserved(meta, limit, count)), Len(r) + count + 1, limit, meta)
<1> DEFINE block == Reserved(meta, limit, count)
           zeros == Zeros(meta)
           junks == Junks(count)
           above == zeros \o <<limit>>
           R == Push(r, block)
<1>1. /\ zeros \in Seq(Int) /\ Len(zeros) = meta /\ \A k \in 1 .. meta : zeros[k] = 0
      /\ junks \in Seq(Int) /\ Len(junks) = count
      /\ <<limit>> \in Seq(Int) /\ Len(<<limit>>) = 1 /\ <<limit>>[1] = limit
  BY ZerosProperties, JunksProperties
<1> HIDE DEF zeros, junks
<1>2. /\ above \in Seq(Int) /\ Len(above) = meta + 1 /\ above[meta + 1] = limit
      /\ \A k \in 1 .. meta : above[k] = 0
  <2>1. /\ above \in Seq(Int) /\ Len(above) = Len(zeros) + Len(<<limit>>)
        /\ \A k \in 1 .. Len(zeros) : above[k] = zeros[k]
        /\ \A k \in 1 .. Len(<<limit>>) : above[Len(zeros) + k] = <<limit>>[k]
    BY ONLY <1>1, ConcatFacts DEF above
  <2> HIDE DEF above
  <2> QED
    BY <1>1, <2>1
<1> HIDE DEF above, block
<1>3. /\ block \in Seq(Int) /\ Len(block) = meta + 1 + count /\ block[meta + 1] = limit
      /\ \A k \in 1 .. meta : block[k] = 0
  <2>1. block = above \o junks
    BY DEF block, above, zeros, junks, Reserved
  <2>2. /\ above \o junks \in Seq(Int) /\ Len(above \o junks) = Len(above) + Len(junks)
        /\ \A k \in 1 .. Len(above) : (above \o junks)[k] = above[k]
    BY ONLY <1>1, <1>2, ConcatFacts, ZenonT(60)
  <2> QED
    BY ONLY <1>1, <1>2, <2>1, <2>2, meta \in Nat, count \in Nat
<1>4. /\ Len(R) = Len(r) + Len(block) /\ Len(r) \in Nat
      /\ \A k \in 1 .. Len(block) : R[Len(r) + k] = block[Len(block) - k + 1]
  BY <1>3, PushProperties, SeqFacts
<1> HIDE DEF R
<1>5. R[Len(r) + count + 1] = limit
  <2>1. count + 1 \in 1 .. Len(block) /\ Len(block) - (count + 1) + 1 = meta + 1
    BY <1>3
  <2>2. R[Len(r) + (count + 1)] = limit
    BY <1>3, <1>4, <2>1
  <2>3. Len(r) + (count + 1) = Len(r) + count + 1
    BY <1>4
  <2> QED
    BY <2>2, <2>3
<1>6. ASSUME NEW k \in 1 .. meta
      PROVE  R[Len(r) + count + 1 + k] = 0
  <2> DEFINE j == count + 1 + k
  <2>1. j \in 1 .. Len(block) /\ Len(block) - j + 1 \in 1 .. meta
    BY <1>3
  <2>2. Len(r) + j = Len(r) + count + 1 + k
    BY <1>4
  <2> HIDE DEF j
  <2>3. R[Len(r) + j] = block[Len(block) - j + 1]
    BY <1>4, <2>1
  <2> QED
    BY <1>3, <2>1, <2>2, <2>3
<1> QED
  BY <1>5, <1>6 DEF R, block, EmptyTable

(* An entry of zeros says that its field is absent.                        *)
LEMMA EmptyEntry ==
  ASSUME NEW r, NEW end \in Nat, NEW maxId \in Nat, maxId >= 2,
         \A k \in 1 .. MetaSize(maxId) : r[end + k] = 0, NEW id \in 1 .. maxId - 1
  PROVE  Entry(r, end, id) = 0
<1>1. /\ MetaPlace(id) \in 1 .. MetaSize(maxId)
      /\ ~IsTiny(id) => MetaPlace(id) - 1 \in 1 .. MetaSize(maxId)
  BY MetaPlaces
<1>2. r[end + MetaPlace(id)] = 0
  BY <1>1
<1>3. ~IsTiny(id) => r[end + MetaPlace(id) - 1] = 0
  <2>1. end + (MetaPlace(id) - 1) = end + MetaPlace(id) - 1
    BY <1>1
  <2>2. ~IsTiny(id) => r[end + (MetaPlace(id) - 1)] = 0
    BY <1>1
  <2> QED
    BY <2>1, <2>2
<1> QED
  BY <1>2, <1>3, WireAssumption DEF Entry

LEMMA StartPreallocatedContent ==
  ASSUME CInv, IInv', Kept, NEW explicit \in BOOLEAN, NEW accounted \in SUBSET Field,
         StartPreallocated(explicit, accounted)
  PROVE  CInv'
<1> DEFINE count == Cardinality(accounted)
           end == Size + count + 1
           maxId == IF accounted = {} THEN 0 ELSE Max(accounted) + 1
           meta == Above(maxId)
           limit == IF maxId = 0 THEN 2 ELSE SparseLimit(maxId)
           block == Zeros(meta) \o <<limit>> \o Junks(count)
           tainted == ~Checked(end)
           m == [is |-> "preallocated", explicit |-> explicit, start |-> Size,
                 end |-> 0, base |-> 0, maxId |-> 0, prev |-> 0, prevOffset |-> 0,
                 accounted |-> accounted, tainted |-> tainted, fields |-> <<>>]
           opened == [m EXCEPT !.end = end, !.base = end, !.maxId = maxId, !.prevOffset = count + 1]
<1>1. /\ msg = None /\ ~inline.open /\ UNCHANGED <<inline, objects>>
      /\ IF Checked(end) THEN right' = Push(right, block) /\ Open(opened)
                         ELSE right' = right /\ Open(m)
  BY Unnested DEF CInv, StartPreallocated, Above
<1>2. right \in Seq(Int) /\ Size \in Nat /\ Size = Len(right)
  BY SeqFacts DEF CInv, IInv, ScalarsInv, Size
<1>3. count \in Nat /\ maxId \in Nat /\ (maxId # 0 => maxId >= 2)
  <2>1. count \in Nat /\ (accounted # {} => Max(accounted) \in Field)
    BY CardinalityFacts
  <2>2. \A id \in Field : id \in Nat /\ id >= 1
    BY DEF Field
  <2> QED
    BY <2>1, <2>2
<1>4. maxId = IF accounted = {} THEN 0 ELSE Max(accounted) + 1
  OBVIOUS
<1> HIDE DEF maxId
<1>5. CASE ~Checked(end)
  <2>1. msg' = m
    BY <1>1, <1>5 DEF Open
  <2>2. msg'.is = "preallocated" /\ msg'.start = Size /\ msg'.tainted
    BY <1>5, <2>1
  <2>3. MessageContent'
    BY <2>2 DEF MessageContent
  <2> QED
    BY <1>1, <2>2, <2>3, StartContent DEF OpenKinds
<1>6. CASE Checked(end)
  <2>1. msg' = opened /\ right' = Push(right, block)
    BY <1>1, <1>6 DEF Open
  <2>2. /\ msg'.is = "preallocated" /\ msg'.start = Size /\ msg'.base = end
        /\ msg'.maxId = maxId /\ msg'.prev = 0 /\ msg'.prevOffset = count + 1
        /\ msg'.accounted = accounted /\ msg'.fields = <<>> /\ msg'.explicit = explicit
    BY <2>1
  <2>3. meta \in Nat /\ limit \in Int
    BY <1>3, AboveProperties DEF SparseLimit
  <2>4. right'[end] = limit /\ \A k \in 1 .. meta : right'[end + k] = 0
    <3>1. right' = Push(right, Reserved(meta, limit, count))
      BY <2>1 DEF Reserved
    <3>2. end = Len(right) + count + 1
      BY <1>2
    <3>3. right \in Seq(Int) /\ count \in Nat
      BY <1>2, <1>3
    <3> HIDE DEF meta, limit, count, block, end
    <3>4. EmptyTable(Push(right, Reserved(meta, limit, count)), Len(right) + count + 1, limit, meta)
      BY <2>3, <3>3, RoomReserved
    <3> QED
      BY ONLY <3>1, <3>2, <3>4 DEF EmptyTable
  <2>5. end \in Nat /\ end = Size + count + 1
    BY <1>2, <1>3
  <2> HIDE DEF end, count
  <2>6. ASSUME NEW id \in 1 .. maxId - 1
        PROVE  Entry(right', end + 1, id) = 0
    <3>1. maxId # 0 /\ maxId >= 2
      BY <1>3
    <3>2. meta = MetaSize(maxId) + 1 /\ MetaSize(maxId) \in Nat
      BY <1>3, <3>1, MetaSizeProperties DEF Above
    <3> HIDE DEF meta
    <3>3. \A k \in 1 .. MetaSize(maxId) : right'[end + 1 + k] = 0
      <4>1. ASSUME NEW k \in 1 .. MetaSize(maxId)
            PROVE  right'[end + 1 + k] = 0
        <5>1. k + 1 \in 1 .. meta /\ end + (k + 1) = end + 1 + k
          BY <2>5, <3>2
        <5>2. right'[end + (k + 1)] = 0
          BY <2>4, <5>1
        <5> QED
          BY <5>1, <5>2
      <4> QED
        BY <4>1
    <3>4. end + 1 \in Nat
      BY <2>5
    <3> QED
      BY <1>3, <3>1, <3>3, <3>4, EmptyEntry
  <2>7. Cardinality(DOMAIN msg'.fields) = 0 /\ DOMAIN msg'.fields = {}
    BY <2>2, NoFields, FS_EmptySet
  <2>8. Cardinality(msg'.accounted) = count
    BY <2>2 DEF count
  <2>9. PreallocatedContent(right', msg')
    BY <1>3, <1>4, <2>2, <2>4, <2>6, <2>7, <2>8, NoFields DEF PreallocatedContent
  <2>10. MessageContent'
    BY <2>2, <2>9, NoFields DEF MessageContent
  <2> QED
    BY <1>1, <2>2, <2>10, StartContent DEF OpenKinds
<1> QED
  BY <1>5, <1>6

-----------------------------------------------------------------------------
(* Adding a field.                                                         *)

ForeignIsOutside == BadCalls => Foreign > MaxOffset

FieldFits(id, v, start) ==
  IF id \in RefFields THEN v \in Nat \ {0} /\ (v <= start \/ v > MaxOffset) ELSE v \in Scalar

(* An offset of the client leads below the open message, or outside.       *)
LEMMA RefFits ==
  ASSUME IInv, ForeignIsOutside, NEW o \in RefInputs, o # 0
  PROVE  o \in Nat \ {0} /\ (o <= Floor \/ o > MaxOffset)
<1>1. CASE \E x \in objects : o = x.off
  BY <1>1, SerializerAssumption DEF IInv, ObjectsInv
<1>2. CASE BadCalls /\ o = Foreign
  BY <1>2, SerializerAssumption DEF ForeignIsOutside
<1> QED
  BY <1>1, <1>2 DEF RefInputs

(* The fields after one more is added.                                     *)
LEMMA AddedFields ==
  ASSUME NEW start, FieldsFit(msg.fields, start), NEW id \in Field, NEW v, FieldFits(id, v, start)
  PROVE  /\ FieldsFit(Added(id, v), start)
         /\ DOMAIN Added(id, v) = DOMAIN msg.fields \cup {id}
         /\ Added(id, v)[id] = v
         /\ \A f \in DOMAIN msg.fields : f # id => Added(id, v)[f] = msg.fields[f]
<1>1. /\ DOMAIN Added(id, v) = DOMAIN msg.fields \cup {id}
      /\ Added(id, v)[id] = v
      /\ \A f \in DOMAIN msg.fields : f # id => Added(id, v)[f] = msg.fields[f]
  BY DEF Added
<1>2. ASSUME NEW f \in DOMAIN Added(id, v)
      PROVE  f \in Field /\ FieldFits(f, Added(id, v)[f], start)
  <2>1. CASE f = id
    BY <1>1, <2>1
  <2>2. CASE f # id
    BY <1>1, <2>2 DEF FieldsFit, FieldFits
  <2> QED
    BY <2>1, <2>2
<1> QED
  BY <1>1, <1>2 DEF FieldsFit, FieldFits

(* The word of the field added, and of every other one.                    *)
LEMMA AddedWords ==
  ASSUME NEW start, FieldsFit(msg.fields, start), NEW id \in Field, NEW v, FieldFits(id, v, start),
         NEW at
  PROVE  /\ WordOf(Added(id, v), id, at) = IF id \in RefFields THEN at - v ELSE Xor(v, Default[id])
         /\ SparseWordOf(Added(id, v), id, at) = IF id \in RefFields THEN at - v ELSE v
         /\ \A f : f # id => WordOf(Added(id, v), f, at) = WordOf(msg.fields, f, at)
         /\ \A f \in DOMAIN msg.fields :
              f # id => SparseWordOf(Added(id, v), f, at) = SparseWordOf(msg.fields, f, at)
<1>1. /\ DOMAIN Added(id, v) = DOMAIN msg.fields \cup {id}
      /\ Added(id, v)[id] = v
      /\ \A f \in DOMAIN msg.fields : f # id => Added(id, v)[f] = msg.fields[f]
  BY AddedFields
<1> QED
  BY <1>1 DEF WordOf, SparseWordOf

(* An implicit message stays free of defaults.                             *)
LEMMA AddedDefaults ==
  ASSUME NEW start, FieldsFit(msg.fields, start), NEW id \in Field, NEW v, FieldFits(id, v, start),
         NoDefaults(msg.fields), id \notin RefFields => v # Default[id]
  PROVE  NoDefaults(Added(id, v))
<1>1. /\ DOMAIN Added(id, v) = DOMAIN msg.fields \cup {id}
      /\ Added(id, v)[id] = v
      /\ \A f \in DOMAIN msg.fields : f # id => Added(id, v)[f] = msg.fields[f]
  BY AddedFields
<1> QED
  BY <1>1 DEF NoDefaults

(* Common to the calls that add a field: they promise nothing.             *)
LEMMA AddContent ==
  ASSUME CInv, IInv', Kept, MessageContent', UNCHANGED <<inline, objects>>,
         msg.is \in OpenKinds, msg'.is = msg.is, msg'.start = msg.start
  PROVE  CInv'
<1>1. Floor = msg.start
  BY FloorCases DEF OpenKinds
<1>2. Grown
  BY <1>1, FloorGrows DEF CInv
<1>3. Content'
  BY <1>2, ContentKept DEF CInv
<1>4. InlineContent'
  BY DEF CInv, InlineContent, OpenKinds
<1> QED
  BY <1>3, <1>4 DEF CInv

LEMMA AddFixedContent ==
  ASSUME CInv, IInv', Kept, NEW id \in Field, NEW v, FieldFits(id, v, Floor), NEW word \in Int,
         word = IF id \in RefFields THEN msg.loc - v ELSE Xor(v, Default[id]),
         AddFixed(id, v, word)
  PROVE  CInv'
<1> DEFINE place == msg.loc - FlatOffset(id)
<1>1. /\ msg.is = "fixed" /\ right' = [right EXCEPT ![place] = word]
      /\ msg' = [msg EXCEPT !.fields = Added(id, v)]
      /\ UNCHANGED <<inline, objects>>
  BY DEF AddFixed
<1>2. FixedOpen /\ right \in Seq(Int)
  BY <1>1, MessageKinds DEF CInv, IInv, ScalarsInv
<1>3. /\ msg'.is = "fixed" /\ msg'.start = msg.start /\ msg'.loc = msg.loc /\ msg'.tainted = msg.tainted
      /\ msg'.fields = Added(id, v)
  BY <1>1, <1>2 DEF FixedOpen
<1>4. Floor = msg.start
  BY <1>1, FloorCases
<1>5. ASSUME ~msg.tainted
      PROVE  MessageContent'
  <2>1. FieldsFit(msg.fields, msg.start) /\ FixedContent(right, msg)
    BY <1>1, <1>5 DEF CInv, MessageContent
  <2>2. /\ FieldsFit(Added(id, v), msg.start)
        /\ WordOf(Added(id, v), id, msg.loc) = word
        /\ \A f : f # id => WordOf(Added(id, v), f, msg.loc) = WordOf(msg.fields, f, msg.loc)
    <3> DEFINE start == msg.start
               at == msg.loc
    <3>1. FieldsFit(msg.fields, start) /\ FieldFits(id, v, start)
      BY <1>4, <2>1
    <3> HIDE DEF start, at
    <3>2. FieldsFit(Added(id, v), start)
      BY <3>1, AddedFields
    <3>3. /\ WordOf(Added(id, v), id, at) = IF id \in RefFields THEN at - v ELSE Xor(v, Default[id])
          /\ \A f : f # id => WordOf(Added(id, v), f, at) = WordOf(msg.fields, f, at)
      BY <3>1, AddedWords
    <3> QED
      BY <3>2, <3>3 DEF start, at
  <2>3. ASSUME NEW f \in Field
        PROVE  right'[msg.loc - FlatOffset(f)] = WordOf(Added(id, v), f, msg.loc)
    <3> DEFINE at == msg.loc - FlatOffset(f)
    <3>1. /\ MaxField \in Nat /\ msg.loc = msg.start + MaxField /\ msg.start \in Nat
          /\ Len(right) = msg.loc
      <4>1. MaxField \in Nat
        BY WireAssumption
      <4> QED
        BY <1>2, <4>1 DEF FixedOpen, Size
    <3>2. at \in 1 .. Len(right) /\ place \in Int /\ (at = place <=> f = id)
      BY <3>1, SMTT(30) DEF Field, FlatOffset
    <3>3. right[at] = WordOf(msg.fields, f, msg.loc)
      BY <2>1 DEF FixedContent
    <3> HIDE DEF at, place
    <3>4. right'[at] = IF at = place THEN word ELSE right[at]
      BY <1>1, <1>2, <3>2, SetProperties, SMTT(30)
    <3>5. right'[at] = WordOf(Added(id, v), f, msg.loc)
      BY <2>2, <3>2, <3>3, <3>4
    <3> QED
      BY <3>5 DEF at
  <2>4. FixedContent(right', msg')
    BY <1>3, <2>3 DEF FixedContent
  <2> QED
    BY <1>3, <2>2, <2>4 DEF MessageContent
<1>6. MessageContent'
  BY <1>3, <1>5 DEF MessageContent
<1> QED
  BY <1>1, <1>3, <1>6, AddContent DEF OpenKinds

-----------------------------------------------------------------------------
(* Finishing a message.                                                    *)

(* Common to the calls that close a message: they promise it.              *)
LEMMA CloseContent ==
  ASSUME CInv, IInv', Kept, msg.is \in OpenKinds, NEW o, NEW kind, Close(o, kind), InlineContent',
         ~msg.tainted => Settled([off |-> o, kind |-> kind, body |-> msg.fields], right', Size')
  PROVE  CInv'
<1>1. msg' = None /\ msg'.is = "none" /\ Floor' = Size' /\ MessageContent'
  BY FloorCases, NoMessageContent DEF Close, None
<1>2. Grown
  BY <1>1, FloorGrows DEF CInv
<1>3. CASE msg.tainted
  <2>1. Content'
    BY <1>2, <1>3, ContentKept DEF CInv, Close
  <2> QED
    BY <1>1, <2>1 DEF CInv
<1>4. CASE ~msg.tainted
  <2>1. Content'
    BY <1>1, <1>2, <1>4, ContentPromised DEF CInv, Close
  <2> QED
    BY <1>1, <2>1 DEF CInv
<1> QED
  BY <1>3, <1>4

LEMMA FinishFixedContent ==
  ASSUME CInv, IInv', Kept, FinishFixed
  PROVE  CInv'
<1>1. /\ msg.is = "fixed" /\ Close(msg.loc, "fixed") /\ msg' = None /\ msg'.is = "none"
      /\ UNCHANGED <<right, inline>>
  BY DEF FinishFixed, Close, None
<1>2. FixedOpen /\ right \in Seq(Int)
  BY <1>1, MessageKinds DEF CInv, IInv, ScalarsInv
<1>3. MaxField \in Nat \ {0} /\ MaxOffset \in Nat
  BY WireAssumption, SerializerAssumption
<1>4. /\ msg.loc \in Nat /\ msg.start \in Nat /\ msg.loc = msg.start + MaxField
      /\ msg.loc <= MaxOffset /\ Size = msg.loc /\ Size' = Size
  BY <1>1, <1>2, <1>3 DEF FixedOpen, Checked, Size
<1>5. InlineContent'
  BY <1>1, <1>3, <1>4 DEF CInv, InlineContent
<1>6. ASSUME ~msg.tainted
      PROVE  Settled([off |-> msg.loc, kind |-> "fixed", body |-> msg.fields], right', Size')
  <2>1. FieldsFit(msg.fields, msg.start) /\ FixedContent(right, msg)
    BY <1>1, <1>6 DEF CInv, MessageContent
  <2> SUFFICES ASSUME NEW s \in Seq(Int), Agree(s, right', Size')
               PROVE  Reads(s, [off |-> msg.loc, kind |-> "fixed", body |-> msg.fields])
    BY DEF Settled
  <2>2. msg.loc \in MaxField .. Len(s)
    BY <1>3, <1>4, SeqFacts DEF Agree
  <2>3. ASSUME NEW id \in Field
        PROVE  s[msg.loc - FlatOffset(id)] = WordOf(msg.fields, id, msg.loc)
    <3> DEFINE at == msg.loc - FlatOffset(id)
    <3>1. at \in 1 .. Size'
      BY <1>3, <1>4 DEF Field, FlatOffset
    <3>2. right[at] = WordOf(msg.fields, id, msg.loc)
      BY <2>1 DEF FixedContent
    <3> HIDE DEF at
    <3>3. s[at] = right[at]
      BY <1>1, <3>1 DEF Agree
    <3> QED
      BY <3>2, <3>3 DEF at
  <2>4. FixedWords(s, msg.loc, msg.fields)
    BY <2>2, <2>3 DEF FixedWords
  <2> DEFINE start == msg.start
             o == msg.loc
             fields == msg.fields
  <2>5. /\ o \in Nat /\ start \in Nat /\ start < o /\ o <= MaxOffset /\ FieldsFit(fields, start)
        /\ FixedWords(s, o, fields)
    BY <1>3, <1>4, <2>1, <2>4
  <2> HIDE DEF start, o, fields
  <2>6. Reads(s, [off |-> o, kind |-> "fixed", body |-> fields])
    BY <2>5, FixedIsRead
  <2> QED
    BY <2>6 DEF o, fields
<1> QED
  BY <1>1, <1>5, <1>6, CloseContent DEF OpenKinds

-----------------------------------------------------------------------------
(* A field of a flat message.                                              *)

FlatBlock(r, end, maxId, explicit, fields) ==
  /\ DOMAIN fields \subseteq 1 .. maxId - 1
  /\ \A j \in 1 .. maxId - 1 : r[end - j] = WordOf(fields, j, end)
  /\ explicit => \A j \in 1 .. maxId - 1 : r[end + j] = IF j \in DOMAIN fields THEN 1 ELSE 0

(* The block for the first field is all zeros.                             *)
LEMMA FlatReserved ==
  ASSUME FlatOpen, right \in Seq(Int), NEW id \in Field, ~msg.tainted, msg.maxId = 0,
         FlatContent(right, msg)
  PROVE  FlatBlock(FirstBlock(id), msg.start + id + 1, id + 1, msg.explicit, msg.fields)
<1> DEFINE extra == IF msg.explicit THEN id ELSE 0
           n == FlatOffset(id) + 2 + extra
           r == FirstBlock(id)
<1>1. /\ Size \in Nat /\ msg.explicit \in BOOLEAN /\ msg.start = Size /\ Size = Len(right)
  BY SeqFacts DEF Size, FlatOpen, FlatMessage, FlatRecord
<1>2. id \in Nat /\ 1 <= id /\ FlatOffset(id) = id - 1 /\ extra \in {0, id}
      /\ (msg.explicit => extra = id)
  BY WireAssumption DEF Field, FlatOffset
<1>3. r = Push(right, Zeros(n))
  BY DEF FirstBlock
<1> HIDE DEF extra, r
<1>4. n \in Nat /\ n = id + 1 + extra
  BY <1>2
<1> HIDE DEF n
<1>5. \A k \in 1 .. n : r[Size + k] = 0
  BY <1>1, <1>3, <1>4, ZerosPushed DEF Size
<1>6. DOMAIN msg.fields = {}
  BY DEF FlatContent
<1>7. ASSUME NEW j \in 1 .. id
      PROVE  r[Size + id + 1 - j] = 0
  <2>1. id + 1 - j \in 1 .. n /\ Size + (id + 1 - j) = Size + id + 1 - j
    BY <1>1, <1>2, <1>4
  <2>2. r[Size + (id + 1 - j)] = 0
    BY <1>5, <2>1
  <2> QED
    BY <2>1, <2>2
<1>8. ASSUME msg.explicit, NEW j \in 1 .. id
      PROVE  r[Size + id + 1 + j] = 0
  <2>1. id + 1 + j \in 1 .. n /\ Size + (id + 1 + j) = Size + id + 1 + j
    BY <1>1, <1>2, <1>4, <1>8
  <2>2. r[Size + (id + 1 + j)] = 0
    BY <1>5, <2>1
  <2> QED
    BY <2>1, <2>2
<1>10. \A j, at : WordOf(msg.fields, j, at) = 0
  BY <1>6 DEF WordOf
<1> DEFINE end == msg.start + id + 1
           maxId == id + 1
<1>11. end = Size + id + 1 /\ maxId - 1 = id
  BY <1>1, <1>2
<1> HIDE DEF end, maxId
<1>12. ASSUME NEW j \in 1 .. maxId - 1
       PROVE  /\ r[end - j] = WordOf(msg.fields, j, end)
              /\ msg.explicit => r[end + j] = IF j \in DOMAIN msg.fields THEN 1 ELSE 0
  <2>1. /\ j \in 1 .. id /\ Size + id + 1 - j = end - j /\ Size + id + 1 + j = end + j
    BY <1>1, <1>2, <1>11
  <2>2. r[end - j] = 0
    BY <1>7, <2>1
  <2>3. msg.explicit => r[end + j] = 0
    BY <1>8, <2>1
  <2> QED
    BY <1>6, <1>10, <2>2, <2>3
<1>14. FlatBlock(r, end, maxId, msg.explicit, msg.fields)
  BY <1>6, <1>12 DEF FlatBlock
<1> QED
  BY <1>14 DEF end, maxId, r

(* The first field of a flat message reserves the block for all of them.   *)
LEMMA FlatLocated ==
  ASSUME FlatOpen, right \in Seq(Int), NEW id \in Field, ~msg.tainted, FlatContent(right, msg),
         NEW r, r = IF msg.maxId = 0 THEN FirstBlock(id) ELSE right,
         NEW m, m = IF msg.maxId = 0 THEN Located(id) ELSE [msg EXCEPT !.prev = FlatOffset(id)]
  PROVE  /\ FlatBlock(r, m.end, m.maxId, m.explicit, msg.fields)
         /\ m.fields = msg.fields /\ m.explicit = msg.explicit
         /\ m.need => m.explicit
         /\ ~m.need => NoDefaults(msg.fields)
         /\ m.is = "flat" /\ m.start = msg.start /\ m.tainted = msg.tainted
<1>1. FlatMessage(msg, Size) /\ msg \in FlatRecord(msg.fields)
  BY DEF FlatOpen, FlatMessage
<1>2. id \in Nat /\ 1 <= id /\ FlatOffset(id) = id - 1
  BY WireAssumption DEF Field, FlatOffset
<1>3. CASE msg.maxId = 0
  <2> DEFINE end == msg.start + FlatOffset(id) + 2
             base == Size + FlatOffset(id) + 2
             maxId == id + 1
             prev == FlatOffset(id)
  <2>1. r = FirstBlock(id)
    BY <1>3
  <2>2. m = [msg EXCEPT !.end = end, !.base = base, !.maxId = maxId, !.prev = prev, !.need = FALSE]
    BY <1>3 DEF Located
  <2>3. end = msg.start + id + 1 /\ maxId = id + 1 
    BY <1>1, <1>2 DEF FlatRecord
  <2> HIDE DEF end, base, maxId, prev
  <2>4. /\ m.end = end /\ m.maxId = maxId /\ m.need = FALSE
        /\ m.fields = msg.fields /\ m.explicit = msg.explicit
        /\ m.is = "flat" /\ m.start = msg.start /\ m.tainted = msg.tainted
    BY ONLY <1>1, <2>2, ZenonT(30) DEF FlatRecord
  <2>5. FlatBlock(r, m.end, m.maxId, m.explicit, msg.fields)
    BY <1>3, <2>1, <2>3, <2>4, FlatReserved
  <2>6. NoDefaults(msg.fields)
    BY <1>3 DEF FlatContent, NoDefaults
  <2> QED
    BY <2>4, <2>5, <2>6
<1>4. CASE msg.maxId # 0
  <2>1. r = right /\ m = [msg EXCEPT !.prev = FlatOffset(id)]
    BY <1>4
  <2>2. /\ m.end = msg.end /\ m.maxId = msg.maxId /\ m.need = msg.need
        /\ m.fields = msg.fields /\ m.explicit = msg.explicit
        /\ m.is = "flat" /\ m.start = msg.start /\ m.tainted = msg.tainted
    BY ONLY <1>1, <2>1 DEF FlatRecord
  <2>3. FlatBlock(right, msg.end, msg.maxId, msg.explicit, msg.fields)
    BY <1>4 DEF FlatContent, FlatBlock
  <2> QED
    BY <2>1, <2>2, <2>3 DEF FlatContent
<1> QED
  BY <1>3, <1>4

(* The presence bit of the field and no other is set.                      *)
LEMMA PresenceSet ==
  ASSUME NEW r \in Seq(Int), NEW m, NEW id \in Nat \ {0}, m.explicit \in BOOLEAN, m.base \in Nat,
         m.explicit => m.base + id <= Len(r)
  PROVE  \A k \in 1 .. Len(r) :
           SetPresence(r, m, id)[k]
             = IF m.explicit /\ k = m.base + id /\ r[k] % 2 = 0 THEN r[k] + 1 ELSE r[k]
<1> DEFINE i == m.base + id
           w == r[i] + 1
<1>1. i \in Int /\ i \in Nat \ {0} /\ (m.explicit => i <= Len(r))
  OBVIOUS
<1>2. SetPresence(r, m, id) = IF m.explicit /\ r[i] % 2 = 0 THEN [r EXCEPT ![i] = w] ELSE r
  BY DEF SetPresence
<1>3. \A k \in 1 .. Len(r) : r[k] \in Int
  BY SeqFacts
<1>4. m.explicit => w \in Int
  BY <1>1, <1>3
<1> HIDE DEF i
<1>5. CASE m.explicit /\ r[i] % 2 = 0
  <2>1. w \in Int /\ w = r[i] + 1
    BY <1>4, <1>5
  <2> HIDE DEF w
  <2>2. \A k \in 1 .. Len(r) : [r EXCEPT ![i] = w][k] = IF k = i THEN w ELSE r[k]
    BY <1>1, <2>1, SetProperties
  <2> QED
    BY <1>2, <1>5, <2>1, <2>2 DEF i
<1>6. CASE ~(m.explicit /\ r[i] % 2 = 0)
  BY <1>2, <1>6 DEF i
<1> QED
  BY <1>5, <1>6

(* The word of the field added, in the block with its presence bit set.    *)
LEMMA FlatFieldAdded ==
  ASSUME NEW r \in Seq(Int), NEW m, NEW start, FieldsFit(msg.fields, start),
         NEW id \in Field, NEW v, FieldFits(id, v, start),
         m.explicit \in BOOLEAN, m.base \in Nat, m.base = m.end, m.maxId \in Nat,
         m.maxId <= m.base, id <= m.maxId - 1,
         Len(r) = FlatTop(m), FlatBlock(r, m.end, m.maxId, m.explicit, msg.fields),
         NEW word \in Int, word = WordOf(Added(id, v), id, m.end),
         NEW t, t = [SetPresence(r, m, id) EXCEPT ![m.base - 1 - FlatOffset(id)] = word]
  PROVE  FlatBlock(t, m.end, m.maxId, m.explicit, Added(id, v))
<1> DEFINE end == m.end
           maxId == m.maxId
           explicit == m.explicit
           place == m.base - 1 - FlatOffset(id)
           marked == SetPresence(r, m, id)
           fields == Added(id, v)
<1>1. id \in Nat \ {0} /\ FlatOffset(id) = id - 1
  BY WireAssumption DEF Field, FlatOffset
<1>2. /\ end \in Nat /\ maxId \in Nat /\ maxId <= end /\ id <= maxId - 1 /\ m.base = end
      /\ explicit \in BOOLEAN /\ Len(r) = end + IF explicit THEN maxId - 1 ELSE 0
  BY DEF FlatTop
<1>3. place = end - id /\ place \in Int
  BY <1>1, <1>2, SMTT(30)
<1>4. /\ DOMAIN msg.fields \subseteq 1 .. maxId - 1
      /\ \A j \in 1 .. maxId - 1 : r[end - j] = WordOf(msg.fields, j, end)
      /\ explicit =>
           \A j \in 1 .. maxId - 1 : r[end + j] = IF j \in DOMAIN msg.fields THEN 1 ELSE 0
  BY DEF FlatBlock
<1>5. /\ DOMAIN fields = DOMAIN msg.fields \cup {id}
      /\ word = WordOf(fields, id, end)
      /\ \A j : j # id => WordOf(fields, j, end) = WordOf(msg.fields, j, end)
  <2>1. DOMAIN fields = DOMAIN msg.fields \cup {id}
    BY DEF Added
  <2>2. \A j : j # id => WordOf(fields, j, end) = WordOf(msg.fields, j, end)
    BY AddedWords
  <2> QED
    BY <2>1, <2>2
<1>6. /\ marked \in Seq(Int) /\ Len(marked) = Len(r)
      /\ \A k \in 1 .. Len(r) :
           marked[k] = IF explicit /\ k = end + id /\ r[k] % 2 = 0 THEN r[k] + 1 ELSE r[k]
  <2>1. m.explicit => m.base + id <= Len(r)
    BY <1>1, <1>2
  <2>2. marked \in Seq(Int) /\ Len(marked) = Len(r)
    BY <1>1, <2>1, SetPresenceProperties
  <2>3. \A k \in 1 .. Len(r) :
           marked[k] = IF m.explicit /\ k = m.base + id /\ r[k] % 2 = 0 THEN r[k] + 1 ELSE r[k]
    BY <1>1, <2>1, PresenceSet
  <2> QED
    BY <2>2, <2>3
<1>7. t = [marked EXCEPT ![place] = word]
  OBVIOUS
<1> HIDE DEF end, maxId, explicit, place, marked, fields
<1>8. \A k \in 1 .. Len(r) : t[k] = IF k = place THEN word ELSE marked[k]
  BY <1>3, <1>6, <1>7, SetProperties
<1>9. ASSUME NEW j \in 1 .. maxId - 1
      PROVE  t[end - j] = WordOf(fields, j, end)
  <2> DEFINE k == end - j
  <2>1. k \in 1 .. Len(r) /\ k # end + id /\ (k = place <=> j = id)
    BY <1>1, <1>2, <1>3
  <2>2. r[k] = WordOf(msg.fields, j, end)
    BY <1>4
  <2> HIDE DEF k
  <2>3. t[k] = IF k = place THEN word ELSE r[k]
    BY <1>6, <1>8, <2>1
  <2> QED
    BY <1>5, <2>1, <2>2, <2>3 DEF k
<1>10. ASSUME explicit, NEW j \in 1 .. maxId - 1
       PROVE  t[end + j] = IF j \in DOMAIN fields THEN 1 ELSE 0
  <2> DEFINE k == end + j
  <2>1. k \in 1 .. Len(r) /\ k # place /\ (k = end + id <=> j = id)
    BY <1>1, <1>2, <1>3, <1>10
  <2>2. r[k] = IF j \in DOMAIN msg.fields THEN 1 ELSE 0
    BY <1>4, <1>10
  <2> HIDE DEF k
  <2>3. t[k] = IF j = id /\ r[k] % 2 = 0 THEN r[k] + 1 ELSE r[k]
    BY <1>6, <1>8, <1>10, <2>1
  <2>4. t[k] = IF j = id \/ j \in DOMAIN msg.fields THEN 1 ELSE 0
    <3>1. CASE j \in DOMAIN msg.fields
      BY ONLY <2>2, <2>3, <3>1
    <3>2. CASE j \notin DOMAIN msg.fields
      BY ONLY <2>2, <2>3, <3>2
    <3> QED
      BY <3>1, <3>2
  <2> QED
    BY <1>5, <2>4 DEF k
<1>11. DOMAIN fields \subseteq 1 .. maxId - 1
  BY <1>1, <1>2, <1>4, <1>5
<1>12. FlatBlock(t, end, maxId, explicit, fields)
  BY <1>9, <1>10, <1>11 DEF FlatBlock
<1> QED
  BY <1>12 DEF end, maxId, explicit, fields

LEMMA AddFlatContent ==
  ASSUME CInv, IInv', Kept, NEW id \in Field, NEW v \in Int, FieldFits(id, v, Floor),
         NEW default \in Int, NEW scalar \in BOOLEAN, scalar <=> id \notin RefFields,
         scalar => default = Default[id] /\ (~msg.explicit => v # default),
         AddFlat(id, v, default, scalar)
  PROVE  CInv'
<1> DEFINE r == IF msg.maxId = 0 THEN FirstBlock(id) ELSE right
           m == IF msg.maxId = 0 THEN Located(id) ELSE [msg EXCEPT !.prev = FlatOffset(id)]
           equal == scalar /\ v = default
           need == m.need \/ (m.explicit /\ equal)
           tracked == [m EXCEPT !.need = need]
           marked == SetPresence(r, m, id)
           word == IF scalar THEN Xor(v, default) ELSE m.end - v
           place == m.base - 1 - FlatOffset(id)
           fields == Added(id, v)
<1>1. /\ msg.is = "flat" /\ (msg.maxId # 0 => msg.prev >= FlatOffset(id) + 1)
      /\ UNCHANGED <<inline, objects>>
  BY DEF AddFlat
<1>2. \/ (msg.maxId = 0 /\ ~Checked(m.end)) /\ msg' = [msg EXCEPT !.tainted = TRUE]
      \/ (msg.maxId = 0 => Checked(m.end)) /\ msg' = [tracked EXCEPT !.tainted = TRUE]
      \/ /\ (msg.maxId = 0 => Checked(m.end)) /\ right' = [marked EXCEPT ![place] = word]
         /\ msg' = [tracked EXCEPT !.fields = fields]
  BY DEF AddFlat, Tainted
<1>3. FlatOpen /\ right \in Seq(Int) /\ msg \in FlatRecord(msg.fields) /\ Floor = msg.start
  BY <1>1, MessageKinds, FloorCases DEF CInv, IInv, ScalarsInv, FlatOpen, FlatMessage
<1>4. /\ r \in Seq(Int) /\ Len(r) = FlatTop(m)
      /\ msg.maxId # 0 \/ Checked(m.end) => FlatMessage(m, Len(r))
      /\ m.maxId # 0 /\ id <= m.maxId - 1 /\ m.start = msg.start /\ m.tainted = msg.tainted
  BY <1>1, <1>3, FlatTracked
<1>5. ASSUME ~msg.tainted
      PROVE  /\ FieldsFit(msg.fields, msg.start)
             /\ FlatBlock(r, m.end, m.maxId, m.explicit, msg.fields)
             /\ m.fields = msg.fields /\ m.explicit = msg.explicit
             /\ m.need => m.explicit
             /\ ~m.need => NoDefaults(msg.fields)
  <2>1. FieldsFit(msg.fields, msg.start) /\ FlatContent(right, msg)
    BY <1>1, <1>5 DEF CInv, MessageContent
  <2> QED
    BY <1>3, <1>5, <2>1, FlatLocated
<1> HIDE DEF r, m
<1>6. ASSUME msg'.tainted, msg'.is = "flat", msg'.start = msg.start
      PROVE  CInv'
  <2>1. MessageContent'
    BY <1>6 DEF MessageContent
  <2> QED
    BY <1>1, <1>6, <2>1, AddContent DEF OpenKinds
<1>7. CASE msg' = [msg EXCEPT !.tainted = TRUE]
  <2>1. msg'.tainted /\ msg'.is = "flat" /\ msg'.start = msg.start
    BY ONLY <1>3, <1>7 DEF FlatRecord
  <2> QED
    BY <1>6, <2>1
<1>8. ASSUME msg.maxId = 0 => Checked(m.end)
      PROVE  /\ m \in FlatRecord(m.fields) /\ m.end = m.start + m.maxId /\ (~m.tainted => m.base = m.end)
             /\ need \in BOOLEAN
  <2>1. FlatMessage(m, Len(r))
    BY <1>4, <1>8
  <2> QED
    BY ONLY <1>4, <2>1 DEF FlatMessage, FlatRecord
<1> HIDE DEF need
<1>9. CASE (msg.maxId = 0 => Checked(m.end)) /\ msg' = [tracked EXCEPT !.tainted = TRUE]
  <2>1. msg'.tainted /\ msg'.is = "flat" /\ msg'.start = m.start
    BY ONLY <1>8, <1>9 DEF FlatRecord
  <2> QED
    BY <1>4, <1>6, <2>1
<1>10. CASE /\ msg.maxId = 0 => Checked(m.end)
            /\ right' = [marked EXCEPT ![place] = word] /\ msg' = [tracked EXCEPT !.fields = fields]
  <2>1. /\ msg'.is = "flat" /\ msg'.start = m.start /\ msg'.end = m.end /\ msg'.maxId = m.maxId
        /\ msg'.need = need /\ msg'.explicit = m.explicit /\ msg'.fields = fields
        /\ msg'.tainted = m.tainted
        /\ m.explicit \in BOOLEAN /\ m.base \in Nat /\ m.end \in Nat /\ m.maxId \in Nat
        /\ m.start \in Nat /\ m.need \in BOOLEAN
    BY ONLY <1>8, <1>10 DEF FlatRecord
  <2>2. ASSUME ~msg.tainted
        PROVE  MessageContent'
    <3>1. m.base = m.end /\ m.end = m.start + m.maxId
      BY <1>4, <1>8, <1>10, <2>2
    <3>2. word \in Int
      BY <2>1 DEF Xor
    <3>3. /\ WordOf(fields, id, m.end) = IF id \in RefFields THEN m.end - v ELSE Xor(v, Default[id])
          /\ FieldsFit(fields, msg.start)
      <4> DEFINE start == msg.start
      <4>1. FieldsFit(msg.fields, start) /\ FieldFits(id, v, start)
        BY <1>3, <1>5, <2>2
      <4> HIDE DEF start
      <4>2. FieldsFit(fields, start)
        BY <4>1, AddedFields
      <4>3. WordOf(fields, id, m.end) = IF id \in RefFields THEN m.end - v ELSE Xor(v, Default[id])
        BY <4>1, AddedWords
      <4> QED
        BY <4>2, <4>3 DEF start
    <3>4. word = WordOf(fields, id, m.end)
      BY <3>3
    <3>5. FlatBlock(right', m.end, m.maxId, m.explicit, fields)
      <4> DEFINE start == msg.start
      <4>1. FieldsFit(msg.fields, start) /\ FieldFits(id, v, start)
        BY <1>3, <1>5, <2>2
      <4>2. FlatBlock(r, m.end, m.maxId, m.explicit, msg.fields)
        BY <1>5, <2>2
      <4>3. m.maxId <= m.base /\ id <= m.maxId - 1
        BY <1>4, <2>1, <3>1
      <4>4. right' = [SetPresence(r, m, id) EXCEPT ![m.base - 1 - FlatOffset(id)] = word]
        BY <1>10
      <4>5. word \in Int /\ word = WordOf(Added(id, v), id, m.end)
        BY <3>2, <3>4
      <4> HIDE DEF start, word, place, marked, tracked, fields
      <4>6. FlatBlock(right', m.end, m.maxId, m.explicit, Added(id, v))
        BY <1>4, <2>1, <3>1, <4>1, <4>2, <4>3, <4>4, <4>5, FlatFieldAdded
      <4> QED
        BY <4>6 DEF fields
    <3>6. m.need => need
      BY <2>1 DEF need
    <3>7. need => msg'.explicit
      BY <1>5, <2>1, <2>2 DEF need
    <3>8. ~need => NoDefaults(fields)
      <4> SUFFICES ASSUME ~need
                   PROVE  NoDefaults(fields)
        OBVIOUS
      <4> DEFINE start == msg.start
      <4>1. FieldsFit(msg.fields, start) /\ FieldFits(id, v, start)
        BY <1>3, <1>5, <2>2
      <4>2. NoDefaults(msg.fields)
        BY <1>5, <2>2 DEF need
      <4>3. id \notin RefFields => v # Default[id]
        BY <1>5, <2>2 DEF need
      <4> HIDE DEF start, fields
      <4> QED
        BY <4>1, <4>2, <4>3, AddedDefaults DEF fields
    <3>9. FlatContent(right', msg')
      BY <1>4, <2>1, <3>5, <3>7, <3>8 DEF FlatContent, FlatBlock
    <3> QED
      BY <1>4, <2>1, <3>3, <3>9 DEF MessageContent
  <2>3. MessageContent'
    BY <1>4, <2>1, <2>2 DEF MessageContent
  <2> QED
    BY <1>1, <1>4, <2>1, <2>3, AddContent DEF OpenKinds
<1> QED
  BY <1>2, <1>7, <1>9, <1>10

-----------------------------------------------------------------------------
(* Finishing a flat message.                                               *)

(* The size bits leave the presence bits below them alone.                 *)
LEMMA PresenceMasked ==
  ASSUME FlatOpen, msg.maxId # 0, right \in Seq(Int), msg.explicit, ~msg.tainted
  PROVE  /\ msg.end + msg.maxId - 1 = Len(FlatMeta(TRUE))
         /\ \A j \in 1 .. msg.maxId - 1 :
              right[msg.end + j] \in {0, 1} => FlatMeta(TRUE)[msg.end + j] % 2 = right[msg.end + j]
<1> DEFINE end == msg.end
           maxId == msg.maxId
           masked == ApplySizeMask(right, end, maxId, TRUE)
<1>1. /\ maxId \in Nat /\ maxId >= 2 /\ end \in Nat /\ Len(right) = end + maxId - 1
      /\ msg.sized \in BOOLEAN
  BY DEF FlatOpen, FlatMessage, FlatRecord, FlatTop, Size
<1>2. FlatMeta(TRUE) = IF msg.sized THEN masked ELSE right
  BY DEF FlatMeta
<1> HIDE DEF end, maxId
<1>3. Len(masked) = Len(right)
  BY <1>1, ApplySizeMaskProperties
<1>4. ASSUME NEW j \in 1 .. maxId - 1
      PROVE  masked[end + j] = 4 + right[end + j]
  <2>1. DOMAIN right = 1 .. Len(right)
    BY SeqFacts
  <2>2. end + j \in 1 .. Len(right) /\ end + j \in end + 1 .. end + maxId - 1
    BY <1>1
  <2> QED
    BY <2>1, <2>2 DEF ApplySizeMask, SizeBits
<1> HIDE DEF masked
<1>5. ASSUME NEW j \in 1 .. maxId - 1, right[end + j] \in {0, 1}
      PROVE  FlatMeta(TRUE)[end + j] % 2 = right[end + j]
  <2> DEFINE w == FlatMeta(TRUE)[end + j]
             bit == right[end + j]
  <2>1. bit \in {0, 1} /\ w \in {bit, 4 + bit}
    BY <1>2, <1>4, <1>5
  <2>2. 0 % 2 = 0 /\ 1 % 2 = 1 /\ 4 % 2 = 0 /\ 5 % 2 = 1
    OBVIOUS
  <2> HIDE DEF w, bit
  <2>3. \/ bit = 0 /\ (w = 0 \/ w = 4)
        \/ bit = 1 /\ (w = 1 \/ w = 5)
    BY <2>1
  <2>4. w % 2 = bit
    BY ONLY <2>2, <2>3
  <2> QED
    BY <2>4 DEF w, bit
<1>6. end + maxId - 1 = Len(FlatMeta(TRUE))
  BY <1>1, <1>2, <1>3
<1> QED
  BY <1>5, <1>6 DEF end, maxId

(* A flat message is complete once its limit is written.                   *)
LEMMA FinishedFlat ==
  ASSUME CInv, msg.is = "flat", ~msg.tainted, msg.maxId # 0,
         NEW truly, truly = (msg.explicit /\ msg.need),
         NEW r, r = [FlatMeta(truly) EXCEPT ![msg.end] = FlatTypedLimit(msg.maxId, msg.sized, truly)],
         NEW s \in Seq(Int), Agree(s, r, Len(r))
  PROVE  FlatReading(s, msg.end, msg.fields, msg.start, msg.maxId, msg.sized, truly)
<1> DEFINE o == msg.end
           fields == msg.fields
           maxId == msg.maxId
           sized == msg.sized
           limit == FlatTypedLimit(maxId, sized, truly)
           meta == FlatMeta(truly)
<1>1. FlatOpen /\ right \in Seq(Int) /\ FieldsFit(fields, msg.start) /\ FlatContent(right, msg)
  BY MessageKinds DEF CInv, IInv, ScalarsInv, MessageContent
<1>2. /\ o \in Nat /\ msg.start \in Nat /\ maxId \in Nat /\ maxId >= 2 /\ sized \in BOOLEAN
      /\ msg.explicit \in BOOLEAN /\ msg.need \in BOOLEAN /\ truly \in BOOLEAN
      /\ o = msg.start + maxId /\ o <= MaxOffset
  BY <1>1 DEF FlatOpen, FlatMessage, FlatRecord, Checked
<1>3. /\ meta \in Seq(Int) /\ o <= Len(meta)
      /\ \A k \in 1 .. o : meta[k] = right[k]
  BY <1>1, <1>2, FlatMetaProperties
<1>4. limit \in Int
  BY <1>2 DEF FlatTypedLimit, FlatBit
<1>5. r = [meta EXCEPT ![o] = limit]
  OBVIOUS
<1>6. truly => /\ o + maxId - 1 = Len(meta)
               /\ \A j \in 1 .. maxId - 1 : right[o + j] \in {0, 1} => meta[o + j] % 2 = right[o + j]
  <2>1. ASSUME truly
        PROVE  /\ o + maxId - 1 = Len(FlatMeta(TRUE))
               /\ \A j \in 1 .. maxId - 1 :
                    right[o + j] \in {0, 1} => FlatMeta(TRUE)[o + j] % 2 = right[o + j]
    BY <1>1, <2>1, PresenceMasked
  <2>2. truly => meta = FlatMeta(TRUE)
    <3>1. truly => truly = TRUE
      BY <1>2
    <3> QED
      BY <3>1
  <2> HIDE DEF meta
  <2> QED
    BY <2>1, <2>2
<1>7. /\ DOMAIN fields \subseteq 1 .. maxId - 1
      /\ \A j \in 1 .. maxId - 1 : right[o - j] = WordOf(fields, j, o)
      /\ truly => \A j \in 1 .. maxId - 1 : right[o + j] = IF j \in DOMAIN fields THEN 1 ELSE 0
      /\ ~truly => NoDefaults(fields)
  BY <1>1, <1>2 DEF FlatContent
<1> HIDE DEF o, fields, maxId, sized, limit, meta
<1>8. /\ Len(r) = Len(meta) /\ Len(meta) \in Nat
      /\ \A k \in 1 .. Len(meta) : r[k] = IF k = o THEN limit ELSE meta[k]
  BY <1>2, <1>3, <1>4, <1>5, SetProperties, SeqFacts
<1>9. /\ Len(meta) <= Len(s) /\ Len(s) \in Nat
      /\ \A k \in 1 .. Len(meta) : s[k] = IF k = o THEN limit ELSE meta[k]
  <2>1. Len(s) \in Nat
    BY SeqFacts
  <2> QED
    BY <1>8, <2>1 DEF Agree
<1>10. o \in 1 .. Len(s) /\ s[o] = limit
  BY <1>2, <1>3, <1>8, <1>9, SMTT(30)
<1>11. ASSUME NEW j \in 1 .. maxId - 1
       PROVE  s[o - j] = WordOf(fields, j, o)
  <2>1. o - j \in 1 .. o /\ o - j \in 1 .. Len(meta) /\ o - j # o
    BY <1>2, <1>3, <1>8, SMTT(30)
  <2>2. s[o - j] = right[o - j]
    BY <1>3, <1>9, <2>1
  <2> QED
    BY <1>7, <2>2
<1>12. ASSUME truly
       PROVE  /\ o + maxId - 1 <= Len(s)
              /\ \A j \in 1 .. maxId - 1 : s[o + j] % 2 = IF j \in DOMAIN fields THEN 1 ELSE 0
  <2>1. ASSUME NEW j \in 1 .. maxId - 1
        PROVE  s[o + j] % 2 = IF j \in DOMAIN fields THEN 1 ELSE 0
    <3>1. o + j \in 1 .. Len(meta) /\ o + j # o
      <4>1. o \in Nat /\ maxId \in Nat /\ o + maxId - 1 = Len(meta) /\ j \in 1 .. maxId - 1
        BY <1>2, <1>6, <1>12
      <4> QED
        BY ONLY <4>1
    <3>2. s[o + j] = meta[o + j]
      BY <1>9, <3>1
    <3>3. right[o + j] = IF j \in DOMAIN fields THEN 1 ELSE 0
      BY <1>7, <1>12
    <3>4. meta[o + j] % 2 = right[o + j]
      BY <1>6, <1>12, <3>3
    <3> QED
      BY <3>2, <3>3, <3>4
  <2>2. o + maxId - 1 <= Len(s)
    BY <1>6, <1>9, <1>12
  <2> QED
    BY <2>1, <2>2
<1>13. FlatWords(s, o, fields, maxId, sized, truly)
  BY <1>2, <1>7, <1>10, <1>11, <1>12, SMTT(30) DEF FlatWords, limit
<1>14. FlatReading(s, o, fields, msg.start, maxId, sized, truly)
  BY <1>1, <1>2, <1>13 DEF FlatReading, fields
<1> QED
  BY <1>14 DEF o, fields, maxId, sized

(* A message without fields is its typed limit.                            *)
LEMMA TypedLimitPushed ==
  ASSUME right \in Seq(Int), NEW limit \in Int, right' = Push(right, <<limit>>)
  PROVE  Size \in Nat /\ Size' = Size + 1 /\ right'[Size + 1] = limit
<1> DEFINE block == <<limit>>
<1>1. block \in Seq(Int) /\ Len(block) = 1 /\ block[1] = limit
  OBVIOUS
<1> HIDE DEF block
<1>2. /\ Len(Push(right, block)) = Len(right) + Len(block)
      /\ \A k \in 1 .. Len(block) : Push(right, block)[Len(right) + k] = block[Len(block) - k + 1]
  BY <1>1, PushProperties
<1>3. Push(right, block)[Len(right) + 1] = block[1]
  BY <1>1, <1>2
<1>4. Len(right) \in Nat
  BY SeqFacts
<1> QED
  BY <1>1, <1>2, <1>3, <1>4 DEF Size, block

(* A flat message without fields is its limit.                             *)
LEMMA EmptyFlat ==
  ASSUME NEW s \in Seq(Int), NEW o \in Nat, NEW fields, NEW start \in Nat,
         start < o, o <= MaxOffset, o <= Len(s), s[o] = FlatBit,
         FieldsFit(fields, start), DOMAIN fields = {}
  PROVE  FlatReading(s, o, fields, start, 0, FALSE, FALSE)
<1>1. FlatTypedLimit(0, FALSE, FALSE) = FlatBit
  BY DEF FlatTypedLimit, FlatBit
<1>2. o \in 1 .. Len(s)
  BY SeqFacts
<1>3. NoDefaults(fields)
  BY DEF NoDefaults
<1>4. FlatWords(s, o, fields, 0, FALSE, FALSE)
  BY <1>1, <1>2, <1>3 DEF FlatWords
<1> QED
  BY <1>4 DEF FlatReading

LEMMA FinishFlatContent ==
  ASSUME CInv, IInv', Kept, FinishFlat
  PROVE  CInv'
<1> DEFINE kind == Presence(msg)
           fields == msg.fields
           start == msg.start
<1>1. msg.is = "flat" /\ UNCHANGED inline
  BY DEF FinishFlat
<1>2. FlatOpen /\ right \in Seq(Int) /\ Size \in Nat
  BY <1>1, MessageKinds, SeqFacts DEF CInv, IInv, ScalarsInv, Size
<1>3. start \in Nat /\ start <= Size /\ msg.explicit \in BOOLEAN
  BY <1>2 DEF FlatOpen, FlatMessage, FlatRecord
<1>4. /\ kind \in {"explicit", "implicit"} /\ (msg.explicit => kind = "explicit")
      /\ kind = "implicit" => ~msg.explicit
  BY DEF Presence
<1>5. ~msg.tainted => FieldsFit(fields, start) /\ FlatContent(right, msg)
  BY <1>1 DEF CInv, MessageContent
<1>6. InlineContent'
  BY <1>1 DEF CInv, InlineContent
<1>7. ~msg.tainted /\ kind = "implicit" => NoDefaults(fields)
  BY <1>4, <1>5 DEF FlatContent
<1>8. CASE msg.maxId = 0
  <2>1. /\ right' = Push(right, <<FlatBit>>)
        /\ IF Checked(Size + 1) THEN Close(Size + 1, kind) ELSE Tainted /\ UNCHANGED objects
    BY <1>8 DEF FinishFlat
  <2>2. Size' = Size + 1 /\ right'[Size + 1] = FlatBit
    <3>1. FlatBit \in Int
      BY DEF FlatBit
    <3> QED
      BY <1>2, <2>1, <3>1, TypedLimitPushed
  <2>3. CASE Checked(Size + 1)
    <3>1. ASSUME ~msg.tainted
          PROVE  Settled([off |-> Size + 1, kind |-> kind, body |-> fields], right', Size')
      <4> SUFFICES ASSUME NEW s \in Seq(Int), Agree(s, right', Size')
                   PROVE  Reads(s, [off |-> Size + 1, kind |-> kind, body |-> fields])
        BY DEF Settled
      <4> DEFINE o == Size + 1
      <4>1. o \in Nat /\ start < o /\ o <= MaxOffset
        BY <1>2, <1>3, <2>3 DEF Checked
      <4>2. o <= Len(s) /\ s[o] = FlatBit
        BY <1>2, <2>2 DEF Agree
      <4>3. FieldsFit(fields, start) /\ DOMAIN fields = {}
        BY <1>5, <1>8, <3>1 DEF FlatContent
      <4> HIDE DEF o, start, fields, kind
      <4>4. FlatReading(s, o, fields, start, 0, FALSE, FALSE)
        BY <1>3, <4>1, <4>2, <4>3, EmptyFlat
      <4>5. Reads(s, [off |-> o, kind |-> kind, body |-> fields])
        BY <1>4, <1>7, <3>1, <4>4, FlatIsRead
      <4> QED
        BY <4>5 DEF o
    <3> QED
      BY <1>1, <1>6, <2>1, <2>3, <3>1, CloseContent DEF OpenKinds
  <2>4. CASE ~Checked(Size + 1)
    <3>1. msg' = [msg EXCEPT !.tainted = TRUE] /\ UNCHANGED <<inline, objects>>
      BY <1>1, <2>1, <2>4 DEF Tainted
    <3>2. msg'.is = "flat" /\ msg'.start = msg.start /\ msg'.tainted
      BY <1>2, <3>1 DEF FlatOpen, FlatMessage, FlatRecord
    <3>3. MessageContent'
      BY <3>2 DEF MessageContent
    <3> QED
      BY <1>1, <3>1, <3>2, <3>3, AddContent DEF OpenKinds
  <2> QED
    BY <2>3, <2>4
<1>9. CASE msg.maxId # 0
  <2> DEFINE truly == msg.explicit /\ msg.need
  <2>1. /\ right' = [FlatMeta(truly) EXCEPT ![msg.end] = FlatTypedLimit(msg.maxId, msg.sized, truly)]
        /\ Close(msg.end, kind)
    BY <1>9 DEF FinishFlat, FlatTypedLimit
  <2>2. ASSUME ~msg.tainted
        PROVE  Settled([off |-> msg.end, kind |-> kind, body |-> fields], right', Size')
    <3> SUFFICES ASSUME NEW s \in Seq(Int), Agree(s, right', Size')
                 PROVE  Reads(s, [off |-> msg.end, kind |-> kind, body |-> fields])
      BY DEF Settled
    <3> DEFINE o == msg.end
               maxId == msg.maxId
               sized == msg.sized
    <3>1. Agree(s, right', Len(right'))
      BY DEF Size
    <3>2. truly \in BOOLEAN /\ (truly => kind = "explicit")
      BY <1>4
    <3> HIDE DEF truly
    <3>3. FlatReading(s, o, fields, start, maxId, sized, truly)
      BY <1>1, <1>9, <2>1, <2>2, <3>1, FinishedFlat DEF truly
    <3> HIDE DEF o, fields, start, maxId, sized, kind
    <3>4. Reads(s, [off |-> o, kind |-> kind, body |-> fields])
      BY <1>4, <1>7, <2>2, <3>2, <3>3, FlatIsRead
    <3> QED
      BY <3>4 DEF o
  <2> QED
    BY <1>1, <1>6, <2>1, <2>2, CloseContent DEF OpenKinds
<1> QED
  BY <1>8, <1>9

-----------------------------------------------------------------------------
(* A field of a sparse message.                                            *)

(* The entry appended and the word pushed.                                 *)
OneMore(R, L, r, l, start, base, added, v, entry) ==
  /\ Len(R) = start + added + 1 /\ Len(L) = base + added + 1
  /\ R[start + added + 1] = v /\ L[base + added + 1] = entry
  /\ \A i \in 1 .. added : R[start + i] = r[start + i] /\ L[base + i] = l[base + i]

(* Both stacks after one more field of a sparse message.                   *)
LEMMA FieldPushed ==
  ASSUME NEW r \in Seq(Int), NEW l \in Seq(Table \cup FieldEntry),
         NEW start \in Nat, NEW base \in Nat, NEW added \in Nat,
         Len(r) = start + added, Len(l) = base + added, NEW v \in Int, NEW entry
  PROVE  OneMore(Push(r, <<v>>), Append(l, entry), r, l, start, base, added, v, entry)
<1> DEFINE block == <<v>>
           R == Push(r, block)
           L == Append(l, entry)
<1>1. block \in Seq(Int) /\ Len(block) = 1 /\ block[1] = v
  OBVIOUS
<1> HIDE DEF block
<1>2. /\ Len(R) = Len(r) + 1
      /\ \A k \in 1 .. Len(r) : R[k] = r[k]
      /\ R[Len(r) + 1] = v
  <2>1. /\ Len(R) = Len(r) + Len(block)
        /\ \A k \in 1 .. Len(r) : R[k] = r[k]
        /\ \A k \in 1 .. Len(block) : R[Len(r) + k] = block[Len(block) - k + 1]
    BY <1>1, PushProperties
  <2> HIDE DEF R
  <2>2. R[Len(r) + 1] = block[1]
    BY <1>1, <2>1
  <2> QED
    BY <1>1, <2>1, <2>2
<1>3. /\ Len(L) = Len(l) + 1 /\ L[Len(l) + 1] = entry
      /\ \A k \in 1 .. Len(l) : L[k] = l[k]
  OBVIOUS
<1> HIDE DEF R, L
<1>4. ASSUME NEW i \in 1 .. added
      PROVE  R[start + i] = r[start + i] /\ L[base + i] = l[base + i]
  <2>1. start + i \in 1 .. Len(r) /\ base + i \in 1 .. Len(l)
    OBVIOUS
  <2> QED
    BY <1>2, <1>3, <2>1
<1> QED
  BY <1>2, <1>3, <1>4 DEF R, L, block, OneMore

Wider(wide, fields, id, v) ==
  /\ DOMAIN wide = DOMAIN fields \cup {id} /\ wide[id] = v
  /\ \A f \in DOMAIN fields : f # id => wide[f] = fields[f]

Describes(entry, off, id) ==
  entry.off = off /\ entry.id = id /\ entry.scalar = (id \notin RefFields)

(* The run of a sparse message after one more field, with a lower id.      *)
LEMMA SparseGrown ==
  ASSUME NEW r \in Seq(Int), NEW l \in Seq(Table \cup FieldEntry),
         NEW start \in Nat, NEW base \in Nat, NEW added \in Nat, NEW maxId \in Nat,
         NEW prev \in Nat, NEW fields, FieldsFit(fields, start),
         SparseRun(r, l, start, base, added, fields, maxId, prev),
         NEW id \in Field, NEW v \in Int, prev = 0 \/ prev > id,
         NEW entry, Describes(entry, start + added + 1, id), NEW wider, Wider(wider, fields, id, v),
         NEW top, top = IF maxId = 0 THEN id + 1 ELSE maxId
  PROVE  SparseRun(Push(r, <<v>>), Append(l, entry), start, base, added + 1, wider, top, id)
<1> DEFINE R == Push(r, <<v>>)
           L == Append(l, entry)
           M == IF maxId = 0 THEN id + 1 ELSE maxId
<1>0. /\ entry.off = start + added + 1 /\ entry.id = id /\ entry.scalar = (id \notin RefFields)
      /\ DOMAIN wider = DOMAIN fields \cup {id} /\ wider[id] = v
      /\ \A f \in DOMAIN fields : f # id => wider[f] = fields[f]
      /\ top = M
  BY DEF Describes, Wider
<1>1. Len(r) = start + added /\ Len(l) = base + added
  BY DEF SparseRun
<1>2. /\ Len(R) = start + added + 1 /\ Len(L) = base + added + 1
      /\ R[start + added + 1] = v /\ L[base + added + 1] = entry
      /\ \A i \in 1 .. added : R[start + i] = r[start + i] /\ L[base + i] = l[base + i]
  <2>1. OneMore(R, L, r, l, start, base, added, v, entry)
    BY <1>1, FieldPushed
  <2> QED
    BY <2>1 DEF OneMore
<1>3. id \in Nat \ {0} /\ id < IdLimit /\ IdLimit \in Nat
  <2>1. MaxField \in Nat
    BY WireAssumption
  <2> QED
    BY <2>1 DEF Field, IdLimit
<1>4. ASSUME added # 0
      PROVE  maxId \in 2 .. IdLimit /\ prev = l[base + added].id /\ prev > id /\ prev < maxId
  <2>1. maxId \in 2 .. IdLimit /\ prev = l[base + added].id
    BY <1>4 DEF SparseRun
  <2>2. added \in 1 .. added
    BY <1>4
  <2>3. l[base + added].id \in DOMAIN fields /\ l[base + added].id < maxId
    BY <2>2 DEF SparseRun
  <2>4. l[base + added].id \in Field
    BY <2>3 DEF FieldsFit
  <2>5. prev # 0
    BY <2>1, <2>4 DEF Field
  <2> QED
    BY <2>1, <2>3, <2>5
<1>5. added = 0 => maxId = 0
  BY DEF SparseRun
<1> HIDE DEF R, L
<1>6. M \in 2 .. IdLimit /\ id < M /\ (added # 0 => M = maxId)
  <2>1. CASE added = 0
    BY ONLY <1>3, <1>5, <2>1 DEF M, IdLimit
  <2>2. CASE added # 0
    <3>1. maxId \in 2 .. IdLimit /\ prev > id /\ prev < maxId
      BY <1>4, <2>2
    <3>2. M = maxId
      BY ONLY <1>3, <3>1 DEF M
    <3> QED
      BY ONLY <1>3, <3>1, <3>2, prev \in Nat
  <2> QED
    BY <2>1, <2>2
<1> HIDE DEF M
<1>7. ASSUME NEW i \in 1 .. added
      PROVE  /\ l[base + i].off = start + i
             /\ l[base + i].id \in DOMAIN fields
             /\ l[base + i].scalar = (l[base + i].id \notin RefFields)
             /\ r[start + i] = fields[l[base + i].id]
             /\ l[base + i].id < M /\ l[base + i].id \in Nat /\ id < l[base + i].id
  <2>1. /\ l[base + i].off = start + i
        /\ l[base + i].id \in DOMAIN fields
        /\ l[base + i].scalar = (l[base + i].id \notin RefFields)
        /\ r[start + i] = fields[l[base + i].id]
        /\ l[base + i].id < maxId /\ prev <= l[base + i].id
    BY DEF SparseRun
  <2>2. l[base + i].id \in Nat
    BY <2>1, SMTT(30) DEF FieldsFit, Field
  <2>3. added # 0
    OBVIOUS
  <2>4. prev > id /\ M = maxId
    BY <1>4, <1>6, <2>3
  <2>5. id < l[base + i].id
    BY ONLY <1>3, <2>1, <2>2, <2>4, prev \in Nat, SMTT(30)
  <2> QED
    BY <2>1, <2>2, <2>4, <2>5
<1>8. \A i \in 1 .. added, j \in 1 .. added : i <= j => l[base + i].id - l[base + j].id >= j - i
  BY DEF SparseRun
<1>9. \A f \in DOMAIN fields : \E i \in 1 .. added : l[base + i].id = f
  BY DEF SparseRun
<1>10. /\ start + (added + 1) = start + added + 1 /\ base + (added + 1) = base + added + 1
       /\ added + 1 \in 1 .. added + 1 /\ added + 1 # 0
       /\ \A i \in 1 .. added + 1 : i = added + 1 \/ i \in 1 .. added
       /\ \A i \in 1 .. added : i \in 1 .. added + 1
  OBVIOUS
<1>11. ASSUME NEW i \in 1 .. added + 1
       PROVE  /\ L[base + i].off = start + i
              /\ L[base + i].id \in DOMAIN wider
              /\ L[base + i].scalar = (L[base + i].id \notin RefFields)
              /\ R[start + i] = wider[L[base + i].id]
              /\ L[base + i].id < M /\ id <= L[base + i].id
  <2>1. CASE i = added + 1
    <3>1. L[base + i] = entry /\ R[start + i] = v
      BY <1>0, <1>2, <1>10, <2>1
    <3>2. entry.off = start + i
      BY <1>0, <1>10, <2>1
    <3> QED
      BY ONLY <1>0, <1>3, <1>6, <3>1, <3>2, SMTT(30)
  <2>2. CASE i \in 1 .. added
    <3>1. L[base + i] = l[base + i] /\ R[start + i] = r[start + i]
      BY <1>2, <2>2
    <3>2. /\ l[base + i].off = start + i
          /\ l[base + i].id \in DOMAIN fields
          /\ l[base + i].scalar = (l[base + i].id \notin RefFields)
          /\ r[start + i] = fields[l[base + i].id]
          /\ l[base + i].id < M /\ l[base + i].id \in Nat /\ id < l[base + i].id
      BY <1>7, <2>2
    <3>3. l[base + i].id # id /\ id <= l[base + i].id
      BY ONLY <1>3, <3>2, SMTT(30)
    <3>4. wider[l[base + i].id] = fields[l[base + i].id]
      BY <1>0, <3>2, <3>3
    <3> QED
      BY ONLY <1>0, <3>1, <3>2, <3>3, <3>4
  <2> QED
    BY <1>10, <2>1, <2>2
<1>12. ASSUME NEW i \in 1 .. added + 1, NEW j \in 1 .. added + 1, i <= j
       PROVE  L[base + i].id - L[base + j].id >= j - i
  <2>1. CASE j \in 1 .. added
    <3>1. i \in 1 .. added
      BY <1>12, <2>1
    <3>2. L[base + i] = l[base + i] /\ L[base + j] = l[base + j]
      BY <1>2, <2>1, <3>1
    <3> QED
      BY <1>8, <1>12, <2>1, <3>1, <3>2
  <2>2. CASE j = added + 1 /\ i = added + 1
    <3>1. L[base + i].id = id /\ L[base + j].id = id
      BY <1>0, <1>2, <1>10, <2>2
    <3> QED
      BY ONLY <1>3, <2>2, <3>1, added \in Nat
  <2>3. CASE j = added + 1 /\ i \in 1 .. added
    <3>1. added \in 1 .. added /\ i <= added
      BY <2>3
    <3>2. l[base + i].id - l[base + added].id >= added - i
      BY <1>8, <2>3, <3>1
    <3>3. id < l[base + added].id /\ l[base + added].id \in Nat /\ l[base + i].id \in Nat
      BY <1>7, <2>3, <3>1
    <3>4. L[base + i] = l[base + i] /\ L[base + j].id = id
      BY <1>0, <1>2, <1>10, <2>3
    <3>5. l[base + i].id - id >= (added + 1) - i
      <4> DEFINE mine == l[base + i].id
                 last == l[base + added].id
      <4>1. mine - last >= added - i /\ id < last /\ last \in Nat /\ mine \in Nat
        BY <3>2, <3>3
      <4> HIDE DEF mine, last
      <4>2. mine - id >= (added + 1) - i
        BY ONLY <1>3, <3>1, <4>1, added \in Nat, i \in 1 .. added + 1
      <4> QED
        BY <4>2 DEF mine
    <3> QED
      BY ONLY <2>3, <3>4, <3>5
  <2> QED
    BY <1>10, <2>1, <2>2, <2>3
<1>13. ASSUME NEW f \in DOMAIN wider
       PROVE  \E i \in 1 .. added + 1 : L[base + i].id = f
  <2>1. CASE f = id
    BY <1>0, <1>2, <1>10, <2>1
  <2>2. CASE f # id
    <3>1. PICK i \in 1 .. added : l[base + i].id = f
      BY <1>0, <1>9, <2>2
    <3>2. i \in 1 .. added + 1 /\ L[base + i].id = f
      BY <1>0, <1>2, <1>10, <3>1
    <3> QED
      BY <3>2
  <2> QED
    BY <2>1, <2>2
<1>14. L[base + (added + 1)].id = id
  BY <1>0, <1>2, <1>10
<1>15. Len(R) = start + (added + 1) /\ Len(L) = base + (added + 1)
  BY <1>0, <1>2, <1>10
<1>16. SparseRun(R, L, start, base, added + 1, wider, M, id)
  BY ONLY <1>6, <1>10, <1>11, <1>12, <1>13, <1>14, <1>15 DEF SparseRun
<1> QED
  BY <1>0, <1>16 DEF R, L

(* What a client adds: a field of the schema, or an id that is refused.    *)
FieldInput(id, v, scalar) ==
  id \in Field => /\ FieldFits(id, v, Floor)
                  /\ scalar <=> id \notin RefFields
                  /\ scalar /\ ~msg.explicit => v # Default[id]

(* The id of a field that is accepted is the id of a field.                *)
LEMMA SparseInOrder ==
  ASSUME SparseContent(right, left, msg), FieldsFit(msg.fields, msg.start), SparseOpen,
         NEW id \in Nat, id > 0, msg.prev = 0 \/ msg.prev > id, msg.maxId # 0 \/ id < IdLimit
  PROVE  id \in Field
<1> DEFINE added == msg.added
           base == msg.base
           prev == msg.prev
           maxId == msg.maxId
           fields == msg.fields
           start == msg.start
<1>1. added \in Nat /\ prev \in Nat
  BY DEF SparseOpen, SparseRecord
<1>2. SparseRun(right, left, start, base, added, fields, maxId, prev) /\ FieldsFit(fields, start)
  BY DEF SparseContent
<1>3. (prev = 0 \/ prev > id) /\ (maxId # 0 \/ id < IdLimit)
  OBVIOUS
<1> HIDE DEF added, base, prev, maxId, fields, start
<1>4. MaxField \in Nat
  BY WireAssumption
<1>5. CASE added = 0
  <2>1. maxId = 0
    BY <1>2, <1>5 DEF SparseRun
  <2> QED
    BY ONLY <1>3, <1>4, <2>1, id \in Nat, id > 0 DEF Field, IdLimit
<1>6. CASE added # 0
  <2>1. added \in 1 .. added
    BY <1>1, <1>6
  <2>2. prev = left[base + added].id /\ left[base + added].id \in DOMAIN fields
    BY <1>2, <1>6, <2>1 DEF SparseRun
  <2>3. prev \in Field
    BY <1>2, <2>2 DEF FieldsFit
  <2> QED
    BY ONLY <1>1, <1>3, <1>4, <2>3, id \in Nat, id > 0 DEF Field
<1> QED
  BY <1>5, <1>6

LEMMA AddSparseContent ==
  ASSUME CInv, IInv', Kept, NEW id \in Nat, NEW v \in Int, NEW scalar \in BOOLEAN,
         FieldInput(id, v, scalar), AddSparse(id, v, scalar)
  PROVE  CInv'
<1> DEFINE inOrder == id > 0 /\ (msg.prev = 0 \/ msg.prev > id)
           ranged == msg.maxId # 0 \/ id < IdLimit
           prev == IF inOrder THEN id ELSE msg.prev
           maxId == IF inOrder /\ ranged /\ msg.maxId = 0 THEN id + 1 ELSE msg.maxId
           m == [msg EXCEPT !.prev = prev, !.maxId = maxId]
           entry == [is |-> "field", off |-> Size + 1, id |-> id, scalar |-> scalar]
           accepted == inOrder /\ ranged /\ Checked(Size + 1)
           fields == Added(id, v)
           added == msg.added + 1
<1>1. /\ msg.is = "sparse" /\ right' = Push(right, <<v>>)
      /\ UNCHANGED <<inline, objects>>
      /\ IF accepted
           THEN left' = Append(left, entry) /\ msg' = [m EXCEPT !.added = m.added + 1, !.fields = fields]
           ELSE msg' = [m EXCEPT !.tainted = TRUE]
  BY DEF AddSparse
<1>2. SparseOpen /\ LeftInv /\ right \in Seq(Int) /\ Floor = msg.start
  BY <1>1, MessageKinds, FloorCases DEF CInv, IInv, ScalarsInv
<1>3. /\ msg \in SparseRecord(msg.fields) /\ msg.start \in Nat /\ msg.explicit \in BOOLEAN
      /\ msg.prev \in Nat /\ msg.maxId \in Nat /\ msg.added \in Nat /\ msg.base \in Nat
      /\ msg.tainted \in BOOLEAN
  BY <1>2 DEF SparseOpen, SparseRecord
<1>4. prev \in Nat /\ maxId \in Nat /\ added \in Nat /\ added = msg.added + 1
  BY <1>3
<1>5. /\ inOrder => id > 0 /\ (msg.prev = 0 \/ msg.prev > id)
      /\ ranged => msg.maxId # 0 \/ id < IdLimit
      /\ accepted => inOrder /\ ranged
      /\ accepted => prev = id /\ maxId = IF msg.maxId = 0 THEN id + 1 ELSE msg.maxId
  OBVIOUS
<1> HIDE DEF accepted, inOrder, ranged, prev, maxId, fields, added
<1>6. /\ m \in SparseRecord(msg.fields) /\ m.is = "sparse" /\ m.fields = msg.fields
      /\ m.maxId = maxId /\ m.prev = prev /\ m.explicit = msg.explicit
      /\ m.start = msg.start /\ m.base = msg.base /\ m.added = msg.added /\ m.tainted = msg.tainted
  BY ONLY <1>3, <1>4 DEF SparseRecord
<1> HIDE DEF m
<1>7. CASE ~accepted
  <2>1. msg' = [m EXCEPT !.tainted = TRUE]
    BY <1>1, <1>7
  <2>2. msg'.is = "sparse" /\ msg'.start = msg.start /\ msg'.tainted
    BY ONLY <1>6, <2>1 DEF SparseRecord
  <2>3. MessageContent'
    BY <2>2 DEF MessageContent
  <2> QED
    BY <1>1, <2>2, <2>3, AddContent DEF OpenKinds
<1>8. CASE accepted
  <2>1. left' = Append(left, entry) /\ msg' = [m EXCEPT !.added = added, !.fields = fields]
    BY <1>1, <1>4, <1>6, <1>8
  <2>2. /\ msg'.is = "sparse" /\ msg'.start = msg.start /\ msg'.base = msg.base
        /\ msg'.added = added /\ msg'.fields = fields /\ msg'.maxId = maxId /\ msg'.prev = prev
        /\ msg'.explicit = msg.explicit /\ msg'.tainted = msg.tainted
    BY ONLY <1>6, <2>1 DEF SparseRecord
  <2>3. ASSUME ~msg.tainted
        PROVE  FieldsFit(fields, msg.start) /\ SparseContent(right', left', msg')
    <3>1. SparseContent(right, left, msg) /\ FieldsFit(msg.fields, msg.start)
      BY <1>1, <2>3 DEF CInv, MessageContent
    <3>2. id \in Field
      BY <1>2, <1>5, <1>8, <3>1, SparseInOrder
    <3>3. /\ FieldFits(id, v, msg.start) /\ (scalar <=> id \notin RefFields)
          /\ scalar /\ ~msg.explicit => v # Default[id]
      BY <1>2, <3>2 DEF FieldInput
    <3> DEFINE start == msg.start
               base == msg.base
               count == msg.added
               old == msg.fields
               oldMax == msg.maxId
               oldPrev == msg.prev
    <3>4. /\ FieldsFit(old, start) /\ FieldFits(id, v, start)
          /\ SparseRun(right, left, start, base, count, old, oldMax, oldPrev)
          /\ start \in Nat /\ base \in Nat /\ count \in Nat /\ oldMax \in Nat /\ oldPrev \in Nat
          /\ oldPrev = 0 \/ oldPrev > id
      BY <1>3, <1>5, <1>8, <3>1, <3>3 DEF SparseContent
    <3>5. Describes(entry, start + count + 1, id)
      <4>1. Size = start + count
        BY <3>4 DEF SparseRun, Size
      <4>2. scalar = (id \notin RefFields)
        BY <3>3
      <4> QED
        BY <4>1, <4>2 DEF Describes
    <3>6. left \in Seq(Table \cup FieldEntry)
      BY <1>2 DEF LeftInv
    <3> HIDE DEF start, base, count, old, oldMax, oldPrev, entry
    <3>7. Wider(fields, old, id, v) /\ maxId = IF oldMax = 0 THEN id + 1 ELSE oldMax
      BY <1>5, <1>8 DEF Added, fields, old, oldMax, Wider
    <3>8. SparseRun(Push(right, <<v>>), Append(left, entry), start, base, count + 1, fields, maxId, id)
      BY <1>2, <3>2, <3>4, <3>5, <3>6, <3>7, SparseGrown
    <3>9. SparseRun(right', left', msg'.start, msg'.base, msg'.added, msg'.fields, msg'.maxId, msg'.prev)
      BY <1>1, <1>4, <1>5, <1>8, <2>1, <2>2, <3>8 DEF start, base, count, oldMax
    <3>10. FieldsFit(msg.fields, start) /\ FieldFits(id, v, start)
      BY <3>4 DEF old
    <3>11. FieldsFit(fields, start)
      BY <3>2, <3>10, AddedFields DEF fields
    <3>12. ~msg.explicit => NoDefaults(fields)
      <4>1. ~msg.explicit => NoDefaults(msg.fields)
        BY <3>1 DEF SparseContent
      <4>2. ~msg.explicit => (id \notin RefFields => v # Default[id])
        BY <3>3
      <4> QED
        BY <3>2, <3>10, <4>1, <4>2, AddedDefaults DEF fields
    <3> QED
      BY <2>2, <3>9, <3>11, <3>12 DEF start, SparseContent
  <2>4. MessageContent'
    BY <2>2, <2>3 DEF MessageContent
  <2> QED
    BY <1>1, <2>2, <2>4, AddContent DEF OpenKinds
<1> QED
  BY <1>7, <1>8

-----------------------------------------------------------------------------
(* The table of a finished sparse message.                                 *)

(* What two bytes of an entry tell.                                        *)
Told(low, high) == low + ByteMod * high

TableWords(r, start, fields, maxId) ==
  /\ r \in Seq(Int) /\ maxId \in 2 .. IdLimit
  /\ Len(r) = start + 1 + MetaSize(maxId)
  /\ r[start] = SparseLimit(maxId)
  /\ DOMAIN fields \subseteq 1 .. maxId - 1
  /\ \A id \in 1 .. maxId - 1 :
       IF id \in DOMAIN fields
         THEN /\ Entry(r, start + 1, id) \in 1 .. start - 1
              /\ r[start - Entry(r, start + 1, id)] = SparseWordOf(fields, id, start)
         ELSE Entry(r, start + 1, id) = 0

(* The first n words of s are those of r but for the link above start.     *)
Linked(s, r, n, start, link) ==
  /\ s \in Seq(Int) /\ n <= Len(s)
  /\ \A k \in 1 .. n : s[k] = IF k = start + 1 THEN link ELSE r[k]

(* Its own table or one with the same bytes: the reader finds the same.    *)
LEMMA TableIsFound ==
  ASSUME NEW r, NEW start \in Nat \ {0}, NEW fields, NEW maxId, TableWords(r, start, fields, maxId),
         NEW off \in Nat, NEW n \in Nat, start + 1 <= n, n <= Len(r), off <= n,
         MetaSize(maxId) <= off, off = Len(r) \/ off <= start,
         Block(r, off, MetaSize(maxId)) = Block(r, Len(r), MetaSize(maxId)),
         NEW s, Linked(s, r, n, start, start - (off - MetaSize(maxId)))
  PROVE  SparseWords(s, start, fields, maxId)
<1> DEFINE size == MetaSize(maxId)
           end == off - size
<1>1. /\ r \in Seq(Int) /\ maxId \in Nat /\ maxId >= 2 /\ maxId <= IdLimit /\ IdLimit \in Nat
      /\ Len(r) \in Nat /\ Len(r) = start + 1 + size
  <2>1. MaxField \in Nat
    BY WireAssumption
  <2> QED
    BY <2>1, SeqFacts DEF TableWords, IdLimit
<1>2. size \in Nat /\ size <= off
  BY <1>1, MetaSizeProperties
<1>3. /\ s \in Seq(Int) /\ n <= Len(s) /\ Len(s) \in Nat
      /\ \A k \in 1 .. n : s[k] = IF k = start + 1 THEN start - end ELSE r[k]
  BY SeqFacts DEF Linked
<1>4. \A k \in 1 .. size : r[off - size + k] = r[Len(r) - size + k]
  <2>1. /\ off \in 0 .. Len(r) /\ size \in 0 .. off
        /\ Len(r) \in 0 .. Len(r) /\ size \in 0 .. Len(r)
    BY ONLY <1>1, <1>2, off \in Nat, n \in Nat, off <= n, n <= Len(r), start \in Nat
  <2>2. \A k \in 1 .. size : Block(r, off, size)[k] = r[off - size + k]
    BY <1>1, <2>1, BlockProperties
  <2>3. \A k \in 1 .. size : Block(r, Len(r), size)[k] = r[Len(r) - size + k]
    BY <1>1, <2>1, BlockProperties
  <2> QED
    BY <2>2, <2>3
<1>5. end \in Nat /\ off = end + size
  BY <1>2
<1>6. size = MetaSize(maxId)
  OBVIOUS
<1> HIDE DEF end, size
<1>7. ASSUME NEW k \in 1 .. size
      PROVE  Word(s, end + k) = r[start + 1 + k] /\ end + k \in 1 .. n
  <2>1. end + k \in 1 .. n
    BY ONLY <1>2, <1>5, off <= n, n \in Nat, k \in 1 .. size
  <2>2. end + k # start + 1
    BY ONLY <1>1, <1>2, <1>5, off = Len(r) \/ off <= start, k \in 1 .. size, start \in Nat
  <2>3. off - size + k = end + k /\ Len(r) - size + k = start + 1 + k
    BY ONLY <1>1, <1>2, <1>5, start \in Nat, k \in 1 .. size
  <2>4. r[end + k] = r[start + 1 + k]
    BY <1>4, <2>3
  <2>5. s[end + k] = r[end + k]
    BY <1>3, <2>1, <2>2
  <2>6. end + k \in 1 .. Len(s)
    BY <1>3, <2>1
  <2> QED
    BY <1>3, <2>1, <2>4, <2>5, <2>6, WordInside
<1>8. ASSUME NEW k \in 1 .. start
      PROVE  s[k] = r[k]
  BY <1>3
<1>9. Word(s, start + 1) = start - end
  <2>1. start + 1 \in 1 .. n /\ start + 1 \in 1 .. Len(s)
    BY <1>3
  <2> QED
    BY <1>3, <2>1, WordInside
<1>10. MetaEnd(s, start) = end
  BY <1>5, <1>9 DEF MetaEnd
<1>11. ASSUME NEW id \in 1 .. maxId - 1
       PROVE  SparseOffset(s, start, id) = Entry(r, start + 1, id)
  <2>1. /\ MetaPlace(id) \in 1 .. size
        /\ ~IsTiny(id) => MetaPlace(id) - 1 \in 1 .. size
    BY <1>1, <1>6, MetaPlaces
  <2>2. Word(s, end + MetaPlace(id)) = r[start + 1 + MetaPlace(id)]
    BY <1>7, <2>1
  <2>3. ~IsTiny(id) => Word(s, end + MetaPlace(id) - 1) = r[start + 1 + MetaPlace(id) - 1]
    <3> DEFINE p == MetaPlace(id) - 1
    <3>1. /\ end + p = end + MetaPlace(id) - 1 /\ start + 1 + p = start + 1 + MetaPlace(id) - 1
      BY <1>5, <2>1
    <3>2. ~IsTiny(id) => p \in 1 .. size
      BY <2>1
    <3> HIDE DEF p
    <3>3. ~IsTiny(id) => Word(s, end + p) = r[start + 1 + p]
      BY <1>7, <3>2
    <3> QED
      BY <3>1, <3>3
  <2>5. CASE IsTiny(id)
    BY <1>10, <2>2, <2>5 DEF SparseOffset, Entry
  <2>6. CASE ~IsTiny(id)
    <3>1. SparseOffset(s, start, id)
            = Told(Word(s, end + MetaPlace(id)), Word(s, end + MetaPlace(id) - 1))
      <4>1. SparseOffset(s, start, id) = Told(Word(s, MetaEnd(s, start) + MetaPlace(id)),
                                              Word(s, (MetaEnd(s, start) + MetaPlace(id)) - 1))
        BY <2>6 DEF SparseOffset, Told
      <4>2. (end + MetaPlace(id)) - 1 = end + MetaPlace(id) - 1
        BY <1>5, <2>1
      <4> QED
        BY <1>10, <4>1, <4>2
    <3>2. Entry(r, start + 1, id)
            = Told(r[start + 1 + MetaPlace(id)], r[start + 1 + MetaPlace(id) - 1])
      BY <2>6 DEF Entry, Told
    <3> QED
      BY <2>2, <2>3, <2>6, <3>1, <3>2
  <2> QED
    BY <2>5, <2>6
<1>12. start \in 1 .. Len(s) /\ s[start] = SparseLimit(maxId)
  <2>1. start \in 1 .. start /\ start \in 1 .. Len(s)
    BY <1>3
  <2> QED
    BY <1>8, <2>1 DEF TableWords
<1>13. ASSUME NEW id \in 1 .. maxId - 1
       PROVE  IF id \in DOMAIN fields
                THEN /\ SparseOffset(s, start, id) \in 1 .. start - 1
                     /\ s[start - SparseOffset(s, start, id)] = SparseWordOf(fields, id, start)
                ELSE SparseOffset(s, start, id) = 0
  <2> DEFINE e == Entry(r, start + 1, id)
  <2>1. IF id \in DOMAIN fields
          THEN e \in 1 .. start - 1 /\ r[start - e] = SparseWordOf(fields, id, start)
          ELSE e = 0
    BY DEF TableWords
  <2>2. SparseOffset(s, start, id) = e
    BY <1>11
  <2> HIDE DEF e
  <2>3. e \in 1 .. start - 1 => start - e \in 1 .. start
    OBVIOUS
  <2> QED
    BY <1>8, <2>1, <2>2, <2>3
<1>14. DOMAIN fields \subseteq 1 .. maxId - 1 /\ maxId # 0 /\ maxId \in 0 .. IdLimit
  BY <1>1 DEF TableWords
<1> QED
  BY <1>3, <1>12, <1>13, <1>14 DEF SparseWords

(* A table is readable from the message, shared or not.                    *)
LEMMA FinishMetadataContent ==
  ASSUME NEW r, NEW start \in Nat \ {0}, NEW fields, NEW m, TableWords(r, start, fields, m.maxId),
         NEW l, NEW floor \in Nat, Tables(l, floor), floor < start,
         FinishMetadata(r, l, m, start), msg' = None, m.is # "none",
         NEW s, Agree(s, right', Size')
  PROVE  SparseWords(s, start, fields, m.maxId)
<1> DEFINE maxId == m.maxId
           size == MetaSize(maxId)
           same == SameMeta(r, l, maxId)
           off == IF same = {} THEN Len(r) ELSE l[Min(same)].off
           popped == IF same = {} THEN 0 ELSE size
           kept == Pop(r, popped)
           word == start - (off - size)
<1>1. right' = [kept EXCEPT ![start + 1] = word]
  <2>1. msg' # [m EXCEPT !.tainted = TRUE]
    BY DEF None
  <2> QED
    BY <2>1 DEF FinishMetadata
<1>2. /\ r \in Seq(Int) /\ maxId \in Nat /\ maxId >= 2 /\ Len(r) \in Nat
      /\ Len(r) = start + 1 + size
  <2>1. MaxField \in Nat
    BY WireAssumption
  <2> QED
    BY <2>1, SeqFacts DEF TableWords, IdLimit
<1>3. size \in Nat
  BY <1>2, MetaSizeProperties
<1>4. /\ off \in Nat /\ size <= off /\ off <= Len(r) - popped /\ (off = Len(r) \/ off <= start)
      /\ Block(r, off, size) = Block(r, Len(r), size)
      /\ popped \in 0 .. Len(r) /\ start + 1 <= Len(r) - popped
  <2>1. CASE same = {}
    BY <1>2, <1>3, <2>1
  <2>2. CASE same # {}
    <3>1. same \subseteq DOMAIN l /\ l \in Seq(Table)
      BY DEF SameMeta, Tables
    <3>2. DOMAIN l = 1 .. Len(l) /\ \A i \in DOMAIN l : l[i] \in Table
      BY <3>1, SeqFacts
    <3>3. Min(same) \in same
      BY <2>2, <3>1, <3>2, MinIsLeast
    <3> DEFINE i == Min(same)
    <3>4. /\ i \in DOMAIN l /\ l[i].maxId = maxId
          /\ Block(r, l[i].off, size) = Block(r, Len(r), size)
      BY <3>3 DEF SameMeta
    <3>5. off = l[i].off /\ popped = size
      BY <2>2
    <3> HIDE DEF i, off, popped, size
    <3>6. l[i].off \in size .. floor
      BY <3>4 DEF Tables, size
    <3> QED
      BY <1>2, <1>3, <3>4, <3>5, <3>6, SMTT(30)
  <2> QED
    BY <2>1, <2>2
<1>5. word \in Int
  BY <1>3, <1>4
<1> DEFINE n == Len(r) - popped
<1>6. size = MetaSize(maxId) /\ maxId = m.maxId /\ word = start - (off - size) /\ n \in Nat
      /\ n <= Len(r) /\ start + 1 <= n /\ off <= n
  BY <1>2, <1>3, <1>4, SMTT(30)
<1> HIDE DEF off, popped, size, same, word
<1>7. /\ kept \in Seq(Int) /\ Len(kept) = n /\ \A k \in 1 .. n : kept[k] = r[k]
  BY <1>2, <1>4, PopProperties
<1> HIDE DEF kept, n
<1>8. /\ right' \in Seq(Int) /\ Len(right') = n
      /\ \A k \in 1 .. n : right'[k] = IF k = start + 1 THEN word ELSE kept[k]
  BY <1>1, <1>5, <1>7, SetProperties
<1>9. Linked(s, r, n, start, word)
  <2>1. Size' = n
    BY <1>8 DEF Size
  <2> QED
    BY <1>7, <1>8, <2>1 DEF Linked, Agree
<1> HIDE DEF maxId
<1>10. TableWords(r, start, fields, maxId)
  BY DEF maxId
<1>11. SparseWords(s, start, fields, maxId)
  <2>1. Linked(s, r, n, start, start - (off - MetaSize(maxId)))
    BY <1>6, <1>9
  <2>2. MetaSize(maxId) <= off /\ Block(r, off, MetaSize(maxId)) = Block(r, Len(r), MetaSize(maxId))
    BY <1>4, <1>6
  <2> QED
    BY <1>4, <1>6, <1>10, <2>1, <2>2, TableIsFound
<1> QED
  BY <1>11 DEF maxId

-----------------------------------------------------------------------------
(* The loop of Finish over the fields of a sparse message.                 *)

Low(start, id) == start + 1 + MetaPlace(id)

(* A word that LinkField may change for the field of this id at off.       *)
Touches(k, start, off, id) ==
  k = off \/ k = Low(start, id) \/ (~IsTiny(id) /\ k = Low(start, id) - 1)

(* What LinkField makes of the words it changes.                           *)
FieldIsLinked(w, r, start, field) ==
  /\ w[Low(start, field.id)] = (start - field.off) % ByteMod
  /\ ~IsTiny(field.id) => w[Low(start, field.id) - 1] = ((start - field.off) \div ByteMod) % ByteMod
  /\ w[field.off] = IF field.scalar THEN r[field.off] ELSE start - r[field.off]
  /\ \A k \in 1 .. Len(r) : ~Touches(k, start, field.off, field.id) => w[k] = r[k]

(* LinkField writes the entry of its field and relates its reference.      *)
LEMMA FieldLinked ==
  ASSUME NEW r \in Seq(Int), NEW start \in Nat, NEW field \in FieldEntry,
         field.off \in 1 .. start - 1, Low(start, field.id) <= Len(r),
         field.scalar \/ ~(start < r[field.off])
  PROVE  FieldIsLinked(LinkField(r, start, field), r, start, field)
<1> DEFINE off == field.off
           id == field.id
           d == start - off
           low == Low(start, id)
           marked == WriteFieldMeta(r, start, id, d)
           word == start - marked[off]
           linked == [marked EXCEPT ![off] = word]
           w == LinkField(r, start, field)
<1>1. /\ off \in Nat /\ off >= 1 /\ off <= start - 1 /\ id \in Nat \ {0} /\ d \in Nat
      /\ field.scalar \in BOOLEAN
  BY DEF FieldEntry
<1>2. w = IF field.scalar THEN marked ELSE linked
  <2>1. w = IF field.scalar \/ start < r[off] THEN marked ELSE linked
    BY DEF LinkField
  <2> QED
    BY <2>1
<1>3. /\ low \in Int /\ low > start /\ (~IsTiny(id) => low - 1 > start) /\ Len(r) \in Nat
      /\ low <= Len(r) /\ off \in 1 .. Len(r) /\ low = start + 1 + MetaPlace(id)
  <2>1. MetaPlace(id) \in Nat \ {0} /\ (~IsTiny(id) => MetaPlace(id) >= 2)
    BY <1>1, MetaPlaceType
  <2>2. low = start + 1 + MetaPlace(id) /\ low <= Len(r) /\ Len(r) \in Nat
    BY SeqFacts DEF Low
  <2> HIDE DEF low, off
  <2> QED
    BY ONLY <1>1, <2>1, <2>2, start \in Nat
<1> HIDE DEF off, id, d, low, w
<1>4. /\ marked \in Seq(Int) /\ Len(marked) = Len(r)
      /\ marked[low] = d % ByteMod
      /\ ~IsTiny(id) => marked[low - 1] = (d \div ByteMod) % ByteMod
      /\ \A k \in 1 .. Len(r) :
           k # low /\ (~IsTiny(id) => k # low - 1) => marked[k] = r[k]
  <2>1. start + 1 + MetaPlace(id) <= Len(r)
    BY <1>3
  <2>2. MetaPlace(id) \in Int
    BY <1>1, MetaPlaceType
  <2>3. start + 1 + MetaPlace(id) - 1 = low - 1
    BY <1>3, <2>2
  <2>4. FieldMetaWritten(marked, r, start, id, d)
    BY <1>1, <2>1, MetaWords
  <2> HIDE DEF marked
  <2> QED
    BY <1>3, <2>3, <2>4 DEF FieldMetaWritten
<1>5. off # low /\ (~IsTiny(id) => off # low - 1)
  BY <1>1, <1>3
<1>6. marked[off] = r[off]
  BY <1>3, <1>4, <1>5
<1> HIDE DEF marked
<1>7. word \in Int /\ word = start - r[off]
  <2>1. r[off] \in Int
    BY <1>3, SeqFacts
  <2> QED
    BY <1>6, <2>1
<1> HIDE DEF word
<1>8. \A k \in 1 .. Len(r) : linked[k] = IF k = off THEN word ELSE marked[k]
  <2>1. \A k \in 1 .. Len(marked) : linked[k] = IF k = off THEN word ELSE marked[k]
    BY <1>1, <1>4, <1>7, SetProperties
  <2> QED
    BY <1>4, <2>1
<1> HIDE DEF linked
<1>9. low \in 1 .. Len(r) /\ (~IsTiny(id) => low - 1 \in 1 .. Len(r))
  BY <1>3
<1>10. w[low] = d % ByteMod
  BY <1>2, <1>4, <1>5, <1>8, <1>9
<1>11. ~IsTiny(id) => w[low - 1] = (d \div ByteMod) % ByteMod
  BY <1>2, <1>4, <1>5, <1>8, <1>9
<1>12. w[off] = IF field.scalar THEN r[off] ELSE start - r[off]
  BY <1>2, <1>3, <1>6, <1>7, <1>8
<1>13. ASSUME NEW k \in 1 .. Len(r), ~Touches(k, start, off, id)
       PROVE  w[k] = r[k]
  <2>1. k # off /\ k # low /\ (~IsTiny(id) => k # low - 1)
    BY <1>13 DEF Touches, low
  <2> QED
    BY <1>2, <1>4, <1>8, <2>1
<1> QED
  BY <1>10, <1>11, <1>12, <1>13 DEF off, id, d, low, w, FieldIsLinked

(* A word all the fields but one leave alone.                              *)
OnlyWord(k, r, start, w) ==
  /\ \A i \in msg.base + 1 .. msg.base + msg.added :
       LinkField(r, start, left[i])[k] = r[k] \/ LinkField(r, start, left[i])[k] = w
  /\ w = r[k] \/ \E i \in msg.base + 1 .. msg.base + msg.added :
                   LinkField(r, start, left[i])[k] = w

(* A word that one field alone may touch is what that field makes of it.   *)
LEMMA WordLinked ==
  ASSUME NEW r, NEW start, LinkFields(r, start).ok, NEW k \in DOMAIN r, NEW w,
         OnlyWord(k, r, start, w)
  PROVE  LinkFields(r, start).r[k] = w
<1> DEFINE fields == {left[i] : i \in msg.base + 1 .. msg.base + msg.added}
           unfit == {f \in fields : ~f.scalar /\ start < r[f.off]}
           reached == {f \in fields : \A g \in unfit : f.off <= g.off}
           images == {LinkField(r, start, f) : f \in reached}
           changed(j) == {image[j] : image \in images} \ {r[j]}
<1>1. unfit = {}
  BY DEF LinkFields
<1>2. LinkFields(r, start).r[k] = IF changed(k) = {} THEN r[k] ELSE CHOOSE word \in changed(k) : TRUE
  BY DEF LinkFields
<1>3. reached = fields
  BY <1>1
<1> HIDE DEF unfit
<1>4. /\ \A word \in changed(k) : word = w /\ word # r[k]
      /\ w # r[k] => w \in changed(k)
  <2>1. images = {LinkField(r, start, f) : f \in fields}
    BY <1>3
  <2>2. ASSUME NEW word \in changed(k)
        PROVE  word = w /\ word # r[k]
    <3>1. PICK f \in fields : word = LinkField(r, start, f)[k]
      BY <2>1
    <3>2. PICK i \in msg.base + 1 .. msg.base + msg.added : f = left[i]
      OBVIOUS
    <3> QED
      BY <3>1, <3>2 DEF OnlyWord
  <2>3. ASSUME w # r[k]
        PROVE  w \in changed(k)
    <3>1. PICK i \in msg.base + 1 .. msg.base + msg.added : LinkField(r, start, left[i])[k] = w
      BY <2>3 DEF OnlyWord
    <3>2. LinkField(r, start, left[i]) \in images
      BY <2>1
    <3> HIDE DEF images
    <3> QED
      BY <2>3, <3>1, <3>2
  <2> QED
    BY <2>2, <2>3
<1> HIDE DEF changed
<1>5. CASE w = r[k]
  <2>1. changed(k) = {}
    BY <1>4, <1>5
  <2> QED
    BY <1>2, <1>5, <2>1
<1>6. CASE w # r[k]
  <2>1. changed(k) = {w}
    BY <1>4, <1>6
  <2> QED
    BY <1>2, <2>1
<1> QED
  BY <1>5, <1>6

(* The stack the loop starts from: the typed limit above the fields, and   *)
(* an empty table.                                                         *)
Prepared(whole, start, r, maxId) ==
  /\ whole \in Seq(Int) /\ Len(whole) = start + 1 + MetaSize(maxId)
  /\ whole[start] = SparseLimit(maxId)
  /\ \A k \in 1 .. start - 1 : whole[k] = r[k]
  /\ \A k \in 1 .. MetaSize(maxId) : whole[start + 1 + k] = 0

(* The table of a sparse message before its entries are written.           *)
LEMMA TablePrepared ==
  ASSUME NEW r \in Seq(Int), NEW maxId \in Nat, maxId >= 2
  PROVE  Prepared(Push(r, Zeros(MetaSize(maxId) + 1) \o <<SparseLimit(maxId)>>),
                  Len(r) + 1, r, maxId)
<1> DEFINE size == MetaSize(maxId)
           limit == SparseLimit(maxId)
           zeros == Zeros(size + 1)
           block == zeros \o <<limit>>
           whole == Push(r, block)
<1>1. size \in Nat /\ limit \in Int /\ Len(r) \in Nat
  BY MetaSizeProperties, SeqFacts DEF SparseLimit
<1>2. size = MetaSize(maxId) /\ limit = SparseLimit(maxId)
  OBVIOUS
<1> HIDE DEF size, limit
<1>3. /\ zeros \in Seq(Int) /\ Len(zeros) = size + 1 /\ \A k \in 1 .. size + 1 : zeros[k] = 0
  BY <1>1, ZerosProperties
<1>4. <<limit>> \in Seq(Int) /\ Len(<<limit>>) = 1 /\ <<limit>>[1] = limit
  BY <1>1
<1> HIDE DEF zeros
<1>5. /\ block \in Seq(Int) /\ Len(block) = size + 2 /\ block[size + 2] = limit
      /\ \A k \in 1 .. size + 1 : block[k] = 0
  <2>1. /\ block \in Seq(Int) /\ Len(block) = Len(zeros) + Len(<<limit>>)
        /\ \A k \in 1 .. Len(zeros) : block[k] = zeros[k]
        /\ \A k \in 1 .. Len(<<limit>>) : block[Len(zeros) + k] = <<limit>>[k]
    BY ONLY <1>3, <1>4, ConcatFacts
  <2> HIDE DEF block
  <2>2. block[size + 1 + 1] = limit
    BY <1>3, <1>4, <2>1
  <2>3. size + 1 + 1 = size + 2
    BY <1>1
  <2> QED
    BY <1>1, <1>3, <1>4, <2>1, <2>2, <2>3
<1> HIDE DEF block
<1>6. /\ whole \in Seq(Int) /\ Len(whole) = Len(r) + (size + 2)
      /\ \A k \in 1 .. Len(r) : whole[k] = r[k]
      /\ \A k \in 1 .. size + 2 : whole[Len(r) + k] = block[size + 2 - k + 1]
  <2>1. /\ whole \in Seq(Int) /\ Len(whole) = Len(r) + Len(block)
        /\ \A k \in 1 .. Len(r) : whole[k] = r[k]
        /\ \A k \in 1 .. Len(block) : whole[Len(r) + k] = block[Len(block) - k + 1]
    BY <1>5, PushProperties
  <2> HIDE DEF whole
  <2>2. \A k \in 1 .. size + 2 : Len(block) - k + 1 = size + 2 - k + 1
    BY <1>1, <1>5
  <2> QED
    BY <1>5, <2>1, <2>2
<1> HIDE DEF whole
<1>7. whole[Len(r) + 1] = limit
  <2>1. 1 \in 1 .. size + 2 /\ size + 2 - 1 + 1 = size + 2
    BY <1>1
  <2> QED
    BY <1>5, <1>6, <2>1
<1>8. ASSUME NEW k \in 1 .. size
      PROVE  whole[Len(r) + 1 + 1 + k] = 0
  <2> DEFINE j == k + 2
  <2>1. /\ j \in 1 .. size + 2 /\ Len(r) + j = Len(r) + 1 + 1 + k
        /\ size + 2 - j + 1 \in 1 .. size + 1
    BY <1>1
  <2> HIDE DEF j
  <2>2. whole[Len(r) + j] = block[size + 2 - j + 1]
    BY <1>6, <2>1
  <2> QED
    BY <1>5, <2>1, <2>2
<1>9. Len(whole) = Len(r) + 1 + 1 + size /\ (\A k \in 1 .. Len(r) + 1 - 1 : k \in 1 .. Len(r))
  BY <1>1, <1>6
<1>10. Prepared(whole, Len(r) + 1, r, maxId)
  BY <1>2, <1>6, <1>7, <1>8, <1>9 DEF Prepared
<1> QED
  BY <1>10 DEF whole, block, zeros, size, limit

(* A field is no further from the message than its id tells.               *)
LEMMA RunDistances ==
  ASSUME NEW r, NEW l, NEW start \in Nat, NEW base \in Nat, NEW added \in Nat, NEW fields,
         NEW maxId, NEW prev, SparseRun(r, l, start, base, added, fields, maxId, prev),
         FieldsFit(fields, start), NEW i \in 1 .. added
  PROVE  /\ l[base + i].id \in Field /\ l[base + i].id \in 1 .. maxId - 1
         /\ added + 1 - i \in Nat \ {0} /\ added + 1 - i < EntryMod(l[base + i].id)
         /\ \A j \in 1 .. added : i # j => l[base + i].id # l[base + j].id
<1>1. \A j \in 1 .. added : l[base + j].id \in Field /\ l[base + j].id < maxId
  BY DEF SparseRun, FieldsFit
<1>2. \A j \in 1 .. added, k \in 1 .. added : j <= k => l[base + j].id - l[base + k].id >= k - j
  BY DEF SparseRun
<1>3. maxId \in Int
  BY DEF SparseRun
<1>4. MaxField \in Nat /\ \A j \in 1 .. added : l[base + j].id \in Nat \ {0}
  <2>1. MaxField \in Nat /\ \A id \in Field : id \in Nat \ {0}
    BY WireAssumption DEF Field
  <2> QED
    BY <1>1, <2>1
<1> DEFINE mine == l[base + i].id
           last == l[base + added].id
<1>5. added \in 1 .. added /\ i <= added
  OBVIOUS
<1>6. mine - last >= added - i /\ last \in Nat \ {0} /\ mine \in Nat \ {0} /\ mine <= MaxField
      /\ mine < maxId
  BY <1>1, <1>2, <1>4, <1>5 DEF Field
<1>7. ASSUME NEW j \in 1 .. added, i # j
      PROVE  l[base + i].id # l[base + j].id
  <2> DEFINE other == l[base + j].id
  <2>1. other \in Nat /\ mine \in Nat /\ (i <= j => mine - other >= j - i)
        /\ (j <= i => other - mine >= i - j)
    BY <1>2, <1>4
  <2> HIDE DEF mine, other
  <2>2. mine # other
    BY ONLY <2>1, i \in 1 .. added, j \in 1 .. added, i # j, added \in Nat
  <2> QED
    BY <2>2 DEF mine, other
<1>8. mine \in Field
  BY <1>1
<1> HIDE DEF mine, last
<1>9. added + 1 - i \in Nat \ {0} /\ added + 1 - i <= mine
  BY ONLY <1>6, i \in 1 .. added, added \in Nat
<1>10. mine < EntryMod(mine)
  <2>1. TinyMaxId \in Nat /\ ByteMod \in Nat /\ ByteMod >= TinyMaxId
    BY WireAssumption
  <2>2. ByteMod * ByteMod \in Nat /\ ByteMod * ByteMod > MaxField
    BY WireAssumption
  <2>3. CASE IsTiny(mine)
    BY ONLY <1>6, <2>1, <2>3 DEF IsTiny, EntryMod
  <2>4. CASE ~IsTiny(mine)
    <3>1. EntryMod(mine) = ByteMod * ByteMod
      BY <2>4 DEF EntryMod
    <3> HIDE DEF EntryMod
    <3> QED
      BY <1>4, <1>6, <2>2, <3>1
  <2> QED
    BY <2>3, <2>4
<1>11. added + 1 - i < EntryMod(mine)
  <2>1. EntryMod(mine) \in Int
    BY WireAssumption DEF EntryMod
  <2> QED
    BY ONLY <1>6, <1>9, <1>10, <2>1
<1>12. mine \in 1 .. maxId - 1
  BY ONLY <1>3, <1>6
<1> QED
  BY <1>7, <1>8, <1>9, <1>11, <1>12 DEF mine

(* Entries lie above the limit.                                            *)
LEMMA TouchesAbove ==
  ASSUME NEW start \in Nat, NEW id \in Nat \ {0}
  PROVE  /\ Low(start, id) \in Nat /\ Low(start, id) > start + 1
         /\ ~IsTiny(id) => Low(start, id) - 1 > start + 1
<1>1. MetaPlace(id) \in Nat \ {0} /\ (~IsTiny(id) => MetaPlace(id) >= 2)
  BY MetaPlaceType
<1> QED
  BY ONLY <1>1, start \in Nat DEF Low

(* The fields of the message, by their place in the run.                   *)
LEMMA RunTouches ==
  ASSUME NEW start \in Nat, NEW k \in Nat, NEW off \in Nat, off < start, NEW id \in Nat \ {0}
  PROVE  /\ k = start => ~Touches(k, start, off, id)
         /\ k < start /\ k # off => ~Touches(k, start, off, id)
         /\ \A other \in Nat \ {0} : other # id =>
              /\ k = Low(start, other) => ~Touches(k, start, off, id)
              /\ ~IsTiny(other) /\ k = Low(start, other) - 1 => ~Touches(k, start, off, id)
<1>1. /\ Low(start, id) \in Nat /\ Low(start, id) > start + 1
      /\ ~IsTiny(id) => Low(start, id) - 1 > start + 1
  BY TouchesAbove
<1>2. k <= start => k # Low(start, id) /\ (~IsTiny(id) => k # Low(start, id) - 1)
  BY ONLY <1>1, start \in Nat, k \in Nat
<1>3. k = start => k # off
  OBVIOUS
<1>4. (k = start => ~Touches(k, start, off, id)) /\ (k < start /\ k # off => ~Touches(k, start, off, id))
  BY <1>2, <1>3 DEF Touches
<1>5. ASSUME NEW other \in Nat \ {0}, other # id
      PROVE  /\ k = Low(start, other) => ~Touches(k, start, off, id)
             /\ ~IsTiny(other) /\ k = Low(start, other) - 1 => ~Touches(k, start, off, id)
  <2>1. /\ MetaPlace(other) # MetaPlace(id)
        /\ ~IsTiny(id) => MetaPlace(other) # MetaPlace(id) - 1
        /\ ~IsTiny(other) => MetaPlace(other) - 1 # MetaPlace(id)
        /\ ~IsTiny(other) /\ ~IsTiny(id) => MetaPlace(other) - 1 # MetaPlace(id) - 1
    BY <1>5, PlacesDiffer
  <2>2. MetaPlace(other) \in Nat /\ MetaPlace(id) \in Nat
    BY MetaPlaceType
  <2>3. /\ Low(start, other) > start + 1 /\ (~IsTiny(other) => Low(start, other) - 1 > start + 1)
    BY TouchesAbove
  <2>4. k = Low(start, other) => ~Touches(k, start, off, id)
    BY ONLY <2>1, <2>2, <2>3, start \in Nat, off \in Nat, off < start DEF Touches, Low
  <2>5. ~IsTiny(other) /\ k = Low(start, other) - 1 => ~Touches(k, start, off, id)
    BY ONLY <2>1, <2>2, <2>3, start \in Nat, off \in Nat, off < start DEF Touches, Low
  <2> QED
    BY <2>4, <2>5
<1> QED
  BY <1>4, <1>5

(* Every word is what the one field that touches it makes of it.           *)
LinkedBy(t, whole, start, first, added, base) ==
  /\ \A k \in 1 .. Len(whole) :
       (\A i \in 1 .. added : ~Touches(k, start, first + i, left[base + i].id)) => t[k] = whole[k]
  /\ \A k \in 1 .. Len(whole) : \A j \in 1 .. added :
       (\A i \in 1 .. added : i # j => ~Touches(k, start, first + i, left[base + i].id))
         => t[k] = LinkField(whole, start, left[base + j])[k]

(* After all fields are linked each has its entry and its value.           *)
LEMMA RunLinked ==
  ASSUME NEW whole \in Seq(Int), NEW start \in Nat, LinkFields(whole, start).ok,
         msg.base \in Nat, msg.added \in Nat, NEW first \in Nat, start = first + msg.added + 1,
         \A i \in 1 .. msg.added :
           /\ left[msg.base + i] \in FieldEntry /\ left[msg.base + i].off = first + i
           /\ Low(start, left[msg.base + i].id) <= Len(whole)
  PROVE  LinkedBy(LinkFields(whole, start).r, whole, start, first, msg.added, msg.base)
<1> DEFINE t == LinkFields(whole, start).r
           base == msg.base
           added == msg.added
           image(i) == LinkField(whole, start, left[base + i])
<1>1. \A i \in 1 .. added : left[base + i].scalar \/ ~(start < whole[left[base + i].off])
  <2>1. \A i \in 1 .. added : base + i \in base + 1 .. base + added
    OBVIOUS
  <2> QED
    BY <2>1 DEF LinkFields
<1>2. ASSUME NEW i \in 1 .. added, NEW k \in 1 .. Len(whole),
             ~Touches(k, start, first + i, left[base + i].id)
      PROVE  image(i)[k] = whole[k]
  <2> DEFINE f == left[base + i]
  <2>1. /\ f \in FieldEntry /\ f.off = first + i /\ Low(start, f.id) <= Len(whole)
        /\ f.scalar \/ ~(start < whole[f.off])
    BY <1>1
  <2>2. f.off \in 1 .. start - 1
    BY <2>1, SMTT(30)
  <2>3. ~Touches(k, start, f.off, f.id)
    BY <1>2, <2>1
  <2> HIDE DEF f
  <2>4. LinkField(whole, start, f)[k] = whole[k]
    <3>1. FieldIsLinked(LinkField(whole, start, f), whole, start, f)
      BY <2>1, <2>2, FieldLinked
    <3> QED
      BY <2>3, <3>1 DEF FieldIsLinked
  <2> QED
    BY <2>4 DEF f
<1>3. DOMAIN whole = 1 .. Len(whole)
  BY SeqFacts
<1>4. /\ \A i \in base + 1 .. base + added : i - base \in 1 .. added /\ base + (i - base) = i
      /\ \A i \in 1 .. added : base + i \in base + 1 .. base + added
  <2>1. base \in Nat /\ added \in Nat
    OBVIOUS
  <2> HIDE DEF base, added
  <2> QED
    BY ONLY <2>1
<1>5. ASSUME NEW k \in 1 .. Len(whole),
             \A i \in 1 .. added : ~Touches(k, start, first + i, left[base + i].id)
      PROVE  t[k] = whole[k]
  <2>1. ASSUME NEW i \in base + 1 .. base + added
        PROVE  LinkField(whole, start, left[i])[k] = whole[k]
    <3>1. PICK j \in 1 .. added : base + j = i
      BY <1>4
    <3>2. image(j)[k] = whole[k]
      BY <1>2, <1>5
    <3> QED
      BY <3>1, <3>2
  <2>2. OnlyWord(k, whole, start, whole[k])
    BY <2>1 DEF OnlyWord
  <2> DEFINE w == whole[k]
  <2>3. OnlyWord(k, whole, start, w)
    BY <2>2
  <2> HIDE DEF w
  <2>4. t[k] = w
    BY <1>3, <2>3, WordLinked
  <2> QED
    BY <2>4 DEF w
<1>6. ASSUME NEW k \in 1 .. Len(whole), NEW j \in 1 .. added,
             \A i \in 1 .. added : i # j => ~Touches(k, start, first + i, left[base + i].id)
      PROVE  t[k] = image(j)[k]
  <2> DEFINE w == image(j)[k]
  <2>1. ASSUME NEW i \in base + 1 .. base + added
        PROVE  LinkField(whole, start, left[i])[k] = whole[k] \/ LinkField(whole, start, left[i])[k] = w
    <3>1. PICK n \in 1 .. added : base + n = i
      BY <1>4
    <3>2. n = j \/ image(n)[k] = whole[k]
      BY <1>2, <1>6
    <3> QED
      BY <3>1, <3>2
  <2>2. base + j \in base + 1 .. base + added /\ LinkField(whole, start, left[base + j])[k] = w
    BY <1>4
  <2> HIDE DEF w
  <2>3. OnlyWord(k, whole, start, w)
    BY <2>1, <2>2 DEF OnlyWord
  <2>4. t[k] = w
    BY <1>3, <2>3, WordLinked
  <2> QED
    BY <2>4 DEF w
<1> QED
  BY <1>5, <1>6 DEF LinkedBy

(* A run of fields and a prepared table make a sparse message.             *)
LEMMA RunTable ==
  ASSUME NEW whole, NEW start \in Nat, NEW first \in Nat, NEW base \in Nat, NEW added \in Nat,
         NEW maxId \in Nat, NEW prev \in Nat, NEW fields, Prepared(whole, start, right, maxId),
         SparseRun(right, left, first, base, added, fields, maxId, prev), FieldsFit(fields, first),
         added # 0, start = first + added + 1,
         \A i \in 1 .. added : left[base + i] \in FieldEntry,
         \A i \in 1 .. added : left[base + i].scalar \/ ~(start < whole[first + i]),
         NEW t \in Seq(Int), Len(t) = Len(whole), LinkedBy(t, whole, start, first, added, base)
  PROVE  TableWords(t, start, fields, maxId)
<1> DEFINE size == MetaSize(maxId)
           id(i) == left[base + i].id
<1>1. /\ whole \in Seq(Int) /\ Len(whole) = start + 1 + size /\ whole[start] = SparseLimit(maxId)
      /\ \A k \in 1 .. start - 1 : whole[k] = right[k]
      /\ \A k \in 1 .. size : whole[start + 1 + k] = 0
  BY DEF Prepared
<1>2. maxId \in 2 .. IdLimit /\ maxId >= 2 /\ size \in Nat
  <2>1. maxId \in 2 .. IdLimit
    BY DEF SparseRun
  <2> QED
    BY <2>1, MetaSizeProperties
<1>3. ASSUME NEW i \in 1 .. added
      PROVE  /\ id(i) \in Field /\ id(i) \in 1 .. maxId - 1 /\ id(i) \in Nat \ {0}
             /\ added + 1 - i \in Nat \ {0} /\ added + 1 - i < EntryMod(id(i))
             /\ \A j \in 1 .. added : i # j => id(i) # id(j)
             /\ start - (first + i) = added + 1 - i
             /\ first + i \in 1 .. start - 1
  <2>1. /\ id(i) \in Field /\ id(i) \in 1 .. maxId - 1
        /\ added + 1 - i \in Nat \ {0} /\ added + 1 - i < EntryMod(id(i))
        /\ \A j \in 1 .. added : i # j => id(i) # id(j)
    BY RunDistances, ZenonT(60)
  <2>2. id(i) \in Nat \ {0}
    BY <2>1, SMTT(30)
  <2>3. start - (first + i) = added + 1 - i /\ first + i \in 1 .. start - 1
    OBVIOUS
  <2> QED
    BY <2>1, <2>2, <2>3
<1>4. ASSUME NEW other \in 1 .. maxId - 1
      PROVE  /\ Low(start, other) \in 1 .. Len(whole) /\ Low(start, other) <= Len(whole)
             /\ Low(start, other) = start + 1 + MetaPlace(other)
             /\ ~IsTiny(other) => Low(start, other) - 1 \in 1 .. Len(whole)
             /\ whole[Low(start, other)] = 0
             /\ ~IsTiny(other) => whole[Low(start, other) - 1] = 0
             /\ ~IsTiny(other) => Low(start, other) - 1 = start + 1 + MetaPlace(other) - 1
  <2> DEFINE p == MetaPlace(other)
  <2>1. p \in 1 .. size /\ (~IsTiny(other) => p - 1 \in 1 .. size)
    BY <1>2, MetaPlaces
  <2>2. Low(start, other) = start + 1 + p
    BY DEF Low
  <2>3. whole[start + 1 + p] = 0 /\ (~IsTiny(other) => whole[start + 1 + (p - 1)] = 0)
    BY <1>1, <2>1
  <2> HIDE DEF p, size
  <2>4. start + 1 + (p - 1) = start + 1 + p - 1 /\ Low(start, other) - 1 = start + 1 + (p - 1)
    BY ONLY <2>1, <2>2, start \in Nat
  <2>5. /\ Low(start, other) \in 1 .. Len(whole) /\ Low(start, other) <= Len(whole)
        /\ ~IsTiny(other) => Low(start, other) - 1 \in 1 .. Len(whole)
    BY ONLY <1>1, <1>2, <2>1, <2>2, start \in Nat
  <2> QED
    BY <2>2, <2>3, <2>4, <2>5 DEF p
<1>5. ASSUME NEW i \in 1 .. added
      PROVE  FieldIsLinked(LinkField(whole, start, left[base + i]), whole, start, left[base + i])
  <2> DEFINE f == left[base + i]
  <2>1. /\ f \in FieldEntry /\ f.off = first + i /\ (f.scalar \/ ~(start < whole[f.off]))
    BY DEF SparseRun
  <2>2. f.off \in 1 .. start - 1 /\ Low(start, f.id) <= Len(whole)
    BY <1>3, <1>4, <2>1
  <2> HIDE DEF f
  <2>3. FieldIsLinked(LinkField(whole, start, f), whole, start, f)
    BY <1>1, <2>1, <2>2, FieldLinked
  <2> QED
    BY <2>3 DEF f
<1> HIDE DEF size
<1>6. t[start] = SparseLimit(maxId)
  <2>1. start \in 1 .. Len(whole)
    BY <1>1, <1>2
  <2>2. ASSUME NEW i \in 1 .. added
        PROVE  ~Touches(start, start, first + i, id(i))
    <3>1. first + i \in Nat /\ first + i < start
      BY <1>3
    <3> QED
      BY <1>3, <3>1, RunTouches
  <2> QED
    BY <1>1, <2>1, <2>2 DEF LinkedBy
<1>7. ASSUME NEW k \in 1 .. Len(whole), NEW j \in 1 .. added,
             \A i \in 1 .. added : i # j => ~Touches(k, start, first + i, id(i))
      PROVE  t[k] = LinkField(whole, start, left[base + j])[k]
  BY <1>7 DEF LinkedBy
<1>8. ASSUME NEW j \in 1 .. added
      PROVE  t[first + j] = SparseWordOf(fields, id(j), start)
  <2> DEFINE k == first + j
             f == left[base + j]
  <2>1. k \in 1 .. start - 1 /\ k \in Nat /\ k < start /\ k \in 1 .. Len(whole)
    BY <1>1, <1>2, <1>3
  <2>2. ASSUME NEW i \in 1 .. added, i # j
        PROVE  ~Touches(k, start, first + i, id(i))
    <3>1. first + i \in Nat /\ first + i < start /\ k # first + i
      BY <1>3, <2>2
    <3> QED
      BY <1>3, <2>1, <3>1, RunTouches
  <2>3. t[k] = LinkField(whole, start, f)[k]
    BY <1>7, <2>1, <2>2
  <2>4. f.off = k /\ f.scalar = (id(j) \notin RefFields) /\ right[k] = fields[id(j)]
    BY DEF SparseRun
  <2>5. whole[k] = fields[id(j)]
    BY <1>1, <2>1, <2>4
  <2>6. t[k] = IF f.scalar THEN whole[k] ELSE start - whole[k]
    BY <1>5, <2>3, <2>4, ZenonT(60) DEF FieldIsLinked
  <2> QED
    BY <2>4, <2>5, <2>6 DEF SparseWordOf
<1>9. ASSUME NEW j \in 1 .. added
      PROVE  Entry(t, start + 1, id(j)) = added + 1 - j
  <2> DEFINE f == left[base + j]
             d == added + 1 - j
             low == Low(start, id(j))
  <2>1. f.off = first + j /\ start - f.off = d /\ d \in Nat /\ d < EntryMod(id(j))
    <3>1. f.off = first + j
      BY DEF SparseRun
    <3> QED
      BY <1>3, <3>1
  <2>2. /\ low \in 1 .. Len(whole) /\ (~IsTiny(id(j)) => low - 1 \in 1 .. Len(whole))
        /\ low = start + 1 + MetaPlace(id(j))
        /\ ~IsTiny(id(j)) => low - 1 = start + 1 + MetaPlace(id(j)) - 1
    BY <1>3, <1>4
  <2>3. ASSUME NEW i \in 1 .. added, i # j, NEW k \in 1 .. Len(whole),
               k = low \/ (~IsTiny(id(j)) /\ k = low - 1)
        PROVE  ~Touches(k, start, first + i, id(i))
    <3>1. first + i \in Nat /\ first + i < start /\ id(i) \in Nat \ {0} /\ id(j) \in Nat \ {0}
          /\ id(i) # id(j) /\ k \in Nat
      BY <1>3, <2>3, SMTT(30)
    <3> QED
      BY <2>3, <3>1, RunTouches
  <2>4. t[low] = d % ByteMod
    <3>1. t[low] = LinkField(whole, start, f)[low]
      BY <1>7, <2>2, <2>3
    <3> QED
      BY <1>5, <2>1, <3>1 DEF FieldIsLinked
  <2>5. ~IsTiny(id(j)) => t[low - 1] = (d \div ByteMod) % ByteMod
    <3>1. ~IsTiny(id(j)) => t[low - 1] = LinkField(whole, start, f)[low - 1]
      BY <1>7, <2>2, <2>3
    <3> QED
      BY <1>5, <2>1, <3>1 DEF FieldIsLinked
  <2>6. IF IsTiny(id(j)) THEN d < ByteMod ELSE d < ByteMod * ByteMod
    BY <2>1 DEF EntryMod
  <2> HIDE DEF d, low
  <2>7. CASE IsTiny(id(j))
    <3>1. d % ByteMod = d
      <4>1. ByteMod \in Nat \ {0} /\ d < ByteMod
        BY <2>6, <2>7, WireAssumption, SMTT(30)
      <4> QED
        BY ONLY <2>1, <4>1
    <3> QED
      BY <2>1, <2>2, <2>4, <2>7, <3>1 DEF Entry, d
  <2>8. CASE ~IsTiny(id(j))
    <3>1. (d % ByteMod) + ByteMod * ((d \div ByteMod) % ByteMod) = d
      BY <2>1, <2>6, <2>8, Digits
    <3>2. Entry(t, start + 1, id(j)) = t[low] + ByteMod * t[low - 1]
      BY <2>2, <2>8 DEF Entry
    <3> QED
      BY <2>4, <2>5, <2>8, <3>1, <3>2 DEF d
  <2> QED
    BY <2>7, <2>8
<1>10. ASSUME NEW other \in 1 .. maxId - 1, other \notin DOMAIN fields
       PROVE  Entry(t, start + 1, other) = 0
  <2> DEFINE low == Low(start, other)
  <2>1. /\ low \in 1 .. Len(whole) /\ (~IsTiny(other) => low - 1 \in 1 .. Len(whole))
        /\ low = start + 1 + MetaPlace(other)
        /\ ~IsTiny(other) => low - 1 = start + 1 + MetaPlace(other) - 1
        /\ whole[low] = 0 /\ (~IsTiny(other) => whole[low - 1] = 0)
    BY <1>4
  <2>2. ASSUME NEW i \in 1 .. added, NEW k \in 1 .. Len(whole),
               k = low \/ (~IsTiny(other) /\ k = low - 1)
        PROVE  ~Touches(k, start, first + i, id(i))
    <3>1. id(i) \in DOMAIN fields
      BY DEF SparseRun
    <3>2. id(i) # other
      BY ONLY <1>10, <3>1
    <3>3. first + i \in Nat /\ first + i < start
      BY ONLY start = first + added + 1, first \in Nat, added \in Nat, i \in 1 .. added
    <3>5. id(i) \in Nat \ {0}
      BY <1>3
    <3>4. other \in Nat \ {0} /\ k \in Nat
      BY ONLY other \in 1 .. maxId - 1, k \in 1 .. Len(whole)
    <3> QED
      BY <2>2, <3>2, <3>3, <3>4, <3>5, RunTouches
  <2>3. t[low] = 0
    BY <2>1, <2>2 DEF LinkedBy
  <2>4. ~IsTiny(other) => t[low - 1] = 0
    BY <2>1, <2>2 DEF LinkedBy
  <2> HIDE DEF low
  <2>5. CASE IsTiny(other)
    BY <2>1, <2>3, <2>5 DEF Entry
  <2>6. CASE ~IsTiny(other)
    <3>1. Entry(t, start + 1, other) = t[low] + ByteMod * t[low - 1]
      BY <2>1, <2>6 DEF Entry
    <3>2. ByteMod \in Nat
      BY WireAssumption
    <3> QED
      BY ONLY <2>3, <2>4, <2>6, <3>1, <3>2
  <2> QED
    BY <2>5, <2>6
<1>11. ASSUME NEW other \in DOMAIN fields
       PROVE  \E j \in 1 .. added : id(j) = other
  BY DEF SparseRun
<1>12. DOMAIN fields \subseteq 1 .. maxId - 1
  <2> SUFFICES ASSUME NEW other \in DOMAIN fields
               PROVE  other \in 1 .. maxId - 1
    OBVIOUS
  <2>1. PICK j \in 1 .. added : id(j) = other
    BY <1>11
  <2>2. id(j) \in 1 .. maxId - 1
    BY <1>3
  <2> QED
    BY ONLY <2>1, <2>2
<1>13. ASSUME NEW other \in DOMAIN fields
       PROVE  /\ Entry(t, start + 1, other) \in 1 .. start - 1
              /\ t[start - Entry(t, start + 1, other)] = SparseWordOf(fields, other, start)
  <2>1. PICK j \in 1 .. added : id(j) = other
    BY <1>11
  <2> DEFINE e == Entry(t, start + 1, other)
  <2>2. e = added + 1 - j
    BY <1>9, <2>1
  <2> HIDE DEF e
  <2>3. e \in 1 .. start - 1 /\ start - e = first + j
    BY ONLY <2>2, start = first + added + 1, first \in Nat, added \in Nat, j \in 1 .. added
  <2> QED
    BY <1>8, <2>1, <2>3 DEF e
<1>14. Len(t) = start + 1 + MetaSize(maxId)
  BY <1>1 DEF size
<1> QED
  BY <1>2, <1>6, <1>10, <1>12, <1>13, <1>14 DEF TableWords

(* So do those of the open message.                                        *)
LEMMA SparseTable ==
  ASSUME CInv, msg.is = "sparse", ~msg.tainted, msg.maxId # 0, Checked(Size),
         NEW start \in Nat, start = Size + 1,
         NEW whole, Prepared(whole, start, right, msg.maxId), LinkFields(whole, start).ok
  PROVE  /\ TableWords(LinkFields(whole, start).r, start, msg.fields, msg.maxId)
         /\ FieldsFit(msg.fields, msg.start)
<1> DEFINE first == msg.start
           base == msg.base
           added == msg.added
           fields == msg.fields
           maxId == msg.maxId
           prev == msg.prev
           t == LinkFields(whole, start).r
<1>1. SparseOpen /\ right \in Seq(Int) /\ IInv
  BY MessageKinds DEF CInv, IInv, ScalarsInv
<1>2. /\ first \in Nat /\ base \in Nat /\ added \in Nat /\ maxId \in Nat /\ prev \in Nat /\ maxId # 0
  BY <1>1 DEF SparseOpen, SparseRecord
<1>3. /\ SparseRun(right, left, first, base, added, fields, maxId, prev)
      /\ FieldsFit(fields, first)
  BY DEF CInv, MessageContent, SparseContent
<1>4. \A i \in base + 1 .. base + added : left[i] \in FieldEntry /\ left[i].off \in first + 1 .. Size
  BY <1>1, SparseEntries
<1>5. LinkFields(whole, start).ok
  OBVIOUS
<1>6. whole \in Seq(Int) /\ Len(whole) = start + 1 + MetaSize(maxId)
  BY DEF Prepared
<1>7. \A i \in 1 .. added : left[base + i].scalar \/ ~(start < whole[left[base + i].off])
  <2>1. \A i \in 1 .. added : base + i \in base + 1 .. base + added
    BY <1>2
  <2> QED
    BY <1>5, <2>1 DEF LinkFields
<1>8. t = LinkFields(whole, start).r
  OBVIOUS
<1>9. added # 0 /\ maxId \in 2 .. IdLimit /\ Len(right) = first + added
  BY <1>2, <1>3 DEF SparseRun
<1>10. start = first + added + 1 /\ start - 1 = Size
  BY <1>2, <1>9 DEF Size
<1>11. LinkFields(whole, start).r \in Seq(Int) /\ Len(LinkFields(whole, start).r) = Len(whole)
  <2>1. \A i \in base + 1 .. base + added :
          left[i] \in FieldEntry /\ left[i].off \in first + 1 .. start - 1
    BY <1>4, <1>10
  <2>2. first < start /\ start <= Len(whole)
    <3> DEFINE size == MetaSize(maxId)
    <3>1. size \in Nat
      BY <1>2, <1>9, MetaSizeProperties
    <3>2. Len(whole) = start + 1 + size
      BY <1>6
    <3> HIDE DEF first, base, added, maxId, prev, size
    <3> QED
      BY ONLY <1>2, <1>10, <3>1, <3>2, start \in Nat
  <2> QED
    BY <1>2, <1>6, <2>1, <2>2, LinkFieldsProperties
<1>12. Prepared(whole, start, right, maxId)
  OBVIOUS
<1>13. ASSUME NEW i \in 1 .. added
       PROVE  /\ left[base + i] \in FieldEntry /\ left[base + i].off = first + i
              /\ Low(start, left[base + i].id) <= Len(whole)
  <2>1. base + i \in base + 1 .. base + added
    BY <1>2
  <2>2. left[base + i] \in FieldEntry
    BY <1>4, <2>1
  <2>3. left[base + i].off = first + i
    BY <1>3 DEF SparseRun
  <2>4. left[base + i].id \in 1 .. maxId - 1
    BY <1>2, <1>3, RunDistances
  <2> DEFINE id == left[base + i].id
  <2>5. MetaPlace(id) \in 1 .. MetaSize(maxId) /\ MetaSize(maxId) \in Nat
    <3>1. maxId \in Nat /\ maxId >= 2 /\ id \in 1 .. maxId - 1
      BY <1>2, <1>9, <2>4
    <3> HIDE DEF id, maxId
    <3> QED
      BY <3>1, MetaPlaces, MetaSizeProperties
  <2> HIDE DEF id
  <2>6. Low(start, id) <= Len(whole)
    BY ONLY <1>6, <2>5, start \in Nat DEF Low
  <2> QED
    BY <2>2, <2>3, <2>6 DEF id
<1>14. LinkedBy(LinkFields(whole, start).r, whole, start, msg.start, msg.added, msg.base)
  <2>1. \A i \in 1 .. msg.added :
           /\ left[msg.base + i] \in FieldEntry /\ left[msg.base + i].off = msg.start + i
           /\ Low(start, left[msg.base + i].id) <= Len(whole)
    BY <1>13
  <2>2. msg.base \in Nat /\ msg.added \in Nat /\ msg.start \in Nat /\ start = msg.start + msg.added + 1
    BY <1>2, <1>10
  <2> HIDE DEF first, base, added, fields, maxId, prev, t
  <2> QED
    BY <1>5, <1>6, <2>1, <2>2, RunLinked
<1>15. \A i \in 1 .. added : left[base + i].scalar \/ ~(start < whole[first + i])
  BY <1>7, <1>13
<1>16. LinkedBy(t, whole, start, first, added, base) /\ t \in Seq(Int) /\ Len(t) = Len(whole)
  BY <1>11, <1>14
<1> HIDE DEF first, base, added, fields, maxId, prev, t
<1>17. TableWords(t, start, fields, maxId)
  BY <1>2, <1>3, <1>9, <1>10, <1>12, <1>13, <1>15, <1>16, RunTable
<1> QED
  BY <1>3, <1>17 DEF t, fields, maxId, first

(* The kinds a sparse message is promised as.                              *)
LEMMA SparseKind ==
  ASSUME msg.explicit \in BOOLEAN
  PROVE  /\ Presence(msg) \in {"explicit", "implicit"}
         /\ Presence(msg) = "implicit" => ~msg.explicit
  BY DEF Presence

(* An empty sparse message is its typed limit.                             *)
LEMMA EmptySparse ==
  ASSUME NEW s \in Seq(Int), NEW o \in Nat \ {0}, NEW fields,
         o <= Len(s), s[o] = 2, DOMAIN fields = {}
  PROVE  SparseWords(s, o, fields, 0)
<1>1. o \in 1 .. Len(s) /\ 0 \in 0 .. IdLimit /\ \A id \in 1 .. 0 - 1 : FALSE
  <2>1. MaxField \in Nat
    BY WireAssumption
  <2> QED
    BY <2>1, SeqFacts DEF IdLimit
<1> QED
  BY <1>1 DEF SparseWords

LEMMA FinishSparseContent ==
  ASSUME CInv, IInv', Kept, FinishSparse
  PROVE  CInv'
<1> DEFINE kind == Presence(msg)
           fields == msg.fields
           first == msg.start
           maxId == msg.maxId
           start == Size + 1
           whole == Push(right, Zeros(MetaSize(maxId) + 1) \o <<SparseLimit(maxId)>>)
           linked == LinkFields(whole, start)
           l == SubSeq(left, 1, Len(left) - msg.added)
<1>1. msg.is = "sparse" /\ UNCHANGED inline
  BY DEF FinishSparse
<1>2. SparseOpen /\ right \in Seq(Int) /\ Size \in Nat /\ IInv
  BY <1>1, MessageKinds, SeqFacts DEF CInv, IInv, ScalarsInv, Size
<1>3. /\ first \in Nat /\ first <= Size /\ msg.explicit \in BOOLEAN
      /\ maxId \in Nat /\ (maxId # 0 => maxId >= 2)
      /\ msg \in SparseRecord(msg.fields)
  BY <1>2 DEF SparseOpen, SparseRecord
<1>4. kind \in {"explicit", "implicit"} /\ (kind = "implicit" => ~msg.explicit)
  BY <1>3, SparseKind
<1>5. ~msg.tainted => FieldsFit(fields, first) /\ SparseContent(right, left, msg)
  BY <1>1 DEF CInv, MessageContent
<1>6. InlineContent'
  BY <1>1 DEF CInv, InlineContent
<1>7. ~msg.tainted /\ kind = "implicit" => NoDefaults(fields)
  BY <1>4, <1>5 DEF SparseContent
<1>8. start \in Nat /\ start \in Nat \ {0} /\ start = Size + 1 /\ first < start
  BY <1>2, <1>3
<1>9. ASSUME msg' = [msg EXCEPT !.tainted = TRUE], UNCHANGED objects
      PROVE  CInv'
  <2>1. msg'.is = "sparse" /\ msg'.start = msg.start /\ msg'.tainted
    BY ONLY <1>1, <1>3, <1>9 DEF SparseRecord
  <2>2. MessageContent'
    BY <2>1 DEF MessageContent
  <2> QED
    BY <1>1, <1>9, <2>1, <2>2, AddContent DEF OpenKinds
<1>10. ASSUME Close(start, kind),
              \A s \in Seq(Int) : ~msg.tainted /\ Agree(s, right', Size') => SparseWords(s, start, fields, maxId)
       PROVE  CInv'
  <2>1. ASSUME ~msg.tainted
        PROVE  Settled([off |-> start, kind |-> kind, body |-> fields], right', Size')
    <3> SUFFICES ASSUME NEW s \in Seq(Int), Agree(s, right', Size')
                 PROVE  Reads(s, [off |-> start, kind |-> kind, body |-> fields])
      BY DEF Settled
    <3>1. SparseWords(s, start, fields, maxId)
      BY <1>10, <2>1
    <3> HIDE DEF start, first, fields, kind, maxId
    <3> QED
      BY <1>3, <1>4, <1>5, <1>7, <1>8, <2>1, <3>1, SparseIsRead
  <2> QED
    BY <1>1, <1>6, <1>10, <2>1, CloseContent DEF OpenKinds
<1>11. \/ maxId = 0 /\ right' = Push(right, <<2>>) /\ Close(start, kind)
       \/ Tainted /\ UNCHANGED objects
       \/ maxId # 0 /\ linked.ok /\ FinishMetadata(linked.r, l, msg, start)
  BY DEF FinishSparse
<1>15. CASE ~Checked(Size)
  <2>1. msg' = [msg EXCEPT !.tainted = TRUE] /\ UNCHANGED objects
    BY <1>2, <1>15, FinishSparseBeyond
  <2> QED
    BY <1>9, <2>1
<1>12. CASE maxId = 0 /\ right' = Push(right, <<2>>) /\ Close(start, kind)
  <2>1. Size' = start /\ right'[start] = 2
    <3>1. right' = Push(right, <<2>>) /\ 2 \in Int
      BY <1>12
    <3> QED
      BY <1>2, <3>1, TypedLimitPushed
  <2>2. ASSUME ~msg.tainted
        PROVE  DOMAIN fields = {}
    <3>1. SparseRun(right, left, msg.start, msg.base, msg.added, fields, maxId, msg.prev)
      BY <1>5, <2>2 DEF SparseContent
    <3>2. msg.added = 0
      <4>1. msg.added # 0 => maxId \in 2 .. IdLimit
        BY <3>1 DEF SparseRun
      <4> QED
        BY <1>12, <4>1
    <3>3. ASSUME NEW id \in DOMAIN fields
          PROVE  FALSE
      <4>1. \E i \in 1 .. msg.added : TRUE
        BY <3>1 DEF SparseRun
      <4> QED
        BY <3>2, <4>1
    <3> QED
      BY <3>3
  <2>3. ASSUME NEW s \in Seq(Int), ~msg.tainted, Agree(s, right', Size')
        PROVE  SparseWords(s, start, fields, maxId)
    <3>1. start <= Len(s) /\ s[start] = 2
      <4>1. start \in 1 .. Size'
        BY <1>8, <2>1
      <4> QED
        BY <2>1, <2>3, <4>1 DEF Agree
    <3>2. DOMAIN fields = {} /\ maxId = 0
      BY <1>12, <2>2, <2>3
    <3> HIDE DEF start, fields, maxId
    <3> QED
      BY <1>8, <3>1, <3>2, EmptySparse
  <2> QED
    BY <1>10, <1>12, <2>3
<1>13. CASE Tainted /\ UNCHANGED objects
  BY <1>9, <1>13 DEF Tainted
<1>14. ASSUME maxId # 0, linked.ok, FinishMetadata(linked.r, l, msg, start), Checked(Size)
       PROVE  CInv'
  <2> DEFINE r == linked.r
  <2>1. FinishMetadata(r, l, msg, start)
    BY <1>14
  <2>2. \/ msg' = [msg EXCEPT !.tainted = TRUE] /\ UNCHANGED objects
        \/ Close(start, kind)
    BY <2>1 DEF FinishMetadata
  <2>3. CASE Close(start, kind)
    <3>1. msg' = None /\ msg.is # "none"
      BY <1>1, <2>3 DEF Close
    <3>2. Tables(l, first)
      <4>1. Len(left) - msg.added = msg.base /\ Floor = msg.start
        BY <1>1, <1>2, <1>14, SparseEntries, FloorCases
      <4>2. Tables(SubSeq(left, 1, msg.base), Floor)
        BY <1>1, <1>2, <1>14, SparseEntries
      <4> QED
        BY <4>1, <4>2
    <3>3. ASSUME ~msg.tainted
          PROVE  TableWords(r, start, fields, maxId)
      <4>1. Prepared(whole, start, right, maxId)
        <5> HIDE DEF maxId
        <5>1. Prepared(Push(right, Zeros(MetaSize(maxId) + 1) \o <<SparseLimit(maxId)>>),
                       Len(right) + 1, right, maxId)
          BY <1>2, <1>3, <1>14, TablePrepared
        <5> QED
          BY <5>1 DEF Size
      <4>2. linked.ok
        BY <1>14
      <4> HIDE DEF whole, start
      <4>3. TableWords(LinkFields(whole, start).r, start, msg.fields, msg.maxId)
        BY <1>1, <1>8, <1>14, <3>3, <4>1, <4>2, SparseTable
      <4> QED
        BY <4>3
    <3>4. ASSUME NEW s \in Seq(Int), ~msg.tainted, Agree(s, right', Size')
          PROVE  SparseWords(s, start, fields, maxId)
      <4>1. TableWords(r, start, fields, msg.maxId)
        BY <3>3, <3>4
      <4> HIDE DEF r, l, start, fields, first
      <4>2. SparseWords(s, start, fields, msg.maxId)
        BY <1>3, <1>8, <2>1, <3>1, <3>2, <3>4, <4>1, FinishMetadataContent
      <4> QED
        BY <4>2
    <3> QED
      BY <1>10, <2>3, <3>4
  <2> QED
    BY <1>9, <2>2, <2>3
<1> QED
  BY <1>11, <1>12, <1>13, <1>14, <1>15

-----------------------------------------------------------------------------
(* A field of a preallocated message.                                      *)

(* The entries of the fields lead to their words, from that far on.        *)
PlacedWords(r, base, fields, maxId, from, count) ==
  \A id \in 1 .. maxId - 1 :
    IF id \in DOMAIN fields
      THEN /\ Entry(r, base + 1, id) \in from .. count
           /\ r[base - Entry(r, base + 1, id)] = SparseWordOf(fields, id, base)
      ELSE Entry(r, base + 1, id) = 0

(* What AddPreallocated writes, and where it may.                          *)
Placing(t, r, base, id, offset, word) ==
  /\ base \in Nat /\ r \in Seq(Int) /\ word \in Int
  /\ t = [WriteFieldMeta(r, base, id, offset) EXCEPT ![base - offset] = word]

InRoom(r, base, maxId, count, id, offset) ==
  /\ maxId \in Nat /\ maxId >= 2 /\ base + 1 + MetaSize(maxId) <= Len(r)
  /\ count \in Nat /\ count < base /\ id \in 1 .. maxId - 1
  /\ offset \in Nat \ {0} /\ offset <= count /\ offset < EntryMod(id)

(* A preallocated message after one more field, in any order of ids.       *)
LEMMA FieldPlaced ==
  ASSUME NEW r, NEW base, NEW maxId, NEW count, NEW id, NEW offset, NEW fields, NEW v, NEW wider,
         NEW word, NEW t, Placing(t, r, base, id, offset, word),
         InRoom(r, base, maxId, count, id, offset),
         Wider(wider, fields, id, v), id \notin DOMAIN fields,
         PlacedWords(r, base, fields, maxId, offset + 1, count),
         word = SparseWordOf(wider, id, base)
  PROVE  PlacedWords(t, base, wider, maxId, offset, count) /\ t[base] = r[base]
<1> DEFINE w == WriteFieldMeta(r, base, id, offset)
           place == base - offset
<1>0. /\ base \in Nat /\ r \in Seq(Int) /\ word \in Int
      /\ t = [WriteFieldMeta(r, base, id, offset) EXCEPT ![base - offset] = word]
      /\ maxId \in Nat /\ maxId >= 2 /\ base + 1 + MetaSize(maxId) <= Len(r)
      /\ count \in Nat /\ count < base /\ id \in 1 .. maxId - 1
      /\ offset \in Nat \ {0} /\ offset <= count /\ offset < EntryMod(id)
  BY DEF Placing, InRoom
<1> USE <1>0
<1>1. id \in Nat \ {0} /\ base + 1 + MetaPlace(id) <= Len(r)
  <2>1. MetaPlace(id) \in 1 .. MetaSize(maxId) /\ MetaSize(maxId) \in Nat /\ Len(r) \in Nat
    BY MetaPlaces, MetaSizeProperties, SeqFacts
  <2>2. id \in Nat \ {0}
    OBVIOUS
  <2> QED
    BY ONLY <1>0, <2>1, <2>2
<1>2. /\ w \in Seq(Int) /\ Len(w) = Len(r)
      /\ \A k \in 1 .. Len(r) : k <= base + 1 => w[k] = r[k]
  <2>1. offset \in Int
    OBVIOUS
  <2> QED
    BY <1>1, <2>1, WriteFieldMetaProperties, SMTT(30)
<1>3. /\ Entry(w, base + 1, id) = offset
      /\ \A j \in 1 .. maxId - 1 : j # id => Entry(w, base + 1, j) = Entry(r, base + 1, j)
  BY EntryWritten
<1>4. place \in 1 .. base - 1 /\ place \in Int
  OBVIOUS
<1>5. \A k \in 1 .. Len(r) : t[k] = IF k = place THEN word ELSE w[k]
  <2> HIDE DEF place, w
  <2>1. t = [w EXCEPT ![place] = word]
    BY DEF place, w
  <2> QED
    BY <1>2, <1>4, <2>1, SetProperties
<1>6. Len(r) \in Nat /\ base + 1 <= Len(r)
  <2>1. MetaSize(maxId) \in Nat /\ Len(r) \in Nat
    BY MetaSizeProperties, SeqFacts
  <2> QED
    BY ONLY <1>0, <2>1
<1> HIDE DEF w
<1>7. ASSUME NEW j \in 1 .. maxId - 1
      PROVE  Entry(t, base + 1, j) = Entry(w, base + 1, j)
  <2>1. /\ base + 1 + MetaPlace(j) \in 1 .. Len(r) /\ base + 1 + MetaPlace(j) # place
        /\ ~IsTiny(j) => /\ base + 1 + MetaPlace(j) - 1 \in 1 .. Len(r)
                         /\ base + 1 + MetaPlace(j) - 1 # place
    <3>1. /\ MetaPlace(j) \in 1 .. MetaSize(maxId)
          /\ ~IsTiny(j) => MetaPlace(j) - 1 \in 1 .. MetaSize(maxId)
          /\ MetaSize(maxId) \in Nat
      BY MetaPlaces, MetaSizeProperties
    <3> DEFINE p == MetaPlace(j)
               size == MetaSize(maxId)
               tiny == IsTiny(j)
    <3>2. p \in 1 .. size /\ (~tiny => p - 1 \in 1 .. size) /\ size \in Nat
      BY <3>1
    <3>3. base + 1 + size <= Len(r)
      OBVIOUS
    <3> HIDE DEF place, p, size, tiny
    <3>4. base + 1 + p \in 1 .. Len(r) /\ base + 1 + p # place
      BY ONLY <1>0, <1>4, <1>6, <3>2, <3>3
    <3>5. ~tiny => base + 1 + p - 1 \in 1 .. Len(r) /\ base + 1 + p - 1 # place
      BY ONLY <1>0, <1>4, <1>6, <3>2, <3>3
    <3> QED
      BY ONLY <3>4, <3>5 DEF p, tiny
  <2>2. /\ t[base + 1 + MetaPlace(j)] = w[base + 1 + MetaPlace(j)]
        /\ ~IsTiny(j) => t[base + 1 + MetaPlace(j) - 1] = w[base + 1 + MetaPlace(j) - 1]
    BY <1>5, <2>1
  <2> QED
    BY <2>2 DEF Entry
<1>8. /\ DOMAIN wider = DOMAIN fields \cup {id}
      /\ \A f \in DOMAIN fields : f # id => SparseWordOf(wider, f, base) = SparseWordOf(fields, f, base)
  BY DEF Wider, SparseWordOf
<1>9. ASSUME NEW j \in 1 .. maxId - 1
      PROVE  IF j \in DOMAIN wider
               THEN /\ Entry(t, base + 1, j) \in offset .. count
                    /\ t[base - Entry(t, base + 1, j)] = SparseWordOf(wider, j, base)
               ELSE Entry(t, base + 1, j) = 0
  <2>1. CASE j = id
    <3>1. Entry(t, base + 1, j) = offset
      BY <1>3, <1>7, <2>1
    <3>2. place \in 1 .. Len(r)
      BY <1>4, <1>6
    <3>3. t[base - offset] = word
      BY <1>5, <3>2
    <3>4. j \in DOMAIN wider /\ offset \in offset .. count
      BY <1>8, <2>1
    <3> QED
      BY <2>1, <3>1, <3>3, <3>4
  <2>2. CASE j # id /\ j \in DOMAIN fields
    <3> DEFINE e == Entry(r, base + 1, j)
    <3>1. Entry(t, base + 1, j) = e
      BY <1>3, <1>7, <2>2
    <3>2. e \in offset + 1 .. count /\ r[base - e] = SparseWordOf(fields, j, base)
      BY <2>2 DEF PlacedWords
    <3> HIDE DEF e
    <3>3. base - e \in 1 .. Len(r) /\ base - e <= base + 1 /\ base - e # place /\ e \in offset .. count
      BY ONLY <1>0, <1>6, <3>2, SMTT(30)
    <3>4. t[base - e] = r[base - e]
      BY <1>2, <1>5, <3>3
    <3> QED
      BY <1>8, <2>2, <3>1, <3>2, <3>3, <3>4
  <2>3. CASE j # id /\ j \notin DOMAIN fields
    BY <1>3, <1>7, <1>8, <2>3 DEF PlacedWords
  <2> QED
    BY <2>1, <2>2, <2>3
<1>10. t[base] = r[base]
  <2>1. base \in 1 .. Len(r) /\ base # place /\ base <= base + 1
    BY <1>4, <1>6
  <2> QED
    BY <1>2, <1>5, <2>1
<1> QED
  BY <1>9, <1>10 DEF PlacedWords

(* One more of the fields accounted for.                                   *)
LEMMA RoomIsLeft ==
  ASSUME NEW accounted \in SUBSET Field, NEW fields, DOMAIN fields \subseteq accounted,
         NEW id \in accounted, id \notin DOMAIN fields, NEW wider, DOMAIN wider = DOMAIN fields \cup {id}
  PROVE  /\ Cardinality(accounted) \in Nat /\ Cardinality(DOMAIN fields) \in Nat
         /\ Cardinality(DOMAIN wider) = Cardinality(DOMAIN fields) + 1
         /\ Cardinality(DOMAIN wider) <= Cardinality(accounted)
<1>1. IsFiniteSet(accounted)
  <2>1. MaxField \in 1 .. 8190
    BY WireAssumption, SMTT(30)
  <2>2. MaxField \in Nat
    BY ONLY <2>1
  <2>3. IsFiniteSet(Field)
    BY <2>2, FS_Interval DEF Field
  <2> QED
    BY <2>3, FS_Subset
<1>2. IsFiniteSet(DOMAIN fields)
  BY <1>1, FS_Subset
<1>3. Cardinality(DOMAIN wider) = Cardinality(DOMAIN fields) + 1
  BY <1>2, FS_AddElement
<1>4. DOMAIN wider \subseteq accounted
  OBVIOUS
<1>5. Cardinality(DOMAIN wider) <= Cardinality(accounted)
  BY <1>1, <1>4, FS_Subset
<1> QED
  BY <1>1, <1>2, <1>3, <1>5, FS_CardinalityType

LEMMA AddPreallocatedContent ==
  ASSUME CInv, IInv', Kept, ~wrapped',
         NEW id \in Field, NEW v, FieldFits(id, v, Floor), NEW word \in Int,
         word = IF id \in RefFields THEN msg.end - v ELSE v,
         id \notin RefFields /\ ~msg.explicit => v # Default[id],
         NEW scalar \in BOOLEAN, AddPreallocated(id, v, word, scalar)
  PROVE  CInv'
<1> DEFINE offset == msg.prevOffset - 1
           fields == Added(id, v)
           base == msg.base
           maxId == msg.maxId
           accounted == msg.accounted
           count == Cardinality(accounted)
           start == msg.start
           old == msg.fields
           new == [WriteFieldMeta(right, base, id, offset) EXCEPT ![base - offset] = word]
<1>1. /\ msg.is = "preallocated" /\ base # 0 /\ id \in accounted
      /\ (~msg.tainted => offset < EntryMod(id)) /\ (msg.prev = 0 \/ msg.prev > id)
      /\ right' = new
      /\ msg' = [msg EXCEPT !.prev = id, !.prevOffset = offset, !.fields = fields]
      /\ UNCHANGED <<inline, objects>>
  <2>1. /\ msg.is = "preallocated" /\ base # 0 /\ id \in accounted
        /\ (msg.prev = 0 \/ msg.prev > id) /\ UNCHANGED <<inline, objects>>
    BY DEF AddPreallocated
  <2>2. msg.prevOffset \in Int
    BY <2>1, MessageKinds DEF CInv, IInv, PreallocatedOpen, PreallocatedRecord
  <2>3. WrittenBelow(id, v, word)
    BY <2>2, OffsetIsBelow
  <2> QED
    BY <2>1, <2>3, Zenon DEF WrittenBelow
<1>2. PreallocatedOpen /\ right \in Seq(Int) /\ Floor = start
  BY <1>1, MessageKinds, FloorCases DEF CInv, IInv, ScalarsInv
<1>3. /\ msg \in PreallocatedRecord(msg.fields) /\ start \in Nat /\ base \in Nat /\ msg.end = base
      /\ msg.prevOffset \in Int /\ maxId \in Nat /\ accounted \in SUBSET Field
      /\ msg.prev \in Nat /\ msg.explicit \in BOOLEAN
      /\ base = start + count + 1 /\ (maxId # 0 => maxId >= 2)
      /\ Len(right) = base + IF maxId = 0 THEN 0 ELSE MetaSize(maxId) + 1
  BY <1>1, <1>2 DEF PreallocatedOpen, PreallocatedRecord, Size
<1>4. offset \in Int /\ id \in Nat
  BY <1>3 DEF Field
<1> HIDE DEF new
<1>5. /\ msg'.is = "preallocated" /\ msg'.start = start /\ msg'.end = msg.end /\ msg'.base = base
      /\ msg'.maxId = maxId /\ msg'.prevOffset = offset /\ msg'.accounted = accounted
      /\ msg'.fields = fields /\ msg'.prev = id /\ msg'.explicit = msg.explicit
      /\ msg'.tainted = msg.tainted
  <2> HIDE DEF offset, fields
  <2> QED
    BY ONLY <1>1, <1>3, <1>4 DEF PreallocatedRecord
<1>6. ASSUME ~msg.tainted
      PROVE  FieldsFit(fields, start) /\ PreallocatedContent(right', msg')
  <2>1. FieldsFit(old, start) /\ PreallocatedContent(right, msg)
    BY <1>1, <1>6 DEF CInv, MessageContent
  <2>2. /\ DOMAIN old \subseteq accounted
        /\ msg.prevOffset = count + 1 - Cardinality(DOMAIN old)
        /\ msg.prev = 0 => DOMAIN old = {}
        /\ \A f \in DOMAIN old : msg.prev <= f
        /\ maxId = IF accounted = {} THEN 0 ELSE Max(accounted) + 1
        /\ right[base] = IF maxId = 0 THEN 2 ELSE SparseLimit(maxId)
        /\ ~msg.explicit => NoDefaults(old)
    BY <2>1 DEF PreallocatedContent
  <2>3. PlacedWords(right, base, old, maxId, msg.prevOffset, count)
    BY <2>1 DEF PreallocatedContent, PlacedWords
  <2>4. id \notin DOMAIN old /\ \A f \in DOMAIN old : id <= f
    <3>1. \A f \in DOMAIN old : f \in Nat
      BY <2>1 DEF FieldsFit, Field
    <3> HIDE DEF old
    <3> QED
      BY ONLY <1>1, <1>3, <1>4, <2>2, <3>1
  <2>5. maxId # 0 /\ id \in 1 .. maxId - 1 /\ maxId = Max(accounted) + 1
    <3>1. accounted # {}
      BY <1>1
    <3>2. MaxField \in Nat /\ accounted \subseteq 0 .. MaxField
      BY <1>3, WireAssumption DEF Field
    <3> DEFINE last == Max(accounted)
    <3>3. last \in accounted /\ last >= id
      BY <1>1, <3>1, <3>2, MaxIsGreatest
    <3>4. last \in Nat /\ maxId = last + 1 /\ id \in Nat \ {0}
      BY <1>3, <2>2, <3>1, <3>3 DEF Field
    <3> HIDE DEF last
    <3> QED
      BY <3>3, <3>4 DEF last
  <2>6. Wider(fields, old, id, v)
    BY DEF Added, Wider
  <2>7. /\ count \in Nat /\ Cardinality(DOMAIN old) \in Nat
        /\ Cardinality(DOMAIN fields) = Cardinality(DOMAIN old) + 1
        /\ Cardinality(DOMAIN fields) <= count
    <3>1. DOMAIN fields = DOMAIN old \cup {id}
      BY <2>6 DEF Wider
    <3> HIDE DEF fields, old, accounted
    <3> QED
      BY <1>1, <1>3, <2>2, <2>4, <3>1, RoomIsLeft
  <2>8. /\ offset \in Nat \ {0} /\ offset <= count /\ offset + 1 = msg.prevOffset
        /\ offset = count + 1 - Cardinality(DOMAIN fields)
    <3> HIDE DEF count, fields, old
    <3> QED
      BY ONLY <1>3, <2>2, <2>7, SMTT(30) DEF offset
  <2>9. /\ FieldsFit(fields, start)
        /\ SparseWordOf(fields, id, base) = word
        /\ ~msg.explicit => NoDefaults(fields)
    <3>1. FieldsFit(msg.fields, start) /\ FieldFits(id, v, start)
      BY <1>2, <2>1
    <3>2. id \in RefFields => word = base - v
      BY <1>3
    <3> HIDE DEF start, base
    <3>3. FieldsFit(fields, start)
      BY <3>1, AddedFields
    <3>4. SparseWordOf(Added(id, v), id, base) = IF id \in RefFields THEN base - v ELSE v
      BY <3>1, AddedWords
    <3>5. ~msg.explicit => NoDefaults(fields)
      BY <2>2, <3>1, AddedDefaults
    <3> QED
      BY <3>2, <3>3, <3>4, <3>5
  <2>10. maxId >= 2 /\ base + 1 + MetaSize(maxId) <= Len(right)
    <3>1. maxId >= 2
      BY <1>3, <2>5
    <3> DEFINE size == MetaSize(maxId)
    <3>2. size \in Nat /\ Len(right) = base + (size + 1)
      BY <1>3, <2>5, <3>1, MetaSizeProperties
    <3> HIDE DEF size
    <3>3. base + 1 + size <= Len(right)
      BY <1>3, <3>2
    <3> QED
      BY <3>1, <3>3 DEF size
  <2>11. count < base
    BY <1>3, <2>7
  <2>12. PlacedWords(right, base, old, maxId, offset + 1, count)
    BY <2>3, <2>8
  <2>13. new = [WriteFieldMeta(right, base, id, offset) EXCEPT ![base - offset] = word]
    BY DEF new
  <2>14. PlacedWords(new, base, fields, maxId, offset, count) /\ new[base] = right[base]
    <3> HIDE DEF base, fields, old, maxId, offset, count
    <3>1. right \in Seq(Int) /\ base \in Nat /\ maxId \in Nat /\ maxId >= 2
          /\ base + 1 + MetaSize(maxId) <= Len(right) /\ count \in Nat /\ count < base
      BY ONLY <1>2, <1>3, <2>7, <2>10, <2>11
    <3>2. id \in 1 .. maxId - 1 /\ offset \in Nat \ {0} /\ offset <= count /\ offset < EntryMod(id)
      BY ONLY <1>1, <1>6, <2>5, <2>8
    <3>3. Wider(fields, old, id, v) /\ id \notin DOMAIN old
          /\ PlacedWords(right, base, old, maxId, offset + 1, count)
      BY ONLY <2>4, <2>6, <2>12
    <3>4. word \in Int /\ word = SparseWordOf(fields, id, base)
      BY <2>9
    <3>5. Placing(new, right, base, id, offset, word) /\ InRoom(right, base, maxId, count, id, offset)
      BY ONLY <2>13, <3>1, <3>2, <3>4 DEF Placing, InRoom
    <3> QED
      BY ONLY <3>3, <3>4, <3>5, FieldPlaced
  <2>15. DOMAIN fields \subseteq accounted /\ \A f \in DOMAIN fields : id <= f
    <3>1. DOMAIN fields = DOMAIN old \cup {id}
      BY <2>6 DEF Wider
    <3> QED
      BY <1>1, <1>4, <2>2, <2>4, <3>1
  <2>16. id # 0
    BY <2>5
  <2> HIDE DEF fields, base, maxId, accounted, offset
  <2>17. PreallocatedContent(right', msg')
    BY <1>1, <1>5, <2>2, <2>8, <2>9, <2>14, <2>15, <2>16 DEF PreallocatedContent, PlacedWords
  <2> QED
    BY <2>9, <2>17
<1>7. MessageContent'
  BY <1>5, <1>6 DEF MessageContent
<1> QED
  BY <1>1, <1>5, <1>7, AddContent DEF OpenKinds

(* The table has been written field by field.                              *)
LEMMA PreallocatedTable ==
  ASSUME PreallocatedOpen, right \in Seq(Int), msg.maxId # 0,
         FieldsFit(msg.fields, msg.start), PreallocatedContent(right, msg), msg.base # 0
  PROVE  TableWords(right, msg.base, msg.fields, msg.maxId)
<1> DEFINE base == msg.base
           maxId == msg.maxId
           accounted == msg.accounted
           count == Cardinality(accounted)
           fields == msg.fields
           last == Max(accounted)
           size == MetaSize(maxId)
<1>1. /\ msg.start \in Nat /\ base \in Nat /\ msg.prevOffset \in Int /\ maxId \in Nat
      /\ accounted \in SUBSET Field /\ base = msg.start + count + 1 /\ maxId >= 2 /\ maxId # 0
      /\ Len(right) = base + (MetaSize(maxId) + 1)
  BY DEF PreallocatedOpen, PreallocatedRecord, Size
<1>2. /\ DOMAIN fields \subseteq accounted
      /\ msg.prevOffset = count + 1 - Cardinality(DOMAIN fields)
      /\ maxId = IF accounted = {} THEN 0 ELSE last + 1
      /\ right[base] = SparseLimit(maxId)
      /\ \A id \in 1 .. maxId - 1 :
           IF id \in DOMAIN fields
             THEN /\ Entry(right, base + 1, id) \in msg.prevOffset .. count
                  /\ right[base - Entry(right, base + 1, id)] = SparseWordOf(fields, id, base)
             ELSE Entry(right, base + 1, id) = 0
  BY DEF PreallocatedContent
<1>3. MaxField \in Nat
  BY WireAssumption
<1>4. /\ count \in Nat /\ Cardinality(DOMAIN fields) \in Nat /\ Cardinality(DOMAIN fields) <= count
  <2>1. IsFiniteSet(accounted)
    <3>1. IsFiniteSet(Field)
      BY <1>3, FS_Interval DEF Field
    <3> QED
      BY <1>1, <3>1, FS_Subset
  <2> HIDE DEF accounted, fields
  <2> QED
    BY <1>2, <2>1, FS_Subset, FS_CardinalityType
<1>5. accounted # {} /\ maxId = last + 1
  BY <1>1, <1>2
<1>6. last \in accounted /\ \A id \in accounted : last >= id
  <2>1. accounted \subseteq 0 .. MaxField
    BY <1>1, <1>3 DEF Field
  <2> HIDE DEF accounted
  <2> QED
    BY <1>3, <1>5, <2>1, MaxIsGreatest
<1>7. size \in Nat /\ Len(right) = base + 1 + size
  <2>1. size \in Nat
    BY <1>1, MetaSizeProperties
  <2>2. Len(right) = base + (size + 1)
    BY <1>1
  <2> HIDE DEF size
  <2> QED
    BY <1>1, <2>1, <2>2
<1> HIDE DEF base, maxId, accounted, count, fields, last
<1>8. maxId \in 2 .. IdLimit
  <2>1. last \in Field
    BY <1>1, <1>6
  <2> QED
    BY ONLY <1>1, <1>3, <1>5, <2>1 DEF Field, IdLimit
<1>9. DOMAIN fields \subseteq 1 .. maxId - 1
  <2> SUFFICES ASSUME NEW id \in DOMAIN fields
               PROVE  id \in 1 .. maxId - 1
    OBVIOUS
  <2>1. id \in accounted /\ id \in Field /\ last \in Field
    BY <1>1, <1>2, <1>6
  <2> QED
    BY ONLY <1>3, <1>5, <1>6, <2>1 DEF Field
<1>10. msg.prevOffset >= 1 /\ count < base
  <2> DEFINE n == Cardinality(DOMAIN fields)
             first == msg.prevOffset
             start == msg.start
  <2>1. /\ first = count + 1 - n /\ n \in Nat /\ n <= count /\ count \in Nat
        /\ base = start + count + 1 /\ start \in Nat
    BY <1>1, <1>2, <1>4
  <2> HIDE DEF n, first, start
  <2>2. first >= 1 /\ count < base
    BY ONLY <2>1
  <2> QED
    BY <2>2 DEF first
<1>11. ASSUME NEW id \in 1 .. maxId - 1
       PROVE  IF id \in DOMAIN fields
                THEN /\ Entry(right, base + 1, id) \in 1 .. base - 1
                     /\ right[base - Entry(right, base + 1, id)] = SparseWordOf(fields, id, base)
                ELSE Entry(right, base + 1, id) = 0
  <2> DEFINE e == Entry(right, base + 1, id)
             first == msg.prevOffset
  <2>1. e \in first .. count => e \in 1 .. base - 1
    <3> HIDE DEF e
    <3>1. first \in Int /\ first >= 1 /\ count < base
      BY <1>1, <1>10
    <3> HIDE DEF first
    <3> QED
      BY ONLY <1>1, <1>4, <3>1
  <2> QED
    BY <1>2, <2>1
<1>12. TableWords(right, base, fields, maxId)
  BY <1>2, <1>5, <1>7, <1>8, <1>9, <1>11 DEF TableWords, size
<1> QED
  BY <1>12 DEF base, fields, maxId

LEMMA FinishPreallocatedContent ==
  ASSUME CInv, IInv', Kept, FinishPreallocated
  PROVE  CInv'
<1> DEFINE kind == Presence(msg)
           fields == msg.fields
           first == msg.start
           maxId == msg.maxId
           start == msg.end
           m == [msg EXCEPT !.prevOffset = 1]
<1>1. /\ msg.is = "preallocated" /\ start # 0 /\ UNCHANGED inline
      /\ IF maxId = 0 THEN Close(start, kind) /\ UNCHANGED right
                      ELSE FinishMetadata(right, left, m, start)
  BY DEF FinishPreallocated
<1>2. PreallocatedOpen /\ right \in Seq(Int) /\ IInv
  BY <1>1, MessageKinds DEF CInv, IInv, ScalarsInv
<1>3. /\ first \in Nat /\ msg.explicit \in BOOLEAN /\ start \in Nat /\ start = msg.base
      /\ maxId \in Nat /\ (maxId # 0 => maxId >= 2) /\ msg.accounted \in SUBSET Field
      /\ msg \in PreallocatedRecord(msg.fields)
      /\ start = first + Cardinality(msg.accounted) + 1
      /\ Size = start + IF maxId = 0 THEN 0 ELSE MetaSize(maxId) + 1
  BY <1>1, <1>2 DEF PreallocatedOpen, PreallocatedRecord
<1>4. kind \in {"explicit", "implicit"} /\ (kind = "implicit" => ~msg.explicit)
  BY <1>3, SparseKind
<1>5. ~msg.tainted => FieldsFit(fields, first) /\ PreallocatedContent(right, msg)
  BY <1>1 DEF CInv, MessageContent
<1>6. InlineContent'
  BY <1>1 DEF CInv, InlineContent
<1>7. ~msg.tainted /\ kind = "implicit" => NoDefaults(fields)
  BY <1>4, <1>5 DEF PreallocatedContent
<1>8. start \in Nat \ {0} /\ first < start
  <2>1. Cardinality(msg.accounted) \in Nat
    BY <1>3, CardinalityFacts
  <2> QED
    BY <1>3, <2>1
<1>9. /\ m \in PreallocatedRecord(msg.fields) /\ m.maxId = maxId /\ m.is # "none"
      /\ m.is = "preallocated" /\ m.start = msg.start
  BY ONLY <1>3 DEF PreallocatedRecord
<1> HIDE DEF m
<1>10. ASSUME msg' = [m EXCEPT !.tainted = TRUE], UNCHANGED objects
       PROVE  CInv'
  <2>1. msg'.is = "preallocated" /\ msg'.start = msg.start /\ msg'.tainted
    BY ONLY <1>9, <1>10 DEF PreallocatedRecord
  <2>2. MessageContent'
    BY <2>1 DEF MessageContent
  <2> QED
    BY <1>1, <1>10, <2>1, <2>2, AddContent DEF OpenKinds
<1>11. ASSUME Close(start, kind),
              \A s \in Seq(Int) : ~msg.tainted /\ Agree(s, right', Size') => SparseWords(s, start, fields, maxId)
       PROVE  CInv'
  <2>1. ASSUME ~msg.tainted
        PROVE  Settled([off |-> start, kind |-> kind, body |-> fields], right', Size')
    <3> SUFFICES ASSUME NEW s \in Seq(Int), Agree(s, right', Size')
                 PROVE  Reads(s, [off |-> start, kind |-> kind, body |-> fields])
      BY DEF Settled
    <3>1. SparseWords(s, start, fields, maxId)
      BY <1>11, <2>1
    <3> HIDE DEF start, first, fields, kind, maxId
    <3> QED
      BY <1>3, <1>4, <1>5, <1>7, <1>8, <2>1, <3>1, SparseIsRead
  <2> QED
    BY <1>1, <1>6, <1>11, <2>1, CloseContent DEF OpenKinds
<1>12. CASE maxId = 0
  <2>1. Close(start, kind) /\ right' = right
    BY <1>1, <1>12
  <2>2. Size' = start
    BY <1>3, <1>12, <2>1 DEF Size
  <2>3. ASSUME ~msg.tainted
        PROVE  right[start] = 2 /\ DOMAIN fields = {}
    <3>1. /\ DOMAIN fields \subseteq msg.accounted
          /\ maxId = IF msg.accounted = {} THEN 0 ELSE Max(msg.accounted) + 1
          /\ right[start] = 2
      BY <1>3, <1>5, <1>12, <2>3 DEF PreallocatedContent
    <3>2. msg.accounted # {} => Max(msg.accounted) \in Nat
      BY <1>3, CardinalityFacts DEF Field
    <3> QED
      BY <1>12, <3>1, <3>2
  <2>4. ASSUME NEW s \in Seq(Int), ~msg.tainted, Agree(s, right', Size')
        PROVE  SparseWords(s, start, fields, maxId)
    <3>1. start <= Len(s) /\ s[start] = 2
      <4>1. start \in 1 .. Size'
        BY <1>8, <2>2
      <4> QED
        BY <2>1, <2>2, <2>3, <2>4, <4>1 DEF Agree
    <3>2. DOMAIN fields = {} /\ maxId = 0
      BY <1>12, <2>3, <2>4
    <3> HIDE DEF start, fields, maxId
    <3> QED
      BY <1>8, <3>1, <3>2, EmptySparse
  <2> QED
    BY <1>11, <2>1, <2>4
<1>13. CASE maxId # 0
  <2>1. FinishMetadata(right, left, m, start)
    BY <1>1, <1>13
  <2>2. \/ msg' = [m EXCEPT !.tainted = TRUE] /\ UNCHANGED objects
        \/ Close(start, kind)
    BY <2>1 DEF FinishMetadata
  <2>3. CASE Close(start, kind)
    <3>1. msg' = None
      BY <2>3 DEF Close
    <3>2. Tables(left, first)
      <4>1. TablesHeld = Len(left) /\ Len(left) \in Nat /\ Floor = first
        BY <1>1, <1>2, SeqFacts, FloorCases DEF TablesHeld, IInv, LeftInv
      <4> QED
        BY <1>2, <4>1, TablesLeft DEF IInv
    <3>3. ASSUME NEW s \in Seq(Int), ~msg.tainted, Agree(s, right', Size')
          PROVE  SparseWords(s, start, fields, maxId)
      <4>1. TableWords(right, msg.base, msg.fields, msg.maxId)
        BY <1>1, <1>2, <1>3, <1>5, <1>13, <3>3, PreallocatedTable
      <4>2. TableWords(right, start, fields, m.maxId)
        BY <1>3, <1>9, <4>1
      <4> HIDE DEF start, fields, first, maxId
      <4>3. SparseWords(s, start, fields, m.maxId)
        BY <1>3, <1>8, <1>9, <2>1, <3>1, <3>2, <3>3, <4>2, FinishMetadataContent
      <4> QED
        BY <1>9, <4>3
    <3> QED
      BY <1>11, <2>3, <3>3
  <2> QED
    BY <1>10, <2>2, <2>3
<1> QED
  BY <1>12, <1>13

-----------------------------------------------------------------------------
(* The steps that write nothing below the floor and promise nothing.       *)

LEMMA FinishBufferContent ==
  ASSUME CInv, IInv', Kept, NotFinished, NotNested, UNCHANGED <<msg, inline, objects>>
  PROVE  CInv'
<1>1. msg = None /\ ~inline.open /\ msg' = None /\ msg'.is = "none"
  BY Unnested DEF CInv, None
<1>2. Grown
  BY <1>1, FloorGrows DEF CInv
<1>3. Content' /\ MessageContent'
  BY <1>1, <1>2, ContentKept, NoMessageContent DEF CInv
<1>4. InlineContent'
  BY <1>1 DEF InlineContent
<1> QED
  BY <1>3, <1>4 DEF CInv

(* Settings change no word.                                                *)
LEMMA SettingContent ==
  ASSUME CInv, IInv', UNCHANGED <<right, left, msg, inline, objects>>
  PROVE  CInv'
<1>1. Size' = Size
  BY DEF Size
<1>2. Floor' = Floor
  BY <1>1 DEF Floor
<1>3. Content'
  BY <1>2 DEF CInv, Content
<1>4. MessageContent'
  BY SameMessageContent DEF CInv
<1>5. InlineContent'
  BY <1>1 DEF CInv, InlineContent
<1> QED
  BY <1>3, <1>4, <1>5 DEF CInv

(* An emptied buffer promises nothing.                                     *)
LEMMA EmptiedContent ==
  ASSUME IInv', objects' = {}, msg' = None, inline' = Closed
  PROVE  CInv'
<1>1. Content'
  BY DEF Content
<1>2. MessageContent' /\ InlineContent'
  BY NoMessageContent, ClosedContent
<1> QED
  BY <1>1, <1>2 DEF CInv

-----------------------------------------------------------------------------
(* The steps.                                                              *)

LEMMA WriteContent ==
  ASSUME CInv, IInv', Kept, Write
  PROVE  CInv'
<1>1. CASE \E s \in Strings : SerializeString(s)
  BY <1>1, SerializeStringContent
<1>2. CASE \E v \in Vectors : SerializeArray(v)
  BY <1>2, SerializeArrayContent
<1>3. CASE \E n \in RefLists : \E list \in [1 .. n -> RefInputs] : SerializeOffsets(list)
  BY <1>3, SerializeOffsetsContent
<1>4. CASE StartInline
  BY <1>4, StartInlineContent
<1>5. CASE NextElement
  BY <1>5, NextElementContent
<1>6. CASE LastElement
  BY <1>6, LastElementContent
<1>7. CASE AbandonInline
  BY <1>7, AbandonInlineContent
<1> QED
  BY <1>1, <1>2, <1>3, <1>4, <1>5, <1>6, <1>7 DEF Write

LEMMA StartMessageContent ==
  ASSUME CInv, IInv', Kept, ~wrapped', StartMessage
  PROVE  CInv'
  BY StartFixedContent, StartFlatContent, StartSparseContent, StartPreallocatedContent
     DEF StartMessage

LEMMA FinishMessageContent ==
  ASSUME CInv, IInv', Kept, FinishMessage
  PROVE  CInv'
  BY FinishFixedContent, FinishFlatContent, FinishSparseContent, FinishPreallocatedContent
     DEF FinishMessage

LEMMA AddScalarContent ==
  ASSUME CInv, IInv', Kept, ~wrapped', AddScalar
  PROVE  CInv'
<1>1. PICK v \in Scalar :
        \/ \E id \in Field \ RefFields :
             \/ AddFixedScalar(id, v, Default[id])
             \/ AddFlatScalar(id, v, Default[id])
             \/ AddPreallocatedScalar(id, v, Default[id])
             \/ AddSparseScalar(id, v, Default[id])
        \/ \E id \in IF BadCalls THEN {0, IdLimit} ELSE {} : AddSparseScalar(id, v, 1 - v)
  BY DEF AddScalar
<1>2. v \in Int /\ MaxField \in Nat
  BY WireAssumption DEF Scalar
<1> DEFINE yes == TRUE
<1>3. yes \in BOOLEAN /\ yes
  OBVIOUS
<1>4. ASSUME NEW id \in Nat, NEW default, FieldInput(id, v, TRUE), AddSparseScalar(id, v, default)
      PROVE  CInv'
  <2>1. AddSparse(id, v, yes) /\ FieldInput(id, v, yes)
    BY <1>4 DEF AddSparseScalar
  <2> HIDE DEF yes
  <2> QED
    BY <1>2, <1>3, <2>1, AddSparseContent
<1>5. ASSUME NEW id \in Field \ RefFields,
             \/ AddFixedScalar(id, v, Default[id])
             \/ AddFlatScalar(id, v, Default[id])
             \/ AddPreallocatedScalar(id, v, Default[id])
             \/ AddSparseScalar(id, v, Default[id])
      PROVE  CInv'
  <2>1. id \in Field /\ id \in Nat /\ id \notin RefFields /\ FieldFits(id, v, Floor)
    BY <1>2 DEF Field, FieldFits
  <2>2. Default[id] \in Scalar /\ Default[id] \in Int /\ Xor(v, Default[id]) \in Int
    BY <1>2, <2>1, Defaults DEF Xor, Scalar
  <2>3. CASE AddFixedScalar(id, v, Default[id])
    <3> DEFINE word == Xor(v, Default[id])
    <3>1. AddFixed(id, v, word) /\ word \in Int
          /\ word = IF id \in RefFields THEN msg.loc - v ELSE Xor(v, Default[id])
      BY <2>1, <2>2, <2>3 DEF AddFixedScalar
    <3> HIDE DEF word
    <3> QED
      BY <2>1, <3>1, AddFixedContent
  <2>4. CASE AddFlatScalar(id, v, Default[id])
    <3>1. AddFlat(id, v, Default[id], yes) /\ (~msg.explicit => v # Default[id])
      BY <2>4 DEF AddFlatScalar
    <3> DEFINE default == Default[id]
    <3>2. AddFlat(id, v, default, yes) /\ default = Default[id] /\ default \in Int
          /\ (yes <=> id \notin RefFields) /\ (~msg.explicit => v # default)
      BY <2>1, <2>2, <3>1
    <3> HIDE DEF default, yes
    <3> QED
      BY <1>2, <1>3, <2>1, <3>2, AddFlatContent
  <2>5. CASE AddPreallocatedScalar(id, v, Default[id])
    <3> DEFINE word == v
    <3>1. AddPreallocated(id, v, word, yes) /\ (~msg.explicit => v # Default[id])
          /\ word \in Int /\ word = IF id \in RefFields THEN msg.end - v ELSE v
      BY <1>2, <2>1, <2>5 DEF AddPreallocatedScalar
    <3> HIDE DEF word, yes
    <3> QED
      BY <1>3, <2>1, <3>1, AddPreallocatedContent
  <2>6. CASE AddSparseScalar(id, v, Default[id])
    <3>1. ~msg.explicit => v # Default[id]
      BY <2>6 DEF AddSparseScalar
    <3>2. FieldInput(id, v, TRUE)
      BY <2>1, <3>1 DEF FieldInput
    <3> QED
      BY <1>4, <2>1, <2>6, <3>2
  <2> QED
    BY <1>5, <2>3, <2>4, <2>5, <2>6
<1>6. ASSUME NEW id \in {0, IdLimit}, AddSparseScalar(id, v, 1 - v)
      PROVE  CInv'
  <2>1. id \in Nat /\ id \notin Field
    BY <1>2 DEF Field, IdLimit
  <2>2. FieldInput(id, v, TRUE)
    BY <2>1 DEF FieldInput
  <2> QED
    BY <1>4, <1>6, <2>1, <2>2
<1> QED
  BY <1>1, <1>5, <1>6

LEMMA AddRefContent ==
  ASSUME CInv, IInv', Kept, ~wrapped', ForeignIsOutside, AddRef
  PROVE  CInv'
<1>1. PICK id \in RefFields, o \in RefInputs :
        \/ AddFixedRef(id, o)
        \/ AddFlatRef(id, o)
        \/ AddPreallocatedRef(id, o)
        \/ AddSparseRef(id, o)
  BY DEF AddRef
<1>2. o \in Nat /\ o \in Int /\ id \in Field /\ id \in Nat /\ id \in RefFields
  BY RefInputsType, SerializerAssumption DEF CInv, IInv, Field
<1>3. o # 0
  BY <1>1 DEF AddFixedRef, AddFlatRef, AddPreallocatedRef, AddSparseRef
<1>4. FieldFits(id, o, Floor)
  BY <1>2, <1>3, RefFits DEF CInv, FieldFits
<1> DEFINE no == FALSE
<1>5. no \in BOOLEAN /\ ~no
  OBVIOUS
<1>6. CASE AddFixedRef(id, o)
  <2> DEFINE word == msg.loc - o
  <2>1. AddFixed(id, o, word) /\ msg.is = "fixed"
    BY <1>6 DEF AddFixedRef
  <2>2. word \in Int /\ word = IF id \in RefFields THEN msg.loc - o ELSE Xor(o, Default[id])
    BY <1>2, <2>1, MessageKinds DEF CInv, IInv, FixedOpen
  <2> HIDE DEF word
  <2> QED
    BY <1>2, <1>4, <2>1, <2>2, AddFixedContent
<1>7. CASE AddFlatRef(id, o)
  <2>1. AddFlat(id, o, 0, no) /\ (no <=> id \notin RefFields)
    BY <1>2, <1>7 DEF AddFlatRef
  <2> HIDE DEF no
  <2> QED
    BY <1>2, <1>4, <1>5, <2>1, AddFlatContent
<1>8. CASE AddPreallocatedRef(id, o)
  <2> DEFINE word == msg.end - o
  <2>1. AddPreallocated(id, o, word, no) /\ msg.is = "preallocated"
    BY <1>8 DEF AddPreallocatedRef
  <2>2. word \in Int /\ word = IF id \in RefFields THEN msg.end - o ELSE o
    BY <1>2, <2>1, MessageKinds DEF CInv, IInv, PreallocatedOpen, PreallocatedRecord
  <2> HIDE DEF word, no
  <2> QED
    BY <1>2, <1>4, <1>5, <2>1, <2>2, AddPreallocatedContent
<1>9. CASE AddSparseRef(id, o)
  <2>1. AddSparse(id, o, no)
    BY <1>9 DEF AddSparseRef
  <2>2. FieldInput(id, o, no)
    BY <1>2, <1>4 DEF FieldInput
  <2> HIDE DEF no
  <2> QED
    BY <1>2, <1>5, <2>1, <2>2, AddSparseContent
<1> QED
  BY <1>1, <1>6, <1>7, <1>8, <1>9

(* Every step that truncates no offset keeps the invariant.                *)
LEMMA NextContent ==
  ASSUME CInv, ~wrapped', ForeignIsOutside, [Next]_vars
  PROVE  CInv'
<1>1. IInv /\ IInv'
  BY NextPreserves DEF CInv
<1>2. CASE Write
  BY <1>1, <1>2, WritePreserves, WriteContent
<1>3. CASE StartMessage
  BY <1>1, <1>3, StartMessagePreserves, StartMessageContent
<1>4. CASE AddScalar
  BY <1>1, <1>4, AddScalarPreserves, AddScalarContent
<1>5. CASE AddRef
  BY <1>1, <1>5, AddRefPreserves, AddRefContent
<1>6. CASE FinishMessage
  BY <1>1, <1>6, FinishMessagePreserves, FinishMessageContent
<1>7. CASE \E o \in RefInputs : Finish(o)
  <2>1. Kept
    BY <1>1, <1>7, FinishPreserves
  <2>2. NotFinished /\ NotNested /\ UNCHANGED <<msg, inline, objects>>
    BY <1>7 DEF Finish
  <2> QED
    BY <1>1, <2>1, <2>2, FinishBufferContent
<1>8. CASE FinishRaw
  <2>1. Kept
    BY <1>1, <1>8, FinishRawPreserves
  <2>2. NotFinished /\ NotNested /\ UNCHANGED <<msg, inline, objects>>
    BY <1>8 DEF FinishRaw
  <2> QED
    BY <1>1, <2>1, <2>2, FinishBufferContent
<1>9. CASE Clear \/ Reset \/ Release
  <2>1. objects' = {} /\ msg' = None /\ inline' = Closed
    BY <1>9 DEF Clear, Reset, Release, Emptied
  <2> QED
    BY <1>1, <2>1, EmptiedContent
<1>10. CASE \E mode \in Modes : EnforceDynamicAlternative(mode)
  <2>1. UNCHANGED <<right, left, msg, inline, objects>>
    BY <1>10 DEF EnforceDynamicAlternative
  <2> QED
    BY <1>1, <2>1, SettingContent
<1>11. CASE UNCHANGED vars
  <2>1. UNCHANGED <<right, left, msg, inline, objects>>
    BY <1>11 DEF vars
  <2> QED
    BY <1>1, <2>1, SettingContent
<1> QED
  BY <1>2, <1>3, <1>4, <1>5, <1>6, <1>7, <1>8, <1>9, <1>10, <1>11 DEF Next

(* The invariant holds at the start.                                       *)
LEMMA InitContent ==
  ASSUME Init
  PROVE  CInv
<1>1. IInv
  BY InitEstablishes
<1>2. objects = {} /\ msg.is = "none" /\ ~inline.open
  BY DEF Init, None, Closed
<1> QED
  BY <1>1, <1>2 DEF CInv, Content, MessageContent, InlineContent

(* Whatever the client writes, in whatever order, with however many calls  *)
(* that throw in between: every offset a method has returned reads back as *)
(* what was written there, in every layout, until the buffer is emptied or *)
(* a call truncates an offset.  An offset of another buffer leads outside  *)
(* this one.                                                               *)
THEOREM ObjectsAreReadBack ==
  ASSUME ForeignIsOutside
  PROVE  Spec => []ObjectsReadBack
<1> DEFINE Unless == WInv /\ (wrapped \/ CInv)
<1>1. Unless => ObjectsReadBack
  <2> SUFFICES ASSUME CInv, NEW x \in objects
               PROVE  Reads(right, x)
    BY DEF ObjectsReadBack
  <2>1. right \in Seq(Int) /\ Size \in Nat /\ Floor \in 0 .. Size
    BY FloorType DEF CInv, IInv, ScalarsInv
  <2>2. Agree(right, right, Floor)
    BY <2>1 DEF Agree, Size
  <2> QED
    BY <2>1, <2>2 DEF CInv, Content, Settled
<1>2. Init => CInv
  BY InitContent
<1>3. WInv /\ WInv' /\ (wrapped \/ CInv) /\ [Next]_vars => wrapped' \/ CInv'
  <2> SUFFICES ASSUME WInv, WInv', wrapped \/ CInv, [Next]_vars, ~wrapped'
               PROVE  CInv'
    OBVIOUS
  <2>1. Emptied \/ ~wrapped
    BY WrappedStays DEF WInv
  <2>2. CASE Emptied
    BY <2>2, EmptiedContent DEF WInv, Emptied
  <2>3. CASE ~wrapped
    BY <2>3, NextContent
  <2> QED
    BY <2>1, <2>2, <2>3
<1> QED
  BY <1>1, <1>2, <1>3, Invariant, PTL DEF Spec
=============================================================================
