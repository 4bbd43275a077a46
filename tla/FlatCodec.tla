----------------------------- MODULE FlatCodec -----------------------------
(***************************************************************************)
(* The bytes of one flat message: what FlatMessageSerializer leaves behind *)
(* (serializer.h) and what FlatMessage makes of it (message.h) for readers *)
(* compiled from another version of the schema, with the static metadata   *)
(* the compiler generates for them (ir_processor.cpp, cpp_gen.cpp).        *)
(*                                                                         *)
(* A byte of metadata is the set of its bits that are one, so the bit      *)
(* operations of the code are set operations here.  A value is the set of  *)
(* its bits as well and fills every byte of its field.                     *)
(***************************************************************************)
EXTENDS Integers, Sequences, FiniteSetsExt, Functions

CONSTANTS MaxField,   \* the largest field id
          Width,      \* the inline size of every type
          Floats,     \* the types compared by IsEqual of float and double
          Value,      \* the bit patterns of values
          Default,    \* the default of each field
          Close,      \* pairs of floats an epsilon apart at most, as 0.0 and -0.0
          NonFinite,  \* the patterns of infinity and NaN
          Junk,       \* what bytes that are no single field read as
          Beyond      \* a metadata byte outside the message

Field == 1 .. MaxField
Type == DOMAIN Width
Byte == SUBSET (0 .. 7)

ASSUME FlatCodecAssumption ==
  /\ MaxField \in Nat \ {0}
  /\ \A t \in Type : Width[t] \in {1, 4, 8}
  /\ Floats \subseteq Type
  /\ {} \in Value /\ Junk \notin Value
  /\ \A v, d \in Value : (v \ d) \cup (d \ v) \in Value
  /\ Default \in [Field -> Value]
  /\ Close \subseteq Value \X Value /\ NonFinite \subseteq Value
  /\ Beyond \in Byte

-----------------------------------------------------------------------------
(* A schema maps ids to fields; a deprecated field is not live but keeps   *)
(* its type.  What the compiler derives from it.                           *)

Ids(s) == DOMAIN s.fields
Live(s) == {id \in Ids(s) : s.fields[id].live}
SizeOf(s, id) == Width[s.fields[id].type]

MaxFieldId(s) == Max(Ids(s) \cup {0})
IsGapMessage(s) == Ids(s) # 1 .. MaxFieldId(s)

(* The sum of size over the ids below id.                                  *)
SumBelow(size, id) ==
  LET upTo[f \in 0 .. MaxField] == IF f = 0 THEN 0 ELSE upTo[f - 1] + size[f]
  IN  upTo[id - 1]

(* FlatOffset of the fields below id, deleted ones taking no room.         *)
FlatOffset(s, id) ==
  SumBelow([f \in Field |-> IF f \in Ids(s) THEN SizeOf(s, f) ELSE 0], id)

DeletedIds(s) == 1 .. MaxFieldId(s) \ Ids(s)
IsStatic(s, id) == \A f \in DeletedIds(s) : f >= id

-----------------------------------------------------------------------------
(* Values.                                                                 *)

Xor(v, d) == (v \ d) \cup (d \ v)

IsEqual(t, a, b) ==
  IF t \in Floats
    THEN {a, b} \cap NonFinite = {} /\ (a = b \/ <<a, b>> \in Close)
    ELSE a = b

-----------------------------------------------------------------------------
(* Metadata: byte j below the message is meta[j + 1].                      *)

Bool(b) == IF b THEN 1 ELSE 0
FieldMetaSize(expl, sized) == Bool(expl) + 2 * Bool(sized)
CalculateMetaSize(n, expl, sized) == (n * FieldMetaSize(expl, sized) + 7) \div 8

(* A plausible slip: no truncation to a byte.                              *)
ShiftLeftWide(b, n) == {k + n : k \in b}

ShiftLeft(b, n) == {k + n : k \in b} \cap 0 .. 7
ShiftRight(b, n) == {k - n : k \in {i \in b : i >= n}}

(* CalculateCorrection, and back with CORRECTION_DICTIONARY.               *)
CorrectionOf(size) ==
  CASE size = 0 -> {} [] size = 1 -> {0} [] size \in 2 .. 4 -> {1} [] size > 4 -> {0, 1}

SizeFrom(corr) ==
  CASE corr = {} -> 0 [] corr = {0} -> 1 [] corr = {1} -> 4 [] corr = {0, 1} -> 8

(* The bit at which the size of field id starts in a mask.                 *)
SizeIndex(id, expl) == (id - 1) * FieldMetaSize(expl, TRUE) + Bool(expl)

(* A plausible slip: the second bit of a size is lost at a byte boundary.  *)
BuildSizeMaskUncarried(s, expl) ==
  LET corr(id) == CorrectionOf(SizeOf(s, id))
  IN  [k \in 1 .. CalculateMetaSize(MaxFieldId(s), expl, TRUE) |->
         UNION {ShiftLeft(corr(id), SizeIndex(id, expl) % 8) :
                  id \in {f \in Ids(s) : SizeIndex(f, expl) \div 8 = k - 1}}]

BuildSizeMask(s, expl) ==
  LET corr(id) == CorrectionOf(SizeOf(s, id))
      at(k) == {id \in Ids(s) : SizeIndex(id, expl) \div 8 = k - 1}
      carried(k) == {id \in at(k - 1) : SizeIndex(id, expl) % 8 = 7}
  IN  [k \in 1 .. CalculateMetaSize(MaxFieldId(s), expl, TRUE) |->
         (UNION {ShiftLeft(corr(id), SizeIndex(id, expl) % 8) : id \in at(k)})
         \cup (UNION {ShiftRight(corr(id), 1) : id \in carried(k)})]

(* The sizes of the ids below maxId are merged into meta or replace it.    *)
ApplySizeMask(meta, mask, maxId, expl, merge) ==
  LET bits == (maxId - 1) * FieldMetaSize(expl, TRUE)
  IN  [k \in DOMAIN meta |->
         (IF merge THEN meta[k] ELSE {})
         \cup {b \in mask[k] : 8 * (k - 1) + b < bits}]

(* A plausible slip: the presence bits of a sized message are not spread.  *)
PresenceBitsDense(ids, maxId, sized) ==
  [k \in 1 .. CalculateMetaSize(maxId - 1, TRUE, sized) |->
     {(id - 1) % 8 : id \in {f \in ids : (f - 1) \div 8 = k - 1}}]

(* The presence bits SetPresence has set once every field is added.        *)
PresenceBits(ids, maxId, sized) ==
  LET index(id) == (id - 1) * FieldMetaSize(TRUE, sized)
  IN  [k \in 1 .. CalculateMetaSize(maxId - 1, TRUE, sized) |->
         {index(id) % 8 : id \in {f \in ids : index(f) \div 8 = k - 1}}]

-----------------------------------------------------------------------------
(* What AddField for every field of added and Finish leave behind.  tl     *)
(* tells the typed limit's parts: one more than the largest id, the sized  *)
(* bit and the explicit bit.                                               *)
Encode(s, added, expl, sized) ==
  LET typeOf(id) == s.fields[id].type
      equal(id) == IsEqual(typeOf(id), added[id], Default[id])
      ids == {id \in DOMAIN added : expl \/ ~equal(id)}
      maxId == Max(ids) + 1
      truly == expl /\ \E id \in ids : equal(id)
      bytes(id) == FlatOffset(s, id) .. FlatOffset(s, id) + SizeOf(s, id) - 1
      at(o) == {id \in ids : o \in bytes(id)}
      presence == IF truly THEN PresenceBits(ids, maxId, sized) ELSE <<>>
      room == [k \in 1 .. CalculateMetaSize(maxId - 1, FALSE, sized) |-> Beyond]
  IN  IF ids = {}
        THEN [maxId |-> 0, sized |-> FALSE, expl |-> FALSE, meta |-> <<>>, data |-> <<>>]
        ELSE [maxId |-> maxId, sized |-> sized, expl |-> truly,
              meta |-> IF sized
                         THEN ApplySizeMask(IF truly THEN presence ELSE room,
                                BuildSizeMask(s, truly), maxId, truly, truly)
                         ELSE presence,
              data |-> [o \in 0 .. FlatOffset(s, maxId - 1) + SizeOf(s, maxId - 1) - 1 |->
                          IF at(o) = {} THEN {}
                          ELSE LET id == CHOOSE f \in at(o) : TRUE
                               IN  Xor(added[id], Default[id])]]

-----------------------------------------------------------------------------
(* FlatMessage<M>, for a reader compiled from schema s.                    *)

MetaByte(m, j) == IF j + 1 \in DOMAIN m.meta THEN m.meta[j + 1] ELSE Beyond

ResolveImplicitSize(m, id) ==
  SizeFrom(ShiftRight(MetaByte(m, (id - 1) \div 4), 2 * ((id - 1) % 4)) \cap {0, 1})

(* Two bytes read at once, the one nearer to the message being the lower.  *)
ResolveExplicitSize(m, id) ==
  LET bit == 3 * (id - 1)
      both == MetaByte(m, bit \div 8) \cup {b + 8 : b \in MetaByte(m, bit \div 8 + 1)}
  IN  SizeFrom(ShiftRight(both, (bit % 8) + 1) \cap {0, 1})

Correction(m, f) ==
  IF m.expl THEN ResolveExplicitSize(m, f) ELSE ResolveImplicitSize(m, f)

(* The bytes of the deleted fields below id.                               *)
Corrections(s, m, id) ==
  SumBelow([f \in Field |-> IF f \in DeletedIds(s) THEN Correction(m, f) ELSE 0], id)

ResolveField(s, m, id) ==
  FlatOffset(s, id) + IF IsStatic(s, id) THEN 0 ELSE Corrections(s, m, id)

(* A plausible slip: the loop runs over every deleted id.                  *)
AnyResolveBeyond(s, m, id) == FlatOffset(s, id) + Corrections(s, m, MaxField + 1)

(* MakeFieldResolver of reflect.h, which has no STATIC_FLAGS to look at.   *)
AnyResolveField(s, m, id) == FlatOffset(s, id) + Corrections(s, m, id)

(* The word of size bytes at offset o.                                     *)
ReadWord(m, o, size) ==
  LET bytes == o .. o + size - 1
  IN  IF bytes \subseteq DOMAIN m.data /\ \A i, j \in bytes : m.data[i] = m.data[j]
        THEN m.data[o] ELSE Junk

(* ReadValue and ReadPresence of a field that lies at o.                   *)
ValueAt(s, m, id, o) ==
  LET word == ReadWord(m, o, SizeOf(s, id))
  IN  IF id >= m.maxId THEN Default[id]
      ELSE IF word = Junk THEN Junk ELSE Xor(word, Default[id])

PresenceAt(s, m, id, o) ==
  LET bit == IF m.sized THEN 3 * id - 3 ELSE id - 1
  IN  /\ id < m.maxId
      /\ IF m.expl THEN bit % 8 \in MetaByte(m, bit \div 8)
         ELSE ReadWord(m, o, SizeOf(s, id)) # {}

ReadValue(s, m, id) == ValueAt(s, m, id, ResolveField(s, m, id))
ReadPresence(s, m, id) == PresenceAt(s, m, id, ResolveField(s, m, id))

(* AnyMessage, the view of a visitor or another user of reflection.        *)
AnyReadValue(s, m, id) == ValueAt(s, m, id, AnyResolveField(s, m, id))
AnyReadPresence(s, m, id) == PresenceAt(s, m, id, AnyResolveField(s, m, id))
=============================================================================
