-------------------------------- MODULE Wire --------------------------------
(***************************************************************************)
(* The wire format as its readers see it: the accessors of message.h and   *)
(* array.h over the right stack of the serializer's DualBuffer.            *)
(*                                                                         *)
(* A buffer r is a sequence of words indexed by the library's offsets:     *)
(* r[o] is the word RightDataAt(o) points at, and the word n words further *)
(* up in memory is r[o - n].  An offset, a length, a typed limit and a     *)
(* scalar take one word each; so does the metadata of one field of a flat  *)
(* message.  The metadata of a sparse message is kept byte by byte, one    *)
(* byte a word.  Scalars are one bit wide, so XorDef is addition modulo 2. *)
(***************************************************************************)
EXTENDS Integers, Sequences

CONSTANTS MaxField,     \* the largest field id of the schema
          TinyMaxId,    \* TINY_OFFSET_MAX_ID, 0x20
          ByteMod,      \* the number of values of a metadata byte, 256
          Junk          \* an uninitialised word, or one outside the buffer

Field == 1 .. MaxField
Scalar == {0, 1}

ASSUME WireAssumption ==
  /\ MaxField \in 1 .. 8190               \* ids are below 0x1FFF
  /\ TinyMaxId \in Nat \ {0}
  /\ ByteMod \in Nat /\ ByteMod >= TinyMaxId /\ ByteMod * ByteMod > MaxField
  /\ Junk \in Int \ Scalar

Word(r, o) == IF o \in DOMAIN r THEN r[o] ELSE Junk

Xor(v, d) == (v + d) % 2

-----------------------------------------------------------------------------
(* The typed limit: the flat bit, one more than the largest id present,    *)
(* and the sized and explicit bits.                                        *)

FlatBit == 32768
FlatLimit(id) == FlatBit + 4 * id + 3
SparseLimit(id) == 4 * id + 3
IsFlat(tl) == tl >= FlatBit
IsImplicit(tl) == tl % 2 = 0

(* FLAT_OFFSETS of a schema without deleted ids.                           *)
FlatOffset(id) == id - 1

-----------------------------------------------------------------------------
(* FlatMessage.                                                            *)

FlatField(r, o, id) == Word(r, o - 1 - FlatOffset(id))

FlatValue(r, o, id, default) == Xor(FlatField(r, o, id), default)

(* ReadLayoutUnsafe: the offset the field refers to, 0 when it is null.    *)
FlatRef(r, o, id) ==
  LET p == FlatField(r, o, id) IN IF p = 0 THEN 0 ELSE o - p

FlatPresence(r, o, id) ==
  IF IsImplicit(Word(r, o)) THEN FlatField(r, o, id) # 0
                            ELSE Word(r, o + id) % 2 = 1

-----------------------------------------------------------------------------
(* SparseMessage.                                                          *)

IsTiny(id) == id < TinyMaxId

(* How far below the end of the metadata the lowest byte of id's entry is. *)
MetaPlace(id) == IF IsTiny(id) THEN id ELSE 2 * id - (TinyMaxId - 1)

MetaSize(maxId) ==
  (maxId - 1) + IF maxId > TinyMaxId THEN maxId - TinyMaxId ELSE 0

(* ReadMeta: the end of the metadata, own or shared.                       *)
MetaEnd(r, o) == o - Word(r, o + 1)

(* The distance of the field from the message, 0 when it is absent.        *)
SparseOffset(r, o, id) ==
  LET low == MetaEnd(r, o) + MetaPlace(id)
  IN  Word(r, low) + IF IsTiny(id) THEN 0 ELSE ByteMod * Word(r, low - 1)

SparsePresence(r, o, id) == SparseOffset(r, o, id) # 0

SparseValue(r, o, id, default) ==
  IF SparsePresence(r, o, id) THEN Word(r, o - SparseOffset(r, o, id))
                              ELSE default

SparseRef(r, o, id) ==
  IF SparsePresence(r, o, id) THEN o - Word(r, o - SparseOffset(r, o, id))
                              ELSE 0

-----------------------------------------------------------------------------
(* DynamicMessage: the typed limit tells which representation it is.       *)

HasFlat(r, o, id) == FlatLimit(id) < Word(r, o)
HasSparse(r, o, id) == ~IsFlat(Word(r, o)) /\ SparseLimit(id) < Word(r, o)

ReadValue(r, o, id, default) ==
  IF HasFlat(r, o, id) THEN FlatValue(r, o, id, default)
  ELSE IF HasSparse(r, o, id) THEN SparseValue(r, o, id, default)
  ELSE default

ReadRef(r, o, id) ==
  IF HasFlat(r, o, id) THEN FlatRef(r, o, id)
  ELSE IF HasSparse(r, o, id) THEN SparseRef(r, o, id)
  ELSE 0

ReadPresence(r, o, id) ==
  \/ HasFlat(r, o, id) /\ FlatPresence(r, o, id)
  \/ HasSparse(r, o, id) /\ SparsePresence(r, o, id)

-----------------------------------------------------------------------------
(* FixedMessage: no typed limit, every field at its place.                 *)

FixedField(r, o, id) == Word(r, o - FlatOffset(id))
FixedValue(r, o, id, default) == Xor(FixedField(r, o, id), default)
FixedRef(r, o, id) ==
  LET p == FixedField(r, o, id) IN IF p = 0 THEN 0 ELSE o - p
FixedPresence(r, o, id) == FixedField(r, o, id) # 0

-----------------------------------------------------------------------------
(* Arrays and strings: the length, then the elements.                      *)

Length(r, o) == Word(r, o)
Elements(o) == o - 1                      \* Bytes()
ScalarAt(r, o, i) == Word(r, Elements(o) - i)
RefAt(r, o, i) == Elements(o) - Word(r, Elements(o) - i)
InlineAt(o, i, limit) == Elements(o) - limit * i

(* ReadMessage: the first word of the buffer leads to the root.            *)
ReadMessage(r) == Len(r) - Word(r, Len(r))
=============================================================================
