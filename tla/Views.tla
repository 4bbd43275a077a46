-------------------------------- MODULE Views --------------------------------
(***************************************************************************)
(* What client code makes of a finished buffer, in the words of Wire: the  *)
(* generated accessors and ParseTo (cpp_gen.cpp), lookup in sorted arrays  *)
(* (array.h), and the visitor that walks a message by its descriptor alone *)
(* (visitor.h over any_message.h, any_array.h and reflect.h).              *)
(*                                                                         *)
(* A type is a record of a layout, the fields by id and the ids of its     *)
(* oneof.  A message is the function from the ids of the fields it has to  *)
(* their values: an implicit scalar or string is there when it is not the  *)
(* default, an array when it is not empty.  A map is a function.           *)
(***************************************************************************)
EXTENDS Wire, SequencesExt, FiniteSetsExt, Functions

CONSTANT Types      \* the message types by name

Empty == <<>>

-----------------------------------------------------------------------------
(* Schemas.                                                                *)

Ids(t) == DOMAIN Types[t].fields
FieldOf(t, id) == Types[t].fields[id]
Live(t) == {id \in Ids(t) : FieldOf(t, id).live}

Scalars(t) == {id \in Live(t) : FieldOf(t, id).is = "scalar"}
Structures(t) == Live(t) \ Scalars(t)
InOrder(ids) == SetToSortSeq(ids, <)

(* The element type is a message that lies in the array itself: IsInline.  *)
IsAssociative(f) == f.is = "map"
IsInline(f) == IsAssociative(f) \/ (f.is = "messages" /\ Types[f.of].layout = "fixed")
IsAssociativePair(t) ==
  \E u \in DOMAIN Types : \E id \in Ids(u) :
    IsAssociative(FieldOf(u, id)) /\ FieldOf(u, id).of = t

IsGapMessage(t) == Ids(t) # 1 .. Max(Ids(t))
MaxMessageSize(t) == Max(Ids(t))

(* The order of the keys of map f, strings being compared byte by byte.    *)
HasScalarKeys(f) == FieldOf(f.of, 1).is = "scalar"

Precedes(f, a, b) ==
  IF HasScalarKeys(f) THEN a < b
  ELSE \/ IsStrictPrefix(a, b)
       \/ \E i \in DOMAIN a \cap DOMAIN b :
            a[i] < b[i] /\ \A j \in 1 .. i - 1 : a[j] = b[j]

-----------------------------------------------------------------------------
(* The generated accessors of a message of type t at o in the buffer r.    *)
(* The readers of the static flat and sparse layouts check the limits the  *)
(* dynamic one checks.                                                     *)

IsFixed(t) == Types[t].layout = "fixed"

Get(r, t, o, id) ==
  LET default == FieldOf(t, id).default
  IN  IF IsFixed(t) THEN FixedValue(r, o, id, default)
                    ELSE ReadValue(r, o, id, default)

Ref(r, t, o, id) == IF IsFixed(t) THEN FixedRef(r, o, id) ELSE ReadRef(r, o, id)

HasField(r, t, o, id) ==
  IF IsFixed(t) THEN FixedPresence(r, o, id) ELSE ReadPresence(r, o, id)

(* The case of the oneof: the first of its fields that is present, or 0.   *)
OneOfCase(r, t, o) ==
  LET present == {id \in Types[t].oneof : HasField(r, t, o, id)}
  IN  IF present = {} THEN 0 ELSE Min(present)

(* The scalars of an array or a string, or of the default one at 0.        *)
ScalarsAt(r, p) ==
  IF p = 0 THEN <<>> ELSE [i \in 1 .. Length(r, p) |-> ScalarAt(r, p, i - 1)]

(* Array<InternalOffset<T>>::Get and Array<InlineOffset<T>>::Get.          *)
ElementAt(r, f, p, i) ==
  IF IsInline(f) THEN InlineAt(p, i, MaxMessageSize(f.of)) ELSE RefAt(r, p, i)

-----------------------------------------------------------------------------
(* BaseArray::find and equal_range in the map at p: the binary searches of *)
(* the standard library over places first .. first + len - 1.              *)

KeyAt(r, f, p, i) ==
  LET o == ElementAt(r, f, p, i)
  IN  IF HasScalarKeys(f) THEN Get(r, f.of, o, 1)
                          ELSE ScalarsAt(r, Ref(r, f.of, o, 1))

Bound(below, size) ==
  LET search[first \in 0 .. size, len \in 0 .. size] ==
        LET half == len \div 2
        IN  IF len = 0 THEN first
            ELSE IF below[first + half] THEN search[first + half + 1, len - half - 1]
            ELSE search[first, half]
  IN  search[0, size]

Places(r, p) == 0 .. Length(r, p) - 1
LowerBound(r, f, p, k) ==
  Bound([i \in Places(r, p) |-> Precedes(f, KeyAt(r, f, p, i), k)], Length(r, p))
UpperBound(r, f, p, k) ==
  Bound([i \in Places(r, p) |-> ~Precedes(f, k, KeyAt(r, f, p, i))], Length(r, p))

(* The place of key k, the end if it is not there.                         *)
Find(r, f, p, k) ==
  LET i == LowerBound(r, f, p, k)
  IN  IF i < Length(r, p) /\ ~Precedes(f, k, KeyAt(r, f, p, i)) THEN i ELSE Length(r, p)

-----------------------------------------------------------------------------
(* ParseTo: filling a protobuf message, which is `to` before the call.     *)

RECURSIVE ParseTo(_, _, _, _)

(* The elements of the array of f at p.                                    *)
ElementsAt(r, f, p) ==
  LET at(i) == ElementAt(r, f, p, i - 1)
  IN  [i \in 1 .. Length(r, p) |->
         CASE f.is = "scalars" -> ScalarAt(r, p, i - 1)
           [] f.is = "strings" -> ScalarsAt(r, at(i))
           [] OTHER -> ParseTo(r, f.of, at(i), Empty)]

(* emplace leaves the pair of a key that is there alone.                   *)
Emplace(map, pair) == map @@ (pair[1] :> pair[2])

(* GenerateProtobufScalarFill, GenerateProtobufStructFill and              *)
(* GenerateProtobufPairFill: field id of the message after the call, when  *)
(* it held old before; Empty when it has been cleared.                     *)
Filled(r, t, o, id, old) ==
  LET f == FieldOf(t, id)
      has == HasField(r, t, o, id)
      pair == IsAssociativePair(t)
      p == Ref(r, t, o, id)
      value == Get(r, t, o, id)
      string == ScalarsAt(r, p)
  IN  CASE f.is = "scalar" ->
             IF pair \/ (IF f.explicit THEN has ELSE value # f.default)
               THEN id :> value ELSE Empty
        [] f.is = "string" ->
             IF pair \/ (IF f.explicit THEN has ELSE string # <<>>)
               THEN id :> string ELSE Empty
        [] f.is = "message" ->
             IF has THEN id :> ParseTo(r, f.of, p, old)
             ELSE IF pair THEN id :> Empty ELSE Empty
        [] OTHER ->
             IF p = 0 \/ Length(r, p) = 0 THEN Empty
             ELSE IF IsAssociative(f)
               THEN id :> FoldLeft(Emplace, old, ElementsAt(r, f, p))
             ELSE id :> old \o ElementsAt(r, f, p)

ParseTo(r, t, o, to) ==
  LET old(id) == IF id \in DOMAIN to THEN to[id] ELSE Empty
  IN  FoldSet(LAMBDA id, parsed : parsed @@ Filled(r, t, o, id, old(id)), Empty, Live(t))

-----------------------------------------------------------------------------
(* Visitor::VisitMessage: every live field of the descriptor in the order  *)
(* of the ids, read with the layout as an argument.                        *)

AnyValue(r, layout, o, id, default) ==
  CASE layout = "fixed" -> FixedValue(r, o, id, default)
    [] layout = "sparse" -> IF HasSparse(r, o, id) THEN SparseValue(r, o, id, default)
                                                   ELSE default
    [] layout \in {"flat", "dynamic"} -> ReadValue(r, o, id, default)

AnyLayout(r, layout, o, id) ==
  CASE layout = "fixed" -> FixedRef(r, o, id)
    [] layout = "sparse" -> IF HasSparse(r, o, id) THEN SparseRef(r, o, id) ELSE 0
    [] layout \in {"flat", "dynamic"} -> ReadRef(r, o, id)

(* A plausible slip: the elements of every array are taken for offsets.    *)
AnyElementAtOffset(r, f, p, i) == RefAt(r, p, i)

(* AnyArray::GetLayout, with the size of an inline element or without.     *)
AnyElementAt(r, f, p, i) ==
  IF IsInline(f) THEN InlineAt(p, i, MaxMessageSize(f.of)) ELSE RefAt(r, p, i)

RECURSIVE VisitMessage(_, _, _)

VisitArray(r, f, p) ==
  LET at(i) == AnyElementAt(r, f, p, i - 1)
      element(i) ==
        CASE f.is = "scalars" -> <<<<"OnScalar", ScalarAt(r, p, i - 1)>>>>
          [] f.is = "strings" -> <<<<"OnString", ScalarsAt(r, at(i))>>>>
          [] OTHER -> VisitMessage(r, f.of, at(i))
  IN  <<<<"OnArrayStart">>>>
      \o FlattenSeq([i \in 1 .. Length(r, p) |-> <<<<"OnElement", i - 1>>>> \o element(i)])
      \o <<<<"OnArrayEnd">>>>

VisitField(r, t, o, id) ==
  LET f == FieldOf(t, id)
      p == AnyLayout(r, Types[t].layout, o, id)
      name == <<<<"OnField", id>>>>
  IN  CASE f.is = "scalar" ->
             name \o <<<<"OnScalar", AnyValue(r, Types[t].layout, o, id, f.default)>>>>
        [] f.is # "scalar" /\ p = 0 -> <<>>
        [] f.is = "string" /\ p # 0 -> name \o <<<<"OnString", ScalarsAt(r, p)>>>>
        [] f.is = "message" /\ p # 0 -> name \o VisitMessage(r, f.of, p)
        [] OTHER -> name \o VisitArray(r, f, p)

VisitMessage(r, t, o) ==
  LET ids == InOrder(Live(t))
  IN  <<<<"OnMessageStart">>>>
      \o FlattenSeq([i \in DOMAIN ids |-> VisitField(r, t, o, ids[i])])
      \o <<<<"OnMessageEnd">>>>
=============================================================================
