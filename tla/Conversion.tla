----------------------------- MODULE Conversion -----------------------------
(***************************************************************************)
(* The serializers the compiler generates for protobuf messages            *)
(* (cpp_gen.cpp), driving the one Serializer (serializer.h) call by call,  *)
(* and the views of the buffers they finish.                               *)
(*                                                                         *)
(* A generated function first makes its arguments: strings, arrays and     *)
(* nested messages are written before the message that refers to them is   *)
(* opened, so a message is flattened here into the sequence of calls it    *)
(* makes.  results holds the offsets that wait to be passed on: the        *)
(* arguments of a message are the last ones, in the order of their ids,    *)
(* and are taken back in the opposite order, in which fields are added.    *)
(***************************************************************************)
EXTENDS Views

CONSTANTS Roots,        \* the types clients serialize
          Later,        \* bound: those of a message in a buffer not empty
                        \* or under an alternative that is not known
          Protos,       \* the messages of a type
          Modes,        \* the settings of EnforceDynamicAlternative
          MaxMessages,  \* bound: the messages of one buffer
          MaxOffset     \* what ToCheckedOffset accepts, never reached here

ASSUME ConversionAssumption ==
  /\ Roots \subseteq DOMAIN Types /\ Later \subseteq Roots
  /\ \A t \in DOMAIN Types :
       /\ Ids(t) \subseteq Field /\ Types[t].oneof \subseteq Live(t)
       /\ Types[t].layout \in {"fixed", "flat", "sparse", "dynamic"}
       /\ Types[t].layout \in {"fixed", "flat"} => ~IsGapMessage(t)
       /\ IsAssociativePair(t) => IsFixed(t) /\ Live(t) = 1 .. 2
  /\ \A t \in Roots : \A v \in Protos[t] : DOMAIN v \subseteq Live(t)
  /\ MaxMessages \in Nat

VARIABLES right, left, msg, depth, inline, pool, finished, forced, objects,
          root, wrapped,
                      \* the members of the Serializer, as in that module
          calls,      \* the calls still to be made
          results,    \* the offsets not yet passed on
          written     \* the messages of the buffer: type, value and offset

serializer == <<right, left, msg, depth, inline, pool, finished, forced,
                objects, root, wrapped>>
vars == <<serializer, calls, results, written>>

(* Clients here are generated code alone: none of the inputs Serializer    *)
(* enumerates for its own clients are used.                                *)
S == INSTANCE Serializer WITH
       RefFields <- {}, Default <- [id \in Field |-> 0],
       OffsetMod <- MaxOffset + 1, FieldOffsetMod <- MaxField + 2,
       MaxRight <- MaxOffset, MaxStart <- MaxOffset, Strings <- {}, Vectors <- {}, RefLists <- {},
       Layouts <- {"fixed", "flat", "sparse", "preallocated"},
       Foreign <- MaxOffset, BadCalls <- FALSE

-----------------------------------------------------------------------------
(* The calls a generated function makes.                                   *)

HasExplicitFields(t) == \E id \in Ids(t) : FieldOf(t, id).explicit

Call(name) == [do |-> name]
PassNull == <<Call("null")>>

(* A plausible slip: the keys are sorted the other way round.              *)
DescendingKeys(f, map) == SetToSortSeq(DOMAIN map, LAMBDA a, b : Precedes(f, b, a))

SortedKeys(f, map) == SetToSortSeq(DOMAIN map, LAMBDA a, b : Precedes(f, a, b))

(* GenerateMessageFieldAdd for a field of the message v: the value of a    *)
(* scalar is passed on, the offset of a structure is in results.  An       *)
(* explicit scalar that is not there is not added at all.                  *)
AddCalls(t, v, id) ==
  LET f == FieldOf(t, id)
  IN  IF f.is # "scalar" THEN <<[do |-> "addRef", id |-> id]>>
      ELSE IF id \in DOMAIN v
        THEN <<[do |-> "addScalar", id |-> id, value |-> v[id], default |-> f.default]>>
      ELSE IF f.explicit THEN <<>>
      ELSE <<[do |-> "addScalar", id |-> id, value |-> f.default, default |-> f.default]>>

(* GenerateMessageBasicSerializeFunc: start, every field from the last to  *)
(* the first, finish.                                                      *)
Build(t, v) ==
  LET ids == Reverse(InOrder(Live(t)))
  IN  <<[do |-> "start", of |-> t, value |-> v]>>
      \o FlattenSeq([i \in DOMAIN ids |-> AddCalls(t, v, ids[i])])
      \o <<Call("finish")>>

RECURSIVE Arguments(_, _)

(* GenerateMessageProtobufSerializer.                                      *)
MessageCalls(t, v) == Arguments(t, v) \o Build(t, v)

(* A plausible slip: the elements are written in their own order.          *)
InlineForward(t, list) ==
  LET n == Len(list)
      last(i) == <<Call(IF i = n THEN "lastElement" ELSE "nextElement")>>
  IN  FlattenSeq([i \in 1 .. n |-> Arguments(t, list[i])])
      \o <<Call("startInline")>>
      \o FlattenSeq([i \in 1 .. n |-> Build(t, list[i]) \o last(i)])

(* SerializeArray with a deferrer: the arguments of every element in       *)
(* order, then the elements from the last to the first inside the array.   *)
InlineCalls(t, list) ==
  LET n == Len(list)
      last(i) == <<Call(IF i = n THEN "lastElement" ELSE "nextElement")>>
  IN  FlattenSeq([i \in 1 .. n |-> Arguments(t, list[i])])
      \o <<Call("startInline")>>
      \o FlattenSeq([i \in 1 .. n |-> Build(t, list[n + 1 - i]) \o last(i)])

(* GenerateExternalSerialize for the value x of a structure field.         *)
StructureCalls(f, x) ==
  LET keys == SortedKeys(f, x)
      offsets == <<[do |-> "offsets", size |-> Len(x)]>>
  IN  CASE f.is = "string" -> <<[do |-> "string", value |-> x]>>
        [] f.is = "scalars" -> <<[do |-> "array", value |-> x]>>
        [] f.is = "strings" -> [i \in DOMAIN x |-> [do |-> "string", value |-> x[i]]]
                               \o offsets
        [] f.is = "message" -> MessageCalls(f.of, x)
        [] f.is = "messages" /\ IsInline(f) -> InlineCalls(f.of, x)
        [] f.is = "messages" /\ ~IsInline(f) ->
             FlattenSeq([i \in DOMAIN x |-> MessageCalls(f.of, x[i])]) \o offsets
        [] f.is = "map" ->
             InlineCalls(f.of, [i \in DOMAIN keys |-> <<keys[i], x[keys[i]]>>])

(* GenerateProtobufValue and GenerateProtobufPairValue: an argument that   *)
(* is not there is null.                                                   *)
Arguments(t, v) ==
  LET ids == InOrder(Structures(t))
      argument(id) == IF id \in DOMAIN v THEN StructureCalls(FieldOf(t, id), v[id])
                                         ELSE PassNull
  IN  FlattenSeq([i \in DOMAIN ids |-> argument(ids[i])])

-----------------------------------------------------------------------------
(* Making the calls.                                                       *)

Now == Head(calls)
About(name) == calls # <<>> /\ Now.do = name
Done == calls' = Tail(calls) /\ UNCHANGED written

(* The offset of an object the call has added, or of its twin.             *)
Answer(kind, body) ==
  \E x \in objects' :
    /\ x.kind = kind /\ x.body = body
    /\ results' = Append(results, x.off)
AnswerNew(waiting) == \E x \in objects' \ objects : results' = Append(waiting, x.off)

Null ==
  /\ About("null")
  /\ results' = Append(results, 0)
  /\ Done /\ UNCHANGED serializer

SerializeString ==
  /\ About("string")
  /\ S!SerializeString(Now.value)
  /\ Answer("string", Now.value)
  /\ Done

SerializeArray ==
  /\ About("array")
  /\ S!SerializeArray(Now.value)
  /\ Answer("scalars", Now.value)
  /\ Done

(* A generator has made the elements in order.                             *)
SerializeOffsets ==
  /\ About("offsets")
  /\ LET waiting == SubSeq(results, 1, Len(results) - Now.size)
     IN  /\ S!SerializeOffsets(SubSeq(results, Len(waiting) + 1, Len(results)))
         /\ AnswerNew(waiting)
  /\ Done

StartInline == About("startInline") /\ S!StartInline /\ Done /\ UNCHANGED results

(* The callback returns the offset of the element, which is not used.      *)
NextElement == About("nextElement") /\ S!NextElement /\ Done /\ results' = Front(results)
LastElement ==
  /\ About("lastElement")
  /\ S!LastElement
  /\ AnswerNew(Front(results))
  /\ Done

-----------------------------------------------------------------------------
(* GenerateMessageSerializer, GenerateMessageDynamicSerializeFunc and      *)
(* GenerateMessageSparseAssume.                                            *)

(* The argument of structure id, while none of t has been added.           *)
ArgumentOf(t, id) ==
  results[Len(results) - Cardinality({s \in Structures(t) : s > id})]

(* A plausible slip: an implicit field is accounted for whatever it holds. *)
AccountedAlways(t, v) ==
  {id \in Scalars(t) : id \in DOMAIN v \/ ~FieldOf(t, id).explicit}
  \cup {id \in Structures(t) : ArgumentOf(t, id) # 0}

(* SparseMessageAssume::AccountField of a value and of an offset.          *)
AccountsValue(implicit, value, default) == ~(implicit /\ value = default)
AccountsOffset(o) == o # 0

(* The fields that are accounted for.                                      *)
Accounted(t, v) ==
  LET default(id) == FieldOf(t, id).default
      value(id) == IF id \in DOMAIN v THEN v[id] ELSE default(id)
  IN  {id \in Scalars(t) :
         /\ id \in DOMAIN v \/ ~FieldOf(t, id).explicit
         /\ AccountsValue(~HasExplicitFields(t), value(id), default(id))}
      \cup {id \in Structures(t) : AccountsOffset(ArgumentOf(t, id))}

WritesFlat(t) ==
  \/ Types[t].layout = "flat"
  \/ Types[t].layout = "dynamic" /\ ~IsGapMessage(t) /\ forced = "flat"

(* A dynamic message is written in one of two alternatives.                *)
UnknownAlternative(t) ==
  Types[t].layout = "dynamic" /\ ~IsGapMessage(t) /\ forced = "other"

(* Another one throws, when the arguments of the message are in the buffer *)
(* already; nothing is open then, and the client goes on without it.       *)
ThrowUnknownAlternative ==
  /\ About("start") /\ UnknownAlternative(Now.of)
  /\ written' = Front(written)
  /\ results' = SubSeq(results, 1, Len(written'))
  /\ calls' = <<>>
  /\ UNCHANGED serializer

Start ==
  /\ About("start") /\ ~UnknownAlternative(Now.of)
  /\ LET t == Now.of
     IN  IF IsFixed(t) THEN S!StartFixed(MaxMessageSize(t))
         ELSE IF WritesFlat(t)
           THEN S!StartFlat(HasExplicitFields(t), Types[t].layout = "dynamic")
         ELSE S!StartPreallocated(HasExplicitFields(t), Accounted(t, Now.value))
  /\ Done /\ UNCHANGED results

AddScalar ==
  /\ About("addScalar")
  /\ \/ S!AddFixedScalar(Now.id, Now.value, Now.default)
     \/ S!AddFlatScalar(Now.id, Now.value, Now.default)
     \/ S!AddPreallocatedScalar(Now.id, Now.value, Now.default)
     \/ /\ msg.is # "fixed" /\ ~msg.explicit /\ Now.value = Now.default
        /\ UNCHANGED serializer
  /\ Done /\ UNCHANGED results

AddRef ==
  /\ About("addRef")
  /\ \/ S!AddFixedRef(Now.id, Last(results))
     \/ S!AddFlatRef(Now.id, Last(results))
     \/ S!AddPreallocatedRef(Now.id, Last(results))
     \/ Last(results) = 0 /\ UNCHANGED serializer
  /\ Done /\ results' = Front(results)

FinishMessage ==
  /\ About("finish")
  /\ S!FinishFixed \/ S!FinishFlat \/ S!FinishPreallocated
  /\ AnswerNew(results)
  /\ Done

-----------------------------------------------------------------------------
(* Clients.                                                                *)

Idle == calls = <<>>

(* M::Serialize(ys, proto), also of a second message into the buffer.      *)
Serialize(t, v) ==
  /\ Idle /\ ~finished
  /\ Len(written) = Len(results) /\ Len(written) < MaxMessages
  /\ (right = <<>> /\ forced # "other") \/ t \in Later
  /\ calls' = MessageCalls(t, v)
  /\ written' = Append(written, [of |-> t, value |-> v])
  /\ UNCHANGED <<serializer, results>>

(* Serialize<M> of serializer.h ends with Finish and Release; the buffer   *)
(* is looked at in between.                                                *)
Finish ==
  /\ Idle /\ results # <<>>
  /\ S!Finish(Last(results))
  /\ UNCHANGED <<calls, results, written>>

(* It begins with Reset, which also drops what has been written.           *)
Reset ==
  /\ Idle /\ written # <<>>
  /\ S!Reset \/ S!Release
  /\ results' = <<>> /\ written' = <<>>
  /\ UNCHANGED calls

EnforceDynamicAlternative(mode) ==
  /\ Idle /\ ~finished
  /\ forced = "other" => written = <<>>        \* bound
  /\ S!EnforceDynamicAlternative(mode)
  /\ UNCHANGED <<calls, results, written>>

-----------------------------------------------------------------------------
Init == S!Init /\ calls = <<>> /\ results = <<>> /\ written = <<>>

Next ==
  \/ Null
  \/ SerializeString
  \/ SerializeArray
  \/ SerializeOffsets
  \/ StartInline
  \/ NextElement
  \/ LastElement
  \/ ThrowUnknownAlternative
  \/ Start
  \/ AddScalar
  \/ AddRef
  \/ FinishMessage
  \/ \E t \in Roots : \E v \in Protos[t] : Serialize(t, v)
  \/ Finish
  \/ Reset
  \/ \E mode \in Modes : EnforceDynamicAlternative(mode)

Spec == Init /\ [][Next]_vars

-----------------------------------------------------------------------------
(* Converting is lossless: every protobuf message written to a buffer,     *)
(* whatever it shares with another one and in whichever alternative its    *)
(* dynamic messages were forced, is parsed back as it was, the finished    *)
(* buffer leads to the last one, and a oneof reports the case that was set *)
(* (generated.md:85, cpp_gen.cpp:1191-1397, serializer.h:305-385).         *)
RoundTrip ==
  finished =>
    /\ ReadMessage(right) = Last(results)
    /\ \A i \in DOMAIN written :
         LET w == written[i]
             set == Types[w.of].oneof \cap DOMAIN w.value
         IN  /\ ParseTo(right, w.of, results[i], Empty) = w.value
             /\ OneOfCase(right, w.of, results[i]) = IF set = {} THEN 0 ELSE Min(set)

(* The space and the largest id of a preallocated message are computed     *)
(* from the arguments before it is opened, by rules of their own: they     *)
(* select exactly the fields that are added later, or PrevOffset wraps     *)
(* around or words are left unset (serializer.h:88-125, 1002-1034,         *)
(* cpp_gen.cpp:836-852).                                                   *)
AccountedIsAdded ==
  msg.is = "preallocated" /\ About("finish") => DOMAIN msg.fields = msg.accounted

(* Lookup in a serialized map finds every key of the map and no other one, *)
(* once: pairs lie in the order of the keys the binary search relies on    *)
(* (array.h:74-97, base.h:294-303, cpp_gen.cpp:629-652).                   *)
KeysOf(t, id) ==
  UNION {DOMAIN v[id] : v \in {w \in Protos[t] : id \in DOMAIN w}}

LookupFinds ==
  finished =>
    \A i \in DOMAIN written :
      LET t == written[i].of
          v == written[i].value
      IN  \A id \in {f \in Ids(t) : IsAssociative(FieldOf(t, f)) /\ f \in DOMAIN v} :
            LET f == FieldOf(t, id)
                p == Ref(right, t, results[i], id)
            IN  \A k \in KeysOf(t, id) :
                  LET at == Find(right, f, p, k)
                  IN  /\ (at < Length(right, p)) = (k \in DOMAIN v[id])
                      /\ at < Length(right, p) => KeyAt(right, f, p, at) = k
                      /\ UpperBound(right, f, p, k) - LowerBound(right, f, p, k)
                         = Cardinality({k} \cap DOMAIN v[id])

(* What a visitor is to be shown of a message of type t.                   *)
RECURSIVE Shown(_, _)
ShownArray(f, x) ==
  LET pairs == IF IsAssociative(f)
                 THEN LET keys == SetToSortSeq(DOMAIN x, LAMBDA a, b : Precedes(f, a, b))
                      IN  [i \in DOMAIN keys |-> <<keys[i], x[keys[i]]>>]
                 ELSE x
      element(e) == CASE f.is = "scalars" -> <<<<"OnScalar", e>>>>
                      [] f.is = "strings" -> <<<<"OnString", e>>>>
                      [] OTHER -> Shown(f.of, e)
  IN  <<<<"OnArrayStart">>>>
      \o FlattenSeq([i \in DOMAIN pairs |-> <<<<"OnElement", i - 1>>>> \o element(pairs[i])])
      \o <<<<"OnArrayEnd">>>>

Shown(t, v) ==
  LET ids == InOrder(Scalars(t) \cup (Structures(t) \cap DOMAIN v))
      shown(id) ==
        LET f == FieldOf(t, id)
        IN  CASE f.is = "scalar" -> <<<<"OnScalar", IF id \in DOMAIN v THEN v[id]
                                                    ELSE f.default>>>>
              [] f.is = "string" -> <<<<"OnString", v[id]>>>>
              [] f.is = "message" -> Shown(f.of, v[id])
              [] OTHER -> ShownArray(f, v[id])
  IN  <<<<"OnMessageStart">>>>
      \o FlattenSeq([i \in DOMAIN ids |-> <<<<"OnField", ids[i]>>>> \o shown(ids[i])])
      \o <<<<"OnMessageEnd">>>>

(* A visitor, who knows a message by its descriptor only, sees the fields  *)
(* of the protobuf message in order: every scalar, and the strings, arrays *)
(* and messages that are there, elements and nested messages included      *)
(* (visitor.h:43-296, any_message.h:14-95, any_array.h:16-41).             *)
VisitorAgrees ==
  finished =>
    \A i \in DOMAIN written :
      VisitMessage(right, written[i].of, results[i]) = Shown(written[i].of, written[i].value)
=============================================================================
