----------------------------- MODULE Serializer -----------------------------
(***************************************************************************)
(* yaff::Serializer (include/yaff/serializer.h): builds a buffer back to   *)
(* front in the right stack of a DualBuffer, in the words of module Wire,  *)
(* and keeps in the left stack the fields of the open sparse message and   *)
(* the metadata tables written so far.  The two stacks are the ones        *)
(* TwoStacks promises.                                                     *)
(*                                                                         *)
(* A call the code rejects without changing anything is a stutter.  A call *)
(* that throws after it has changed something is an action: the client may *)
(* catch the exception and go on (the tests do), so such a message is      *)
(* tainted and promises nothing, and everything else must survive it.      *)
(***************************************************************************)
EXTENDS Wire, SequencesExt, FiniteSetsExt

CONSTANTS RefFields,    \* the ids that hold strings, messages or arrays
          Default,      \* the default of every scalar field
          MaxOffset,    \* what ToCheckedOffset accepts, 2^31 - 1
          OffsetMod,    \* the number of values of an Offset, 2^32
          FieldOffsetMod, \* the number of values of a FieldOffset, 2^16
          MaxRight,     \* bound: no call starts above this size,
          MaxStart,     \* but a flat message, which starts up to this one
          Strings,      \* the contents of strings
          Vectors,      \* the contents of scalar arrays
          RefLists,     \* the lengths of arrays of offsets
          Layouts,      \* the kinds of message a client opens
          Modes,        \* the settings of EnforceDynamicAlternative
          Foreign,      \* an offset that is not from this buffer
          BadCalls      \* whether clients make calls the guards refuse

ASSUME SerializerAssumption ==
  /\ RefFields \subseteq Field
  /\ Default \in [Field -> Scalar]
  /\ {MaxOffset, MaxRight, MaxStart} \subseteq Nat
  /\ OffsetMod \in Nat /\ MaxOffset < OffsetMod
  /\ FieldOffsetMod \in Nat /\ MaxField + 1 < FieldOffsetMod
  /\ Strings \subseteq Seq(Scalar)
  /\ Vectors \subseteq Seq(Scalar) \ {<<>>}
  /\ RefLists \subseteq Nat \ {0}
  /\ Layouts \subseteq {"fixed", "flat", "sparse", "preallocated"}
  /\ Modes \subseteq {"flat", "sparse", "other"} /\ "flat" \in Modes
  /\ Foreign \in Nat \ {0} /\ BadCalls \in BOOLEAN

VARIABLES right,      \* the right stack of Buf_
          left,       \* the left stack: TMeta and TField entries
          msg,        \* MessageSerializer_ and its members
          depth,      \* Depth_
          inline,     \* the locals of SerializeArray(F&& produce)
          pool,       \* ObjectSet_
          finished,   \* Finished_
          forced,     \* ForcedAlternative_
          objects,    \* the objects promised to the client, by offset
          root,       \* the offset given to Finish, 0 if none
          wrapped     \* whether an offset has lost its high bits: the record
                      \* of two conversions nothing checks, for the properties

vars == <<right, left, msg, depth, inline, pool, finished, forced,
          objects, root, wrapped>>

Size == Len(right)
IdLimit == MaxField + 1                       \* 0x1FFF

None == [is |-> "none"]                       \* DummyMessageSerializer
Valueless == [is |-> "valueless"]             \* a constructor has thrown

Zeros(n) == [i \in 1 .. n |-> 0]
Junks(n) == [i \in 1 .. n |-> Junk]

(* The size words that start at RightDataAt(o), listed from the last one.  *)
Block(r, o, size) == SubSeq(r, o - size + 1, o)

(* RightPush of a block listed by ascending address, and RightPop.         *)
Push(r, block) == r \o Reverse(block)
Pop(r, n) == SubSeq(r, 1, Len(r) - n)

Checked(o) == o <= MaxOffset                  \* ToCheckedOffset

(* The preconditions.                                                      *)
NotFinished == ~finished
NotNested == depth = 0

(* Bounds: no call starts above MaxRight, a flat message above MaxStart,   *)
(* and once an offset is truncated clients only go on with the open        *)
(* message, finish or start over.  Only a message that has thrown can grow *)
(* without end.                                                            *)
Room == Size <= MaxRight /\ ~wrapped
RoomToStart == Size <= MaxStart /\ ~wrapped
RoomToGoOn == msg.tainted => Room

-----------------------------------------------------------------------------
(* Objects: what the client was told is at an offset.                      *)

Kinds == {"string", "scalars", "refs", "inline", "fixed", "explicit", "implicit"}

(* Null, every offset handed out, and one that is not from this buffer.    *)
RefInputs ==
  {0} \cup {x.off : x \in objects} \cup IF BadCalls THEN {Foreign} ELSE {}

Promise(o, kind, body) ==
  objects' = objects \cup {[off |-> o, kind |-> kind, body |-> body]}

-----------------------------------------------------------------------------
(* SerializeString and SerializeArray.                                     *)

(* ObjectSet_.find: the entries whose bytes are those on top of r.         *)
Twins(r, size) ==
  {e \in pool : e.size = size /\ Block(r, e.off, size) = Block(r, Len(r), size)}

(* Plausible slips: the pool is never consulted, MAX_OFFSET is not checked *)
(* and a word too many is popped for a twin.                               *)
DeduplicatedNever(r, kind, body) ==
  /\ Checked(Len(r))
  /\ right' = r
  /\ pool' = pool \cup {[off |-> Len(r), size |-> Len(r) - Size]}
  /\ Promise(Len(r), kind, body)

DeduplicatedUnchecked(r, kind, body) ==
  /\ right' = r
  /\ pool' = pool \cup {[off |-> Len(r), size |-> Len(r) - Size]}
  /\ Promise(Len(r), kind, body)

DeduplicatedPopsMore(r, kind, body) ==
  LET size == Len(r) - Size
      twins == Twins(r, size)
  IN  /\ right' = IF twins # {} THEN Pop(r, size + 1) ELSE r
      /\ pool' = pool \cup {[off |-> Len(r), size |-> size]}
      /\ UNCHANGED objects

(* ToDeduplicatedOffset: a twin takes the place of the new bytes, even     *)
(* when they lie beyond MAX_OFFSET.  Otherwise they stay on the stack,     *)
(* also when the check throws.                                             *)
Deduplicated(r, kind, body) ==
  LET size == Len(r) - Size
      twins == Twins(r, size)
  IN  \/ /\ twins # {}
         /\ right' = Pop(r, size)
         /\ \E e \in twins : Promise(e.off, kind, body)
         /\ UNCHANGED pool
      \/ /\ twins = {}
         /\ Checked(Len(r))
         /\ right' = r
         /\ pool' = pool \cup {[off |-> Len(r), size |-> size]}
         /\ Promise(Len(r), kind, body)
      \/ /\ twins = {}
         /\ ~Checked(Len(r))
         /\ right' = r
         /\ UNCHANGED <<pool, objects>>

(* A plausible slip: CheckNotNested is forgotten.                          *)
SerializeStringNested(s) ==
  /\ NotFinished /\ Room
  /\ Deduplicated(Push(right, <<Len(s)>> \o s \o <<0>>), "string", s)
  /\ UNCHANGED <<left, msg, depth, inline, finished, forced, root, wrapped>>

SerializeString(s) ==
  /\ NotFinished /\ NotNested /\ Room
  /\ Deduplicated(Push(right, <<Len(s)>> \o s \o <<0>>), "string", s)
  /\ UNCHANGED <<left, msg, depth, inline, finished, forced, root, wrapped>>

SerializeArray(v) ==
  /\ NotFinished /\ NotNested /\ Room
  /\ Deduplicated(Push(right, <<Len(v)>> \o v), "scalars", v)
  /\ UNCHANGED <<left, msg, depth, inline, finished, forced, root, wrapped>>

(* A plausible slip: an array of offsets goes through the pool as well.    *)
SerializeOffsetsPooled(list) ==
  /\ NotFinished /\ NotNested /\ Room
  /\ \A i \in DOMAIN list : list[i] <= Size + Len(list)
  /\ Deduplicated(
       Push(right, <<Len(list)>> \o
            [i \in DOMAIN list |-> IF list[i] = 0 THEN 0
                                   ELSE Size + Len(list) - list[i]]),
       "refs", list)
  /\ UNCHANGED <<left, msg, depth, inline, finished, forced, root, wrapped>>

(* Arrays of offsets: each element counts from the first one.  The size    *)
(* check throws before anything is allocated and a foreign offset after;   *)
(* both leave Depth_ incremented.                                          *)
SerializeOffsets(list) ==
  /\ NotFinished /\ NotNested /\ Room
  /\ LET end == Size + Len(list) + 1
         first == end - 1
         relative(o) == IF o = 0 THEN 0 ELSE first - o
     IN  \/ /\ ~Checked(end)
            /\ depth' = depth + 1
            /\ UNCHANGED <<right, objects>>
         \/ /\ Checked(end)
            /\ \E i \in DOMAIN list : list[i] > first
            /\ right' = Push(right, Junks(Len(list) + 1))
            /\ depth' = depth + 1
            /\ UNCHANGED objects
         \/ /\ Checked(end)
            /\ \A i \in DOMAIN list : list[i] <= first
            /\ right' = Push(right, <<Len(list)>> \o
                                    [i \in DOMAIN list |-> relative(list[i])])
            /\ Promise(end, "refs", list)
            /\ UNCHANGED depth
  /\ UNCHANGED <<left, msg, inline, pool, finished, forced, root, wrapped>>

-----------------------------------------------------------------------------
(* Arrays of inline elements: SerializeArray(F&& produce).  The callback   *)
(* writes one element a call as a fixed message, last element first.       *)

Closed == [open |-> FALSE]

StartInline ==
  /\ NotFinished /\ NotNested /\ Room
  /\ depth' = depth + 1
  /\ inline' = [open |-> TRUE, before |-> Size, size |-> 0, made |-> <<>>]
  /\ UNCHANGED <<right, left, msg, pool, finished, forced, objects, root, wrapped>>

(* produce returns and asks for another call.                              *)
NextElement ==
  /\ inline.open /\ msg = None
  /\ LET delta == Size - inline.before
     IN  /\ IF inline.made = <<>> THEN delta > 0 ELSE delta = inline.size
         /\ inline' = [inline EXCEPT !.before = Size, !.size = delta,
                                     !.made = Append(inline.made, Size)]
  /\ UNCHANGED <<right, left, msg, depth, pool, finished, forced, objects, root, wrapped>>

(* produce returns for the last time.                                      *)
LastElement ==
  /\ inline.open /\ msg = None
  /\ LET delta == Size - inline.before
         made == Append(inline.made, Size)
     IN  /\ IF inline.made = <<>> THEN delta > 0 ELSE delta = inline.size
         /\ right' = Push(right, <<Len(made)>>)
         /\ IF Checked(Size + 1) THEN Promise(Size + 1, "inline", Reverse(made))
                                 ELSE UNCHANGED objects
  /\ depth' = depth - 1
  /\ inline' = Closed
  /\ UNCHANGED <<left, msg, pool, finished, forced, root, wrapped>>

(* produce throws, or an element is empty or of another size: the array is *)
(* abandoned, a message produce had opened stays open and Depth_ stays up. *)
AbandonInline ==
  /\ BadCalls
  /\ inline.open
  /\ inline' = Closed
  /\ UNCHANGED <<right, left, msg, depth, pool, finished, forced, objects, root, wrapped>>

-----------------------------------------------------------------------------
(* Opening and closing a message (StartMessageDispatch and                 *)
(* FinishMessageDispatch).  fields is what the client has added so far.    *)

(* A plausible slip: Depth_ is not incremented.                            *)
OpenUncounted(m) ==
  /\ msg' = m
  /\ UNCHANGED depth

Open(m) ==
  /\ msg' = m
  /\ depth' = depth + 1

Tainted == msg' = [msg EXCEPT !.tainted = TRUE]

(* A tainted message promises nothing.                                     *)
Close(o, kind) ==
  /\ msg' = None
  /\ depth' = depth - 1
  /\ IF msg.tainted THEN UNCHANGED objects ELSE Promise(o, kind, msg.fields)

Presence(m) == IF m.explicit THEN "explicit" ELSE "implicit"

Added(id, v) == [f \in DOMAIN msg.fields \cup {id} |->
                   IF f = id THEN v ELSE msg.fields[f]]

-----------------------------------------------------------------------------
(* FixedMessageSerializer.                                                 *)

(* Nesting is allowed, another message is not; a produce callback writes   *)
(* one message a call.  limit is the LIMIT of the message's type.  A       *)
(* throwing constructor leaves the variant valueless.                      *)
StartFixed(limit) ==
  /\ msg = None /\ NotFinished /\ Room
  /\ inline.open => Size = inline.before
  /\ "fixed" \in Layouts
  /\ right' = Push(right, Zeros(limit))
  /\ Open(IF Checked(Size + limit)
            THEN [is |-> "fixed", start |-> Size, loc |-> Size + limit,
                  tainted |-> FALSE, fields |-> <<>>]
            ELSE Valueless)
  /\ UNCHANGED <<left, inline, pool, finished, forced, objects, root, wrapped>>

AddFixed(id, v, word) ==
  /\ msg.is = "fixed"
  /\ right' = [right EXCEPT ![msg.loc - FlatOffset(id)] = word]
  /\ msg' = [msg EXCEPT !.fields = Added(id, v)]
  /\ UNCHANGED <<left, depth, inline, pool, finished, forced, objects, root, wrapped>>

AddFixedScalar(id, v, default) == AddFixed(id, v, Xor(v, default))

AddFixedRef(id, o) ==
  /\ msg.is = "fixed"
  /\ o # 0 /\ msg.loc >= o
  /\ AddFixed(id, o, msg.loc - o)

FinishFixed ==
  /\ msg.is = "fixed"
  /\ Close(msg.loc, "fixed")
  /\ UNCHANGED <<right, left, inline, pool, finished, forced, root, wrapped>>

-----------------------------------------------------------------------------
(* FlatMessageSerializer.  end is End, base the place Base points at,      *)
(* prev PrevOffset and need NeedExplicit.                                  *)

(* Start takes the size of the buffer without a check, so the bytes left   *)
(* by calls that threw at MAX_OFFSET can make it wrap: End then names      *)
(* earlier bytes than Base does.                                           *)
StartFlat(explicit, sized) ==
  /\ NotFinished /\ NotNested /\ RoomToStart
  /\ "flat" \in Layouts
  /\ Open([is |-> "flat", explicit |-> explicit, sized |-> sized,
           start |-> Size % OffsetMod, end |-> 0, base |-> 0, maxId |-> 0,
           prev |-> 0, need |-> FALSE, tainted |-> FALSE, fields |-> <<>>])
  /\ wrapped' = (wrapped \/ Size >= OffsetMod)
  /\ UNCHANGED <<right, left, inline, pool, finished, forced, objects, root>>

(* Initialize, for the first field added: the block for this field and     *)
(* every lower one, and the message that knows where it lies.              *)
FirstBlock(id) ==
  Push(right, Zeros(FlatOffset(id) + 2 + IF msg.explicit THEN id ELSE 0))

Located(id) ==
  [msg EXCEPT !.end = msg.start + FlatOffset(id) + 2,
              !.base = Size + FlatOffset(id) + 2,
              !.maxId = id + 1, !.prev = FlatOffset(id), !.need = FALSE]

SetPresence(r, m, id) ==
  IF m.explicit /\ r[m.base + id] % 2 = 0
    THEN [r EXCEPT ![m.base + id] = @ + 1] ELSE r

(* TrackField after Initialize or Ord.Check, then WriteField: a scalar is  *)
(* stored as it differs from its default, a reference (whose default is    *)
(* null) as a distance from End, refused when it would be negative.        *)
AddFlat(id, v, default, scalar) ==
  LET r == IF msg.maxId = 0 THEN FirstBlock(id) ELSE right
      m == IF msg.maxId = 0 THEN Located(id)
                            ELSE [msg EXCEPT !.prev = FlatOffset(id)]
      equal == scalar /\ v = default
      tracked == [m EXCEPT !.need = @ \/ (m.explicit /\ equal)]
      marked == SetPresence(r, m, id)
      refused == ~scalar /\ m.end < v
      word == IF scalar THEN Xor(v, default) ELSE m.end - v
  IN  /\ msg.is = "flat"
      /\ msg.maxId = 0 => RoomToGoOn
      /\ msg.maxId # 0 => msg.prev >= FlatOffset(id) + 1
      /\ \/ /\ msg.maxId = 0 /\ ~Checked(m.end)
            /\ right' = r
            /\ Tainted
         \/ /\ msg.maxId = 0 => Checked(m.end)
            /\ refused
            /\ right' = marked
            /\ msg' = [tracked EXCEPT !.tainted = TRUE]
         \/ /\ msg.maxId = 0 => Checked(m.end)
            /\ ~refused
            /\ right' = [marked EXCEPT ![m.base - 1 - FlatOffset(id)] = word]
            /\ msg' = [tracked EXCEPT !.fields = Added(id, v)]
      /\ UNCHANGED <<left, depth, inline, pool, finished, forced, objects, root, wrapped>>

AddFlatScalar(id, v, default) ==
  /\ msg.is = "flat"
  /\ ~msg.explicit => v # default
  /\ AddFlat(id, v, default, TRUE)

AddFlatRef(id, o) == msg.is = "flat" /\ o # 0 /\ AddFlat(id, o, 0, FALSE)

(* The size bits of a field of one word, above its presence bit if any.    *)
SizeBits(explicit) == IF explicit THEN 4 ELSE 2

(* ApplySizeMask over the metadata of the ids below maxId.                 *)
ApplySizeMask(r, end, maxId, explicit) ==
  [k \in DOMAIN r |->
     IF k \in end + 1 .. end + maxId - 1
       THEN SizeBits(explicit) + (IF explicit THEN r[k] ELSE 0)
       ELSE r[k]]

(* A message that needs no presence bits drops its metadata, an implicit   *)
(* sized one allocates it only now.                                        *)
FlatMeta(truly) ==
  LET size == IF msg.sized THEN msg.maxId - 1 ELSE 0
      kept == IF msg.explicit /\ ~truly THEN Pop(right, Size - msg.end - size)
              ELSE IF ~msg.explicit THEN Push(right, Junks(size))
              ELSE right
  IN  IF msg.sized THEN ApplySizeMask(kept, msg.end, msg.maxId, truly) ELSE kept

(* A plausible slip: presence bits are dropped whenever nothing is sized.  *)
FinishFlatDropping ==
  /\ msg.is = "flat" /\ msg.maxId # 0
  /\ right' = [FlatMeta(FALSE) EXCEPT ![msg.end] =
                 FlatBit + 4 * msg.maxId + (IF msg.sized THEN 2 ELSE 0)]
  /\ Close(msg.end, Presence(msg))
  /\ UNCHANGED <<left, inline, pool, finished, forced, root, wrapped>>

FinishFlat ==
  /\ msg.is = "flat" /\ RoomToGoOn
  /\ IF msg.maxId = 0
       THEN /\ right' = Push(right, <<FlatBit>>)
            /\ IF Checked(Size + 1) THEN Close(Size + 1, Presence(msg))
                                    ELSE Tainted /\ UNCHANGED <<depth, objects>>
       ELSE LET truly == msg.explicit /\ msg.need
            IN  /\ right' = [FlatMeta(truly) EXCEPT ![msg.end] =
                               FlatBit + 4 * msg.maxId
                               + (IF msg.sized THEN 2 ELSE 0)
                               + (IF truly THEN 1 ELSE 0)]
                /\ Close(msg.end, Presence(msg))
  /\ UNCHANGED <<left, inline, pool, finished, forced, root, wrapped>>

-----------------------------------------------------------------------------
(* SparseMeta: metadata tables, shared between messages through the TMeta  *)
(* entries of the left stack.                                              *)

(* The three bits of the lowest metadata byte kept in a signature.         *)
Hint(byte) == (byte \div 4) % 8

(* What the entry of id can tell.                                          *)
EntryMod(id) == IF IsTiny(id) THEN ByteMod ELSE ByteMod * ByteMod

WriteFieldMeta(r, base, id, offset) ==
  LET low == base + 1 + MetaPlace(id)
  IN  IF IsTiny(id) THEN [r EXCEPT ![low] = offset % ByteMod]
      ELSE [r EXCEPT ![low] = offset % ByteMod,
                     ![low - 1] = (offset \div ByteMod) % ByteMod]

(* Plausible slips: the signature alone is compared, and the candidate is  *)
(* compared from the wrong place.                                          *)
SameSignature(r, l, maxId) ==
  {i \in DOMAIN l : l[i].is = "meta" /\ l[i].maxId = maxId /\ l[i].hint = Hint(r[Len(r)])}

SameMetaShifted(r, l, maxId) ==
  {i \in SameSignature(r, l, maxId) :
     Block(r, l[i].off - 1, MetaSize(maxId)) = Block(r, Len(r), MetaSize(maxId))}

(* The TMeta entries of l whose table is the one on top of r.              *)
SameMeta(r, l, maxId) ==
  {i \in DOMAIN l :
     /\ l[i].is = "meta"
     /\ l[i].maxId = maxId /\ l[i].hint = Hint(r[Len(r)])
     /\ Block(r, l[i].off, MetaSize(maxId)) = Block(r, Len(r), MetaSize(maxId))}

(* For stacks r and l: the table on top of r is dropped if a candidate has *)
(* the same bytes, recorded for later messages otherwise, and the message  *)
(* at start is linked to it.  The check that throws leaves message m open. *)
FinishMetadata(r, l, m, start) ==
  LET maxId == m.maxId
      same == SameMeta(r, l, maxId)
      off == IF same = {} THEN Len(r) ELSE l[Min(same)].off
      kept == Pop(r, IF same = {} THEN 0 ELSE MetaSize(maxId))
  IN  IF same = {} /\ ~Checked(off)
        THEN /\ right' = r /\ left' = l
             /\ msg' = [m EXCEPT !.tainted = TRUE]
             /\ UNCHANGED <<depth, objects>>
        ELSE /\ right' = [kept EXCEPT ![start + 1] =
                            start - (off - MetaSize(maxId))]
             /\ left' = IF same # {} THEN l
                        ELSE Append(l, [is |-> "meta", off |-> off, maxId |-> maxId,
                                        hint |-> Hint(r[Len(r)])])
             /\ Close(start, Presence(msg))

-----------------------------------------------------------------------------
(* SparseMessageSerializer<E, false, G>.  added is FieldsAdded, base       *)
(* LeftStart and prev PrevId.                                              *)

StartSparse(explicit) ==
  /\ NotFinished /\ NotNested /\ Room
  /\ "sparse" \in Layouts
  /\ Open([is |-> "sparse", explicit |-> explicit, start |-> Size,
           base |-> Len(left), added |-> 0, maxId |-> 0, prev |-> 0,
           tainted |-> FALSE, fields |-> <<>>])
  /\ UNCHANGED <<right, left, inline, pool, finished, forced, objects, root, wrapped>>

(* The value is pushed before TrackField looks at the id, so a refused     *)
(* field leaves it behind.                                                 *)
AddSparse(id, v, scalar) ==
  LET inOrder == id > 0 /\ (msg.prev = 0 \/ msg.prev > id)
      ranged == msg.maxId # 0 \/ id < IdLimit
      m == [msg EXCEPT !.prev = IF inOrder THEN id ELSE @,
                       !.maxId = IF inOrder /\ ranged /\ @ = 0 THEN id + 1 ELSE @]
  IN  /\ msg.is = "sparse" /\ RoomToGoOn
      /\ right' = Push(right, <<v>>)
      /\ IF inOrder /\ ranged /\ Checked(Size + 1)
           THEN /\ left' = Append(left, [is |-> "field", off |-> Size + 1,
                                         id |-> id, scalar |-> scalar])
                /\ msg' = [m EXCEPT !.added = @ + 1, !.fields = Added(id, v)]
           ELSE /\ UNCHANGED left
                /\ msg' = [m EXCEPT !.tainted = TRUE]
      /\ UNCHANGED <<depth, inline, pool, finished, forced, objects, root, wrapped>>

AddSparseScalar(id, v, default) ==
  /\ msg.is = "sparse"
  /\ ~BadCalls => (msg.prev = 0 \/ msg.prev > id)
  /\ ~msg.explicit => v # default
  /\ AddSparse(id, v, TRUE)

AddSparseRef(id, o) ==
  /\ msg.is = "sparse"
  /\ ~BadCalls => (msg.prev = 0 \/ msg.prev > id)
  /\ o # 0
  /\ AddSparse(id, o, FALSE)

(* What the loop of Finish does for a field: its place goes into the       *)
(* metadata, and a reference that fits becomes a distance.                 *)
LinkField(r, start, field) ==
  LET marked == WriteFieldMeta(r, start, field.id, start - field.off)
  IN  IF field.scalar \/ start < r[field.off]
        THEN marked
        ELSE [marked EXCEPT ![field.off] = start - @]

(* The loop takes the fields in the order they were added, which is that   *)
(* of their offsets, and stops at a reference that does not fit, with the  *)
(* earlier fields already rewritten.  No two fields change the same word.  *)
LinkFields(r, start) ==
  LET fields == {left[i] : i \in msg.base + 1 .. msg.base + msg.added}
      unfit == {f \in fields : ~f.scalar /\ start < r[f.off]}
      reached == {f \in fields : \A g \in unfit : f.off <= g.off}
      images == {LinkField(r, start, f) : f \in reached}
      changed(k) == {image[k] : image \in images} \ {r[k]}
  IN  [ok |-> unfit = {},
       r |-> [k \in DOMAIN r |->
                IF changed(k) = {} THEN r[k] ELSE CHOOSE word \in changed(k) : TRUE]]

(* A plausible slip: the entries of the fields are not popped.             *)
FinishSparseUnpopped ==
  LET start == Size + 1
      linked == LinkFields(
        Push(right, Zeros(MetaSize(msg.maxId) + 1) \o <<SparseLimit(msg.maxId)>>), start)
  IN  /\ msg.is = "sparse" /\ msg.maxId # 0 /\ linked.ok
      /\ FinishMetadata(linked.r, left, msg, start)
      /\ UNCHANGED <<inline, pool, finished, forced, root, wrapped>>

FinishSparse ==
  LET start == Size + 1
      linked == LinkFields(
        Push(right, Zeros(MetaSize(msg.maxId) + 1) \o <<SparseLimit(msg.maxId)>>), start)
  IN  /\ msg.is = "sparse" /\ RoomToGoOn
      /\ \/ /\ msg.maxId = 0
            /\ right' = Push(right, <<2>>)
            /\ UNCHANGED left
            /\ IF Checked(start) THEN Close(start, Presence(msg))
                                 ELSE Tainted /\ UNCHANGED <<depth, objects>>
         \/ /\ msg.maxId # 0 /\ ~Checked(start)
            /\ right' = Push(right, <<SparseLimit(msg.maxId)>>)
            /\ Tainted /\ UNCHANGED <<left, depth, objects>>
         \/ /\ msg.maxId # 0 /\ Checked(start) /\ ~linked.ok
            /\ right' = linked.r
            /\ Tainted /\ UNCHANGED <<left, depth, objects>>
         \/ /\ msg.maxId # 0 /\ Checked(start) /\ linked.ok
            /\ FinishMetadata(linked.r, SubSeq(left, 1, Len(left) - msg.added), msg, start)
      /\ UNCHANGED <<inline, pool, finished, forced, root, wrapped>>

-----------------------------------------------------------------------------
(* SparseMessageSerializer<E, true, G>, whose space is reserved by the     *)
(* SparseMessageAssume it is opened with.  accounted is the set of fields  *)
(* the client accounted for; it adds no other one, and none after the      *)
(* start has thrown (base = 0, a null Base).  Room it leaves unused moves  *)
(* the others away, so it leaves no more than their entries can tell.      *)

StartPreallocated(explicit, accounted) ==
  LET end == Size + Cardinality(accounted) + 1
      maxId == IF accounted = {} THEN 0 ELSE Max(accounted) + 1
      meta == IF maxId = 0 THEN 0 ELSE MetaSize(maxId) + 1
      m == [is |-> "preallocated", explicit |-> explicit, start |-> Size,
            end |-> 0, base |-> 0, maxId |-> 0, prev |-> 0, prevOffset |-> 0,
            accounted |-> accounted, tainted |-> ~Checked(end), fields |-> <<>>]
  IN  /\ NotFinished /\ NotNested /\ Room
      /\ "preallocated" \in Layouts
      /\ IF Checked(end)
           THEN /\ right' = Push(right, Zeros(meta) \o
                      <<IF maxId = 0 THEN 2 ELSE SparseLimit(maxId)>> \o
                      Junks(Cardinality(accounted)))
                /\ Open([m EXCEPT !.end = end, !.base = end, !.maxId = maxId,
                                  !.prevOffset = Cardinality(accounted) + 1])
           ELSE /\ UNCHANGED right
                /\ Open(m)
      /\ UNCHANGED <<left, inline, pool, finished, forced, objects, root, wrapped>>

(* PrevOffset - sizeof(T) in a FieldOffset.  Below the fields that were    *)
(* accounted for lies the typed limit: after a Finish that threw, only a   *)
(* field no wider than it stays inside, and any other offset wraps.        *)
OffsetsBelow(prevOffset, scalar) ==
  IF prevOffset > 1 THEN {prevOffset - 1}
  ELSE {FieldOffsetMod - 1} \cup IF prevOffset = 1 /\ scalar THEN {0} ELSE {}

(* A word beyond the buffer is not seen again.                             *)
Stored(r, o, word) == IF o \in DOMAIN r THEN [r EXCEPT ![o] = word] ELSE r

AddPreallocated(id, v, word, scalar) ==
  /\ msg.is = "preallocated" /\ msg.base # 0 /\ id \in msg.accounted
  /\ msg.prev = 0 \/ msg.prev > id
  /\ \E offset \in OffsetsBelow(msg.prevOffset, scalar) :
       /\ ~msg.tainted => offset < EntryMod(id)
       /\ right' = Stored(WriteFieldMeta(right, msg.base, id, offset),
                          msg.base - offset, word)
       /\ msg' = [msg EXCEPT !.prev = id, !.prevOffset = offset,
                             !.fields = Added(id, v)]
       /\ wrapped' = (wrapped \/ offset > msg.prevOffset)
  /\ UNCHANGED <<left, depth, inline, pool, finished, forced, objects, root>>

AddPreallocatedScalar(id, v, default) ==
  /\ msg.is = "preallocated"
  /\ ~msg.explicit => v # default
  /\ AddPreallocated(id, v, v, TRUE)

AddPreallocatedRef(id, o) ==
  /\ msg.is = "preallocated"
  /\ o # 0 /\ msg.end >= o
  /\ AddPreallocated(id, o, msg.end - o, FALSE)

(* PrevOffset is set before FinishMetadata may throw, and stays so in the  *)
(* message that is then still open.                                        *)
FinishPreallocated ==
  /\ msg.is = "preallocated" /\ msg.end # 0
  /\ IF msg.maxId = 0
       THEN /\ Close(msg.end, Presence(msg))
            /\ UNCHANGED <<right, left>>
       ELSE FinishMetadata(right, left, [msg EXCEPT !.prevOffset = 1], msg.end)
  /\ UNCHANGED <<inline, pool, finished, forced, root, wrapped>>

-----------------------------------------------------------------------------
(* Finishing the buffer and starting over.                                 *)

(* A plausible slip: the root word itself is not counted.                  *)
FinishShort(o) ==
  /\ NotFinished /\ NotNested
  /\ o # 0 /\ Size >= o
  /\ left' = <<>> /\ right' = Push(right, <<Size - o>>)
  /\ finished' = TRUE /\ root' = o
  /\ UNCHANGED <<msg, depth, inline, pool, forced, objects, wrapped>>

(* LeftClear comes before the checks, so a refused root drops the tables.  *)
Finish(o) ==
  /\ NotFinished /\ NotNested
  /\ o # 0
  /\ left' = <<>>
  /\ IF Size + 1 >= o /\ Checked(Size + 1 - o)
       THEN /\ right' = Push(right, <<Size + 1 - o>>)
            /\ finished' = TRUE /\ root' = o
       ELSE UNCHANGED <<right, finished, root>>
  /\ UNCHANGED <<msg, depth, inline, pool, forced, objects, wrapped>>

FinishRaw ==
  /\ NotFinished /\ NotNested
  /\ left' = <<>> /\ finished' = TRUE
  /\ UNCHANGED <<right, msg, depth, inline, pool, forced, objects, root, wrapped>>

Emptied ==
  /\ right' = <<>> /\ left' = <<>>
  /\ msg' = None /\ depth' = 0
  /\ pool' = {} /\ finished' = FALSE
  /\ inline' = Closed /\ objects' = {} /\ root' = 0 /\ wrapped' = FALSE
  /\ UNCHANGED forced

(* A plausible slip: the pool survives and names bytes of the old buffer.  *)
ClearKeepingPool ==
  /\ right' = <<>> /\ left' = <<>>
  /\ msg' = None /\ depth' = 0
  /\ finished' = FALSE
  /\ inline' = Closed /\ objects' = {} /\ root' = 0 /\ wrapped' = FALSE
  /\ UNCHANGED <<forced, pool>>

(* Clear keeps the block, Reset drops it and Release hands it over: the    *)
(* difference is DualBuffer's.  They end a callback that is running, too.  *)
Clear == Emptied
Reset == Emptied
Release == finished /\ Emptied

EnforceDynamicAlternative(mode) ==
  /\ forced' = mode
  /\ UNCHANGED <<right, left, msg, depth, inline, pool, finished, objects, root, wrapped>>

-----------------------------------------------------------------------------
Init ==
  /\ right = <<>> /\ left = <<>>
  /\ msg = None /\ depth = 0 /\ inline = Closed
  /\ pool = {} /\ finished = FALSE /\ forced = "flat"
  /\ objects = {} /\ root = 0 /\ wrapped = FALSE

(* Scalars have values, references offsets.  Only sparse messages change   *)
(* anything before they refuse an id that is not of the schema.            *)
AddScalar ==
  \E v \in Scalar :
    \/ \E id \in Field \ RefFields :
         \/ AddFixedScalar(id, v, Default[id])
         \/ AddFlatScalar(id, v, Default[id])
         \/ AddPreallocatedScalar(id, v, Default[id])
         \/ AddSparseScalar(id, v, Default[id])
    \/ \E id \in IF BadCalls THEN {0, IdLimit} ELSE {} : AddSparseScalar(id, v, 1 - v)

AddRef ==
  \E id \in RefFields, o \in RefInputs :
    \/ AddFixedRef(id, o)
    \/ AddFlatRef(id, o)
    \/ AddPreallocatedRef(id, o)
    \/ AddSparseRef(id, o)

Write ==
  \/ \E s \in Strings : SerializeString(s)
  \/ \E v \in Vectors : SerializeArray(v)
  \/ \E n \in RefLists : \E list \in [1 .. n -> RefInputs] : SerializeOffsets(list)
  \/ StartInline
  \/ NextElement
  \/ LastElement
  \/ AbandonInline

StartMessage ==
  \/ StartFixed(MaxField)
  \/ \E explicit, sized \in BOOLEAN : StartFlat(explicit, sized)
  \/ \E explicit \in BOOLEAN : StartSparse(explicit)
  \/ \E explicit \in BOOLEAN, accounted \in SUBSET Field :
       StartPreallocated(explicit, accounted)

FinishMessage == FinishFixed \/ FinishFlat \/ FinishSparse \/ FinishPreallocated

Next ==
  \/ Write
  \/ StartMessage
  \/ AddScalar
  \/ AddRef
  \/ FinishMessage
  \/ \E o \in RefInputs : Finish(o)
  \/ FinishRaw
  \/ Clear
  \/ Reset
  \/ Release
  \/ \E mode \in Modes : EnforceDynamicAlternative(mode)

Spec == Init /\ [][Next]_vars

-----------------------------------------------------------------------------
(* Every member has its type (serializer.h:1268-1278).                     *)
TypeOK ==
  /\ right \in Seq(Int)
  /\ \A i \in DOMAIN left : left[i].is \in {"meta", "field"}
  /\ msg.is \in {"none", "valueless", "fixed", "flat", "sparse", "preallocated"}
  /\ depth \in Nat
  /\ inline.open \in BOOLEAN
  /\ \A e \in pool : e.off \in Nat /\ e.size \in Nat
  /\ finished \in BOOLEAN /\ forced \in Modes
  /\ \A x \in objects : x.off \in 1 .. MaxOffset /\ x.kind \in Kinds
  /\ root \in Nat /\ wrapped \in BOOLEAN

(* What the reader finds at x.off in r is what the client was told to be   *)
(* there.  A null element of an array of offsets has no defined reading.   *)
ReadsMessage(r, x) ==
  LET has(id) == id \in DOMAIN x.body
  IN  \A id \in Field :
        IF id \in RefFields
          THEN /\ ReadRef(r, x.off, id) = IF has(id) THEN x.body[id] ELSE 0
               /\ ReadPresence(r, x.off, id) = has(id)
          ELSE /\ ReadValue(r, x.off, id, Default[id]) = IF has(id) THEN x.body[id] ELSE Default[id]
               /\ ReadPresence(r, x.off, id)
                  = (has(id) /\ (x.kind = "explicit" \/ x.body[id] # Default[id]))

ReadsFixed(r, x) ==
  LET has(id) == id \in DOMAIN x.body
  IN  \A id \in Field :
        IF id \in RefFields
          THEN FixedRef(r, x.off, id) = IF has(id) THEN x.body[id] ELSE 0
          ELSE /\ FixedValue(r, x.off, id, Default[id])
                  = IF has(id) THEN x.body[id] ELSE Default[id]
               /\ FixedPresence(r, x.off, id)
                  = (has(id) /\ x.body[id] # Default[id])

ReadsScalars(r, x) ==
  \A i \in DOMAIN x.body : ScalarAt(r, x.off, i - 1) = x.body[i]

ReadsArray(r, x) ==
  /\ Length(r, x.off) = Len(x.body)
  /\ CASE x.kind = "string" -> ReadsScalars(r, x) /\ ScalarAt(r, x.off, Len(x.body)) = 0
       [] x.kind = "scalars" -> ReadsScalars(r, x)
       [] x.kind = "refs" -> \A i \in DOMAIN x.body :
                               x.body[i] # 0 => RefAt(r, x.off, i - 1) = x.body[i]
       [] x.kind = "inline" -> \A i \in DOMAIN x.body :
                                 InlineAt(x.off, i - 1, MaxField) = x.body[i]

Reads(r, x) ==
  CASE x.kind \in {"string", "scalars", "refs", "inline"} -> ReadsArray(r, x)
    [] x.kind = "fixed" -> ReadsFixed(r, x)
    [] x.kind \in {"explicit", "implicit"} -> ReadsMessage(r, x)

(* Every offset the serializer has handed out reads back as what was       *)
(* written, whatever was deduplicated, shared, rewritten in place, popped  *)
(* or left behind by an exception since, as long as no offset was          *)
(* truncated: a flat message started beyond 4 GiB, or a preallocated one   *)
(* written on after its Finish threw, may lie over other objects           *)
(* (serializer.h:162-411, 630, 1027, message.h:108-400, array.h:135-240).  *)
ObjectsReadBack == wrapped \/ \A x \in objects : Reads(right, x)

(* A finished buffer leads its reader to the root that was given to        *)
(* Finish, and the root is an object of this buffer (serializer.h:402-411, *)
(* base.h:311-317).                                                        *)
RootReadsBack ==
  finished /\ root # 0 /\ ~wrapped => /\ ReadMessage(right) = root
                                      /\ \E x \in objects : x.off = root

(* The first offset the open message may write to.                         *)
Floor ==
  CASE msg.is \in {"fixed", "flat", "sparse", "preallocated"} -> msg.start
    [] OTHER -> Size

(* No call changes or removes a word written before the open message was   *)
(* started, until the buffer is emptied or an offset is truncated: objects *)
(* are built in place only while they are open, which is what lets tables  *)
(* and arrays be shared (serializer.h:800-832, 889-919, 1022-1034,         *)
(* 1237-1252).                                                             *)
EarlierWordsStay ==
  [][\/ Emptied \/ wrapped'
     \/ Size' >= Floor /\ SubSeq(right', 1, Floor) = SubSeq(right, 1, Floor)]_vars

(* Repeated content is stored once: scalar arrays, strings, and the meta   *)
(* tables of sparse messages (support.md:9, serializer.h:800-832,          *)
(* 1237-1252).                                                             *)
StoredOnce ==
  ~wrapped =>
    /\ \A x, y \in objects :
         x.kind = y.kind /\ x.kind \in {"string", "scalars"} /\ x.body = y.body
         => x.off = y.off
    /\ \A i, j \in DOMAIN left :
         left[i].is = "meta" /\ left[j].is = "meta" /\ left[i].maxId = left[j].maxId
         /\ Block(right, left[i].off, MetaSize(left[i].maxId))
            = Block(right, left[j].off, MetaSize(left[j].maxId))
         => i = j

(* FinishMetadata walks the whole left stack in steps of a TMeta, so the   *)
(* entries of fields may be there only above LeftStart while their sparse  *)
(* message is open; every table recorded lies inside the right stack       *)
(* (serializer.h:804, 900-916).                                            *)
LeftHoldsTables ==
  LET fields == IF msg.is = "sparse" THEN msg.base ELSE Len(left)
  IN  ~wrapped => \A i \in DOMAIN left :
        IF i <= fields
          THEN left[i].is = "meta" /\ left[i].off \in MetaSize(left[i].maxId) .. Size
          ELSE left[i].is = "field" /\ left[i].off \in msg.start + 1 .. Size

(* Depth_ is what keeps one construction from disturbing another: it is    *)
(* never zero while a message or an array is open, also after exceptions,  *)
(* so nothing can be finished around an open one (serializer.h:1107-1133). *)
NothingOpenUnnested ==
  /\ depth = 0 => msg = None /\ ~inline.open
  /\ finished => depth = 0

(* Base stays valid while writing fields (serializer.h:745, 1014): nothing *)
(* is pushed, popped or reallocated between the pushes that place Base and *)
(* Finish, and Base and End name the same word.                            *)
BaseStaysValid ==
  ~wrapped =>
    /\ msg.is = "flat" /\ msg.maxId # 0 /\ ~msg.tainted
       => /\ msg.base = msg.end
          /\ Size = msg.end + IF msg.explicit THEN msg.maxId - 1 ELSE 0
    /\ msg.is = "preallocated" /\ msg.base # 0
       => Size = msg.base + IF msg.maxId = 0 THEN 0 ELSE MetaSize(msg.maxId) + 1
=============================================================================
