------------------------- MODULE Serializer_proofs -------------------------
(***************************************************************************)
(* Proofs about Serializer: its type invariant, that nothing is open at    *)
(* depth 0, that the left stack holds tables, that Base stays valid, that  *)
(* the root is found, and that no step changes a word below the open       *)
(* message, for any schema, contents and limits.                           *)
(***************************************************************************)
EXTENDS Serializer, TLAPS, FiniteSetTheorems, SequenceTheorems

-----------------------------------------------------------------------------
(* What the operators on the stacks return, how long it is, and which      *)
(* words they leave alone.                                                 *)

(* SMT needs the basic facts about sequences spelt out.                    *)
LEMMA SeqFacts ==
  ASSUME NEW S, NEW s \in Seq(S)
  PROVE  /\ Len(s) \in Nat /\ DOMAIN s = 1 .. Len(s)
         /\ \A i \in 1 .. Len(s) : s[i] \in S
  OBVIOUS

LEMMA SamePrefix ==
  ASSUME NEW r \in Seq(Int), NEW s \in Seq(Int), NEW n \in 0 .. Len(r), n \in 0 .. Len(s),
         \A k \in 1 .. n : s[k] = r[k]
  PROVE  SubSeq(s, 1, n) = SubSeq(r, 1, n)
<1>1. /\ SubSeq(s, 1, n) \in Seq(Int) /\ Len(SubSeq(s, 1, n)) = n
      /\ \A k \in 1 .. n : SubSeq(s, 1, n)[k] = s[k]
  BY SeqFacts
<1>2. /\ SubSeq(r, 1, n) \in Seq(Int) /\ Len(SubSeq(r, 1, n)) = n
      /\ \A k \in 1 .. n : SubSeq(r, 1, n)[k] = r[k]
  BY SeqFacts
<1> QED
  BY <1>1, <1>2, SeqEqual

LEMMA ReverseProperties ==
  ASSUME NEW S, NEW s \in Seq(S)
  PROVE  /\ Reverse(s) \in Seq(S) /\ Len(Reverse(s)) = Len(s)
         /\ \A i \in 1 .. Len(s) : Reverse(s)[i] = s[Len(s) - i + 1]
  BY DEF Reverse

LEMMA ConcatFacts ==
  ASSUME NEW s \in Seq(Int), NEW t \in Seq(Int)
  PROVE  /\ s \o t \in Seq(Int) /\ Len(s \o t) = Len(s) + Len(t)
         /\ \A k \in 1 .. Len(s) : (s \o t)[k] = s[k]
         /\ \A k \in 1 .. Len(t) : (s \o t)[Len(s) + k] = t[k]
<1>1. Len(s) \in Nat /\ Len(t) \in Nat
  BY SeqFacts
<1> QED
  BY <1>1, ConcatProperties

LEMMA PushProperties ==
  ASSUME NEW r \in Seq(Int), NEW block \in Seq(Int)
  PROVE  /\ Push(r, block) \in Seq(Int)
         /\ Len(Push(r, block)) = Len(r) + Len(block)
         /\ \A k \in 1 .. Len(r) : Push(r, block)[k] = r[k]
         /\ \A k \in 1 .. Len(block) :
              Push(r, block)[Len(r) + k] = block[Len(block) - k + 1]
<1>1. /\ Reverse(block) \in Seq(Int) /\ Len(Reverse(block)) = Len(block)
      /\ \A i \in 1 .. Len(block) : Reverse(block)[i] = block[Len(block) - i + 1]
  BY ReverseProperties
<1> DEFINE top == Reverse(block)
<1> HIDE DEF top
<1>2. /\ top \in Seq(Int) /\ Len(top) = Len(block)
      /\ \A i \in 1 .. Len(block) : top[i] = block[Len(block) - i + 1]
  BY <1>1 DEF top
<1>3. /\ r \o top \in Seq(Int) /\ Len(r \o top) = Len(r) + Len(top)
      /\ \A k \in 1 .. Len(r) : (r \o top)[k] = r[k]
      /\ \A k \in 1 .. Len(top) : (r \o top)[Len(r) + k] = top[k]
  BY <1>2, ConcatFacts
<1>4. Push(r, block) = r \o top /\ Len(r) \in Nat /\ Len(block) \in Nat
  BY SeqFacts DEF Push, top
<1> QED
  BY <1>2, <1>3, <1>4

LEMMA PopProperties ==
  ASSUME NEW r \in Seq(Int), NEW n \in 0 .. Len(r)
  PROVE  /\ Pop(r, n) \in Seq(Int) /\ Len(Pop(r, n)) = Len(r) - n
         /\ \A k \in 1 .. Len(r) - n : Pop(r, n)[k] = r[k]
  BY SeqFacts DEF Pop

(* An assignment outside the stack is none.                                *)
LEMMA SetProperties ==
  ASSUME NEW r \in Seq(Int), NEW i \in Int, NEW w \in Int
  PROVE  /\ [r EXCEPT ![i] = w] \in Seq(Int)
         /\ Len([r EXCEPT ![i] = w]) = Len(r)
         /\ \A k \in 1 .. Len(r) : [r EXCEPT ![i] = w][k] = IF k = i THEN w ELSE r[k]
<1> DEFINE t == [r EXCEPT ![i] = w]
<1>1. Len(r) \in Nat /\ DOMAIN r = 1 .. Len(r) /\ \A k \in 1 .. Len(r) : r[k] \in Int
  BY SeqFacts
<1>2. t = [k \in 1 .. Len(r) |-> IF k = i THEN w ELSE r[k]]
  BY <1>1
<1> HIDE DEF t
<1>3. t \in Seq(Int) /\ Len(t) = Len(r)
  BY <1>1, <1>2
<1> QED
  BY <1>2, <1>3 DEF t

LEMMA ZerosProperties ==
  ASSUME NEW n \in Nat
  PROVE  /\ Zeros(n) \in Seq(Int) /\ Len(Zeros(n)) = n
         /\ \A k \in 1 .. n : Zeros(n)[k] = 0
  BY DEF Zeros

LEMMA JunksProperties ==
  ASSUME NEW n \in Nat
  PROVE  Junks(n) \in Seq(Int) /\ Len(Junks(n)) = n
  BY WireAssumption DEF Junks

LEMMA BlockProperties ==
  ASSUME NEW r \in Seq(Int), NEW o \in 0 .. Len(r), NEW size \in 0 .. o
  PROVE  /\ Block(r, o, size) \in Seq(Int) /\ Len(Block(r, o, size)) = size
         /\ \A k \in 1 .. size : Block(r, o, size)[k] = r[o - size + k]
  BY SeqFacts DEF Block

(* A block is the same in two stacks that agree up to its end.             *)
LEMMA SameBlock ==
  ASSUME NEW r \in Seq(Int), NEW t \in Seq(Int), NEW n \in Nat, n <= Len(r), n <= Len(t),
         \A k \in 1 .. n : t[k] = r[k],
         NEW o \in 0 .. n, NEW size \in 0 .. o
  PROVE  Block(t, o, size) = Block(r, o, size)
<1>1. o \in 0 .. Len(r) /\ o \in 0 .. Len(t)
  BY SeqFacts
<1>2. /\ Block(r, o, size) \in Seq(Int) /\ Len(Block(r, o, size)) = size
      /\ \A k \in 1 .. size : Block(r, o, size)[k] = r[o - size + k]
  BY <1>1, BlockProperties
<1>3. /\ Block(t, o, size) \in Seq(Int) /\ Len(Block(t, o, size)) = size
      /\ \A k \in 1 .. size : Block(t, o, size)[k] = t[o - size + k]
  BY <1>1, BlockProperties
<1>4. ASSUME NEW k \in 1 .. size PROVE r[o - size + k] = t[o - size + k]
  <2>1. o - size + k \in 1 .. n
    OBVIOUS
  <2> QED
    BY <2>1
<1> HIDE DEF Block
<1> QED
  BY <1>2, <1>3, <1>4, SeqEqual, ZenonT(60)

-----------------------------------------------------------------------------
(* Least and greatest elements.                                            *)

LEMMA LeastExists ==
  ASSUME NEW S \in SUBSET Nat, S # {}
  PROVE  \E x \in S : \A y \in S : x <= y
<1> DEFINE R == OpToRel(<, Nat)
<1>1. IsWellFoundedOn(R, Nat)
  BY NatLessThanWellFounded
<1>2. \A x, y \in Nat : <<x, y>> \in R <=> x < y
  BY DEF OpToRel
<1> HIDE DEF R
<1>3. PICK x \in S : \A y \in S : <<y, x>> \notin R
  BY <1>1, WFMin
<1>4. \A y \in S : ~(y < x) /\ y \in Nat /\ x \in Nat
  BY <1>2, <1>3
<1> QED
  BY <1>4

LEMMA MinIsLeast ==
  ASSUME NEW S \in SUBSET Nat, S # {}
  PROVE  Min(S) \in S /\ \A y \in S : Min(S) <= y
  BY LeastExists DEF Min

LEMMA MaxIsGreatest ==
  ASSUME NEW n \in Nat, NEW S \in SUBSET (0 .. n), S # {}
  PROVE  Max(S) \in S /\ \A y \in S : Max(S) >= y
<1> DEFINE T == {k \in Nat : n - k \in S}
<1>1. PICK y \in S : TRUE
  OBVIOUS
<1>2. n - y \in T
  BY <1>1
<1>3. PICK t \in T : \A z \in T : t <= z
  BY <1>2, LeastExists
<1>4. \A z \in S : n - z \in T /\ z \in Int
  OBVIOUS
<1>5. \A z \in S : n - t >= z
  BY <1>3, <1>4
<1> QED
  BY <1>3, <1>5 DEF Max

-----------------------------------------------------------------------------
(* The metadata of sparse messages.                                        *)

LEMMA MetaSizeProperties ==
  ASSUME NEW maxId \in Nat, maxId >= 2
  PROVE  MetaSize(maxId) \in Nat \ {0}
  BY WireAssumption DEF MetaSize

LEMMA ByteOperations ==
  ASSUME NEW n \in Int
  PROVE  n % ByteMod \in 0 .. ByteMod - 1 /\ n \div ByteMod \in Int
<1>1. ByteMod \in Nat \ {0}
  BY WireAssumption
<1> QED
  BY <1>1

LEMMA HintType ==
  ASSUME NEW n \in Int
  PROVE  Hint(n) \in Int
  BY DEF Hint

LEMMA WriteFieldMetaProperties ==
  ASSUME NEW r \in Seq(Int), NEW base \in Nat, NEW id \in Nat \ {0}, NEW offset \in Int
  PROVE  /\ WriteFieldMeta(r, base, id, offset) \in Seq(Int)
         /\ Len(WriteFieldMeta(r, base, id, offset)) = Len(r)
         /\ \A k \in 1 .. Len(r) : k <= base + 1 => WriteFieldMeta(r, base, id, offset)[k] = r[k]
<1> DEFINE low == base + 1 + MetaPlace(id)
           first == [r EXCEPT ![low] = offset % ByteMod]
           second == [first EXCEPT ![low - 1] = (offset \div ByteMod) % ByteMod]
<1>1. /\ low \in Int /\ low > base + 1
      /\ ~IsTiny(id) => low - 1 > base + 1
  BY WireAssumption DEF MetaPlace, IsTiny
<1>2. offset % ByteMod \in Int /\ (offset \div ByteMod) % ByteMod \in Int
  <2>1. offset % ByteMod \in 0 .. ByteMod - 1 /\ offset \div ByteMod \in Int
    BY ByteOperations
  <2>2. (offset \div ByteMod) % ByteMod \in 0 .. ByteMod - 1
    BY <2>1, ByteOperations
  <2> QED
    BY <2>1, <2>2
<1> HIDE DEF low
<1>3. /\ first \in Seq(Int) /\ Len(first) = Len(r)
      /\ \A k \in 1 .. Len(r) : k # low => first[k] = r[k]
  BY <1>1, <1>2, SetProperties
<1> HIDE DEF first
<1>4. /\ second \in Seq(Int) /\ Len(second) = Len(r)
      /\ \A k \in 1 .. Len(r) : k # low - 1 => second[k] = first[k]
  BY <1>1, <1>2, <1>3, SetProperties
<1> HIDE DEF second
<1>5. Len(r) \in Nat
  BY SeqFacts
<1>6. WriteFieldMeta(r, base, id, offset) = IF IsTiny(id) THEN first ELSE second
  BY DEF WriteFieldMeta, low, first, second
<1>7. CASE IsTiny(id)
  BY <1>1, <1>3, <1>5, <1>6, <1>7
<1>8. CASE ~IsTiny(id)
  BY <1>1, <1>3, <1>4, <1>5, <1>6, <1>8, SMTT(30)
<1> QED
  BY <1>7, <1>8

-----------------------------------------------------------------------------
Table == [is : {"meta"}, off : Nat, maxId : Nat, hint : Int]
FieldEntry == [is : {"field"}, off : Nat, id : Nat \ {0}, scalar : BOOLEAN]

InlineArray == [open : {TRUE}, before : Nat, size : Int, made : Seq(Int)]

-----------------------------------------------------------------------------
(* The open message and the words it has on the stack, kind by kind; what  *)
(* its fields hold does not matter here.                                   *)

FixedOpen ==
  /\ msg \in [is : {"fixed"}, start : Nat, loc : Nat, tainted : BOOLEAN, fields : {msg.fields}]
  /\ msg.loc = msg.start + MaxField
  /\ Size = msg.loc /\ Checked(msg.loc)

(* The first field reserves the block: the typed limit is at End, every    *)
(* field of a lower id below it.  Base is End unless an earlier attempt    *)
(* has thrown and left words behind.                                       *)
FlatRecord(fields) ==
  [is : {"flat"}, explicit : BOOLEAN, sized : BOOLEAN, start : Nat, end : Nat, base : Nat,
   maxId : Nat, prev : Nat, need : BOOLEAN, tainted : BOOLEAN, fields : {fields}]

(* How far up its block and the presence bits reach.                       *)
FlatTop(m) == m.base + IF m.explicit THEN m.maxId - 1 ELSE 0

FlatMessage(m, size) ==
  /\ m \in FlatRecord(m.fields)
  /\ m.start <= size
  /\ m.maxId = 0 /\ ~m.tainted => size = m.start
  /\ m.maxId # 0 =>
       /\ m.maxId >= 2 /\ m.prev <= m.maxId - 2
       /\ m.end = m.start + m.maxId /\ Checked(m.end)
       /\ m.end <= m.base /\ (~m.tainted => m.base = m.end)
       /\ size = FlatTop(m)

FlatOpen == FlatMessage(msg, Size)

(* Its fields are on the left stack, unless they were popped before the    *)
(* check of the metadata's offset has thrown: by then the stack is beyond  *)
(* every offset.                                                           *)
SparseRecord(fields) ==
  [is : {"sparse"}, explicit : BOOLEAN, start : Nat, base : Nat, added : Nat, maxId : Nat,
   prev : Nat, tainted : BOOLEAN, fields : {fields}]

SparseOpen ==
  /\ msg \in SparseRecord(msg.fields)
  /\ msg.start <= Size
  /\ msg.maxId = 0 => msg.added = 0
  /\ msg.maxId # 0 => msg.maxId >= 2
  /\ \/ Len(left) = msg.base + msg.added
     \/ Len(left) = msg.base /\ msg.tainted /\ ~Checked(Size)

(* The fields accounted for, the typed limit at Base, and the metadata.    *)
PreallocatedRecord(fields) ==
  [is : {"preallocated"}, explicit : BOOLEAN, start : Nat, end : Nat, base : Nat, maxId : Nat,
   prev : Nat, prevOffset : Int, accounted : SUBSET Field, tainted : BOOLEAN,
   fields : {fields}]

PreallocatedOpen ==
  /\ msg \in PreallocatedRecord(msg.fields)
  /\ msg.end = msg.base
  /\ msg.base = 0 => msg.maxId = 0 /\ Size = msg.start
  /\ msg.base # 0 =>
       /\ msg.base = msg.start + Cardinality(msg.accounted) + 1 /\ Checked(msg.base)
       /\ msg.prevOffset <= Cardinality(msg.accounted) + 1
       /\ msg.maxId # 0 => msg.maxId >= 2
       /\ Size = msg.base + IF msg.maxId = 0 THEN 0 ELSE MetaSize(msg.maxId) + 1

(* Exactly one of them, a message whose constructor has thrown, or none.   *)
MessageInv ==
  \/ msg \in {None, Valueless}
  \/ FixedOpen
  \/ FlatOpen
  \/ SparseOpen
  \/ PreallocatedOpen

-----------------------------------------------------------------------------
(* The tables below the fields of an open sparse message.                  *)
TablesHeld == IF msg.is = "sparse" THEN msg.base ELSE Len(left)

LeftInv ==
  /\ left \in Seq(Table \cup FieldEntry)
  /\ \A i \in DOMAIN left :
       IF i <= TablesHeld
         THEN /\ left[i] \in Table /\ left[i].maxId >= 2
              /\ left[i].off \in MetaSize(left[i].maxId) .. Floor
         ELSE left[i] \in FieldEntry /\ left[i].off \in msg.start + 1 .. Size

(* Depth_ counts the open array and the open message at least.             *)
NestingInv ==
  /\ (IF inline.open THEN 1 ELSE 0) + (IF msg = None THEN 0 ELSE 1) <= depth
  /\ finished => depth = 0

(* What is pooled or promised lies below the open message.                 *)
PoolInv ==
  \A e \in pool : e.off \in 0 .. Floor /\ Checked(e.off) /\ e.size \in 1 .. e.off

ObjectsInv ==
  \A x \in objects : x.off \in 1 .. MaxOffset /\ x.off <= Floor /\ x.kind \in Kinds

(* The first word of a finished buffer is the distance to its root.        *)
RootInv ==
  /\ ~finished => root = 0
  /\ root # 0 => /\ Size > 0 /\ right[Size] = Size - root
                 /\ ~BadCalls => \E x \in objects : x.off = root

ScalarsInv ==
  /\ right \in Seq(Int)
  /\ depth \in Nat /\ inline \in {Closed} \cup InlineArray
  /\ finished \in BOOLEAN /\ forced \in Modes /\ root \in Nat

IInv ==
  /\ ScalarsInv /\ MessageInv /\ LeftInv /\ NestingInv
  /\ PoolInv /\ ObjectsInv /\ RootInv

-----------------------------------------------------------------------------
(* What every step but Emptied does to the words below the open message.   *)
Kept ==
  /\ right' \in Seq(Int) /\ Floor <= Size'
  /\ \A k \in 1 .. Floor : right'[k] = right[k]

(* The kind of the open message tells which conjunction holds.             *)
LEMMA MessageKinds ==
  ASSUME MessageInv
  PROVE  /\ msg.is \in {"none", "valueless", "fixed", "flat", "sparse", "preallocated"}
         /\ msg.is = "none" <=> msg = None
         /\ msg.is = "valueless" => msg = Valueless
         /\ msg.is = "fixed" => FixedOpen
         /\ msg.is = "flat" => FlatOpen
         /\ msg.is = "sparse" => SparseOpen
         /\ msg.is = "preallocated" => PreallocatedOpen
<1>1. CASE msg \in {None, Valueless}
  BY <1>1 DEF None, Valueless
<1>2. CASE FixedOpen
  <2>1. msg.is = "fixed"
    BY <1>2 DEF FixedOpen
  <2> QED
    BY <1>2, <2>1 DEF None
<1>3. CASE FlatOpen
  <2>1. msg.is = "flat"
    BY <1>3 DEF FlatOpen, FlatMessage, FlatRecord, FlatTop
  <2> QED
    BY <1>3, <2>1 DEF None
<1>4. CASE SparseOpen
  <2>1. msg.is = "sparse"
    BY <1>4 DEF SparseOpen, SparseRecord
  <2> QED
    BY <1>4, <2>1 DEF None
<1>5. CASE PreallocatedOpen
  <2>1. msg.is = "preallocated"
    BY <1>5 DEF PreallocatedOpen, PreallocatedRecord
  <2> QED
    BY <1>5, <2>1 DEF None
<1> QED
  BY <1>1, <1>2, <1>3, <1>4, <1>5 DEF MessageInv

LEMMA FloorCases ==
  /\ msg.is \in {"fixed", "flat", "sparse", "preallocated"} => Floor = msg.start
  /\ msg.is \in {"none", "valueless"} => Floor = Size
  /\ msg'.is \in {"fixed", "flat", "sparse", "preallocated"} => Floor' = msg'.start
  /\ msg'.is \in {"none", "valueless"} => Floor' = Size'
  BY DEF Floor

LEMMA CardinalityFacts ==
  ASSUME NEW ids \in SUBSET Field
  PROVE  /\ Cardinality(ids) \in Nat
         /\ ids # {} => Max(ids) \in Field
<1>1. MaxField \in Nat
  BY WireAssumption
<1>2. IsFiniteSet(Field)
  BY <1>1, FS_Interval DEF Field
<1>3. IsFiniteSet(ids)
  BY <1>2, FS_Subset
<1>4. ids \subseteq 0 .. MaxField
  BY <1>1 DEF Field
<1>5. ids # {} => Max(ids) \in ids
  BY <1>1, <1>4, MaxIsGreatest
<1> QED
  BY <1>3, <1>5, FS_CardinalityType

(* An open message lies on the stack above its floor.                      *)
LEMMA FloorType ==
  ASSUME ScalarsInv, MessageInv
  PROVE  Size \in Nat /\ Floor \in 0 .. Size
<1>1. Size \in Nat
  BY SeqFacts DEF ScalarsInv, Size
<1>2. MaxField \in Nat
  BY WireAssumption
<1>3. CASE msg.is \in {"none", "valueless"}
  BY <1>1, <1>3, FloorCases
<1>4. CASE msg.is = "fixed"
  <2>1. FixedOpen
    BY <1>4, MessageKinds
  <2> QED
    BY <1>1, <1>2, <1>4, <2>1, FloorCases DEF FixedOpen
<1>5. CASE msg.is = "flat"
  <2>1. FlatOpen
    BY <1>5, MessageKinds
  <2> QED
    BY <1>1, <1>5, <2>1, FloorCases DEF FlatOpen, FlatMessage, FlatRecord, FlatTop
<1>6. CASE msg.is = "sparse"
  <2>1. SparseOpen
    BY <1>6, MessageKinds
  <2> QED
    BY <1>1, <1>6, <2>1, FloorCases DEF SparseOpen, SparseRecord
<1>7. CASE msg.is = "preallocated"
  <2>1. PreallocatedOpen
    BY <1>7, MessageKinds
  <2>2. Cardinality(msg.accounted) \in Nat
    BY <2>1, CardinalityFacts DEF PreallocatedOpen, PreallocatedRecord
  <2>3. msg.maxId # 0 /\ msg.base # 0 => MetaSize(msg.maxId) \in Nat
    BY <2>1, MetaSizeProperties DEF PreallocatedOpen, PreallocatedRecord
  <2> QED
    BY <1>1, <1>7, <2>1, <2>2, <2>3, FloorCases DEF PreallocatedOpen, PreallocatedRecord
<1> QED
  BY <1>3, <1>4, <1>5, <1>6, <1>7, MessageKinds

(* Nothing is open in a finished buffer.                                   *)
LEMMA OpenIsUnfinished ==
  ASSUME IInv, msg # None \/ inline.open
  PROVE  ~finished /\ depth > 0
  BY DEF IInv, NestingInv, ScalarsInv, Closed, InlineArray

-----------------------------------------------------------------------------
(* What stays as it is when the words and entries it is about stay.        *)

LEMMA PoolKept ==
  ASSUME PoolInv, Floor \in Nat, Floor' \in Nat, Floor <= Floor', pool' = pool
  PROVE  PoolInv'
  BY DEF PoolInv

LEMMA ObjectsKept ==
  ASSUME ObjectsInv, Floor \in Nat, Floor' \in Nat, Floor <= Floor', objects' = objects
  PROVE  ObjectsInv'
  BY DEF ObjectsInv

LEMMA PromiseKept ==
  ASSUME ObjectsInv, Floor \in Nat, Floor' \in Nat, Floor <= Floor',
         NEW o \in Int, NEW kind, NEW body, Promise(o, kind, body),
         1 <= o, Checked(o), o <= Floor', kind \in Kinds
  PROVE  ObjectsInv'
<1>1. \A x \in objects' : x \in objects \/ (x.off = o /\ x.kind = kind)
  BY DEF Promise
<1>2. o \in 1 .. MaxOffset
  BY SerializerAssumption DEF Checked
<1>3. ASSUME NEW x \in objects'
      PROVE  x.off \in 1 .. MaxOffset /\ x.off <= Floor' /\ x.kind \in Kinds
  BY <1>1, <1>2, <1>3 DEF ObjectsInv
<1>4. Kinds' = Kinds
  BY DEF Kinds
<1> QED
  BY <1>3, <1>4 DEF ObjectsInv

LEMMA LeftKept ==
  ASSUME LeftInv, left' = left, TablesHeld' = TablesHeld,
         Floor \in Nat, Floor' \in Nat, Floor <= Floor',
         msg.is = "sparse" => msg'.start = msg.start /\ Size \in Nat /\ Size' \in Nat /\ Size <= Size',
         msg.is = "sparse" => msg.start \in Nat
  PROVE  LeftInv'
<1>1. DOMAIN left = 1 .. Len(left) /\ Len(left) \in Nat
  BY SeqFacts DEF LeftInv
<1>2. ASSUME NEW i \in DOMAIN left, i <= TablesHeld
      PROVE  /\ left[i] \in Table /\ left[i].maxId >= 2
             /\ left[i].off \in MetaSize(left[i].maxId) .. Floor'
  <2>1. /\ left[i] \in Table /\ left[i].maxId >= 2
        /\ left[i].off \in MetaSize(left[i].maxId) .. Floor
    BY <1>2 DEF LeftInv
  <2>2. MetaSize(left[i].maxId) \in Nat
    BY <2>1, MetaSizeProperties DEF Table
  <2> QED
    BY <2>1, <2>2
<1>3. ASSUME NEW i \in DOMAIN left, ~(i <= TablesHeld)
      PROVE  left[i] \in FieldEntry /\ left[i].off \in msg'.start + 1 .. Size'
  <2>1. msg.is = "sparse"
    BY <1>1, <1>3 DEF TablesHeld
  <2>2. left[i] \in FieldEntry /\ left[i].off \in msg.start + 1 .. Size
    BY <1>3 DEF LeftInv
  <2> QED
    BY <2>1, <2>2
<1> QED
  BY <1>2, <1>3 DEF LeftInv

-----------------------------------------------------------------------------
(* What a step has to show when it leaves the rest alone.                  *)
LEMMA StepKeeps ==
  ASSUME IInv, ~finished, Kept,
         MessageInv', LeftInv', NestingInv', PoolInv', ObjectsInv',
         depth' \in Nat, inline' \in {Closed} \cup InlineArray,
         UNCHANGED <<finished, forced, root>>
  PROVE  IInv'
<1>1. ScalarsInv'
  BY DEF IInv, ScalarsInv, Kept, InlineArray, Closed
<1>2. RootInv'
  BY DEF IInv, RootInv
<1> QED
  BY <1>1, <1>2 DEF IInv

(* Without a message, everything on the stack is below the floor.          *)
LEMMA Unnested ==
  ASSUME IInv, NotNested
  PROVE  msg = None /\ ~inline.open /\ inline = Closed /\ Floor = Size /\ depth = 0
<1>1. msg = None /\ ~inline.open /\ depth = 0
  BY DEF IInv, NestingInv, ScalarsInv, NotNested, Closed, InlineArray
<1>2. msg.is = "none"
  BY <1>1 DEF None
<1> QED
  BY <1>1, <1>2, FloorCases DEF IInv, ScalarsInv, InlineArray

(* Steps without a message before or after.                                *)
LEMMA NoMessageKeeps ==
  ASSUME IInv, msg = None, msg' = None, Size <= Size', right' \in Seq(Int),
         \A k \in 1 .. Size : right'[k] = right[k]
  PROVE  /\ Kept /\ MessageInv'
         /\ Floor = Size /\ Floor' = Size' /\ Size \in Nat /\ Size' \in Nat /\ Floor <= Floor'
         /\ pool' = pool => PoolInv'
         /\ objects' = objects => ObjectsInv'
         /\ left' = left => LeftInv'
<1>1. Floor = Size /\ Floor' = Size'
  BY FloorCases DEF None
<1>2. Size \in Nat /\ Size' \in Nat
  BY SeqFacts DEF IInv, ScalarsInv, Size
<1>3. Kept /\ MessageInv'
  BY <1>1 DEF Kept, MessageInv
<1>4. TablesHeld = Len(left) /\ TablesHeld' = Len(left')
  BY DEF TablesHeld, None
<1>5. left' = left => LeftInv'
  <2>1. msg.is # "sparse"
    BY DEF None
  <2> QED
    BY <1>1, <1>2, <1>4, <2>1, LeftKept DEF IInv
<1> QED
  BY <1>1, <1>2, <1>3, <1>5, PoolKept, ObjectsKept DEF IInv

LEMMA NestingClosed ==
  ASSUME NestingInv, UNCHANGED <<msg, depth, inline, finished>>
  PROVE  NestingInv'
  BY DEF NestingInv

LEMMA PushKeeps ==
  ASSUME right \in Seq(Int), NEW block \in Seq(Int), right' = Push(right, block)
  PROVE  /\ right' \in Seq(Int) /\ Size \in Nat /\ Len(block) \in Nat
         /\ Size' = Size + Len(block) /\ Size <= Size'
         /\ \A k \in 1 .. Size : right'[k] = right[k]
<1>1. Size \in Nat /\ Len(block) \in Nat
  BY SeqFacts DEF Size
<1>2. /\ right' \in Seq(Int) /\ Len(right') = Len(right) + Len(block)
      /\ \A k \in 1 .. Len(right) : right'[k] = right[k]
  BY PushProperties
<1> QED
  BY <1>1, <1>2 DEF Size

-----------------------------------------------------------------------------
(* Strings and arrays.                                                     *)

LEMMA DeduplicatedPreserves ==
  ASSUME IInv, NotFinished, NotNested,
         NEW block \in Seq(Int), Len(block) > 0, NEW kind \in Kinds, NEW body,
         Deduplicated(Push(right, block), kind, body),
         UNCHANGED <<left, msg, depth, inline, finished, forced, root>>
  PROVE  IInv' /\ Kept
<1> DEFINE r == Push(right, block)
           size == Len(r) - Size
<1>1. /\ msg = None /\ msg' = None /\ inline' = Closed /\ ~finished /\ depth' = 0
      /\ Floor = Size
  BY Unnested DEF NotFinished
<1>2. right \in Seq(Int) /\ Size \in Nat /\ Len(block) \in Nat
  BY SeqFacts DEF IInv, ScalarsInv, Size
<1>3. /\ r \in Seq(Int) /\ Len(r) = Size + Len(block)
      /\ \A k \in 1 .. Size : r[k] = right[k]
  BY <1>2, PushProperties DEF Size
<1>4. size = Len(block) /\ size \in 0 .. Len(r)
  BY <1>2, <1>3
<1>5. Deduplicated(r, kind, body)
  OBVIOUS
<1> HIDE DEF r
<1>6. /\ right' \in Seq(Int) /\ Size <= Size'
      /\ \A k \in 1 .. Size : right'[k] = right[k]
  <2>1. right' = Pop(r, size) \/ right' = r
    BY <1>5 DEF Deduplicated
  <2>2. /\ Pop(r, size) \in Seq(Int) /\ Len(Pop(r, size)) = Len(r) - size
        /\ \A k \in 1 .. Len(r) - size : Pop(r, size)[k] = r[k]
    BY <1>3, <1>4, PopProperties
  <2>3. Len(r) - size = Size /\ Size <= Len(r)
    BY <1>2, <1>3, <1>4
  <2>4. CASE right' = r
    BY <1>3, <2>3, <2>4 DEF Size
  <2>5. CASE right' = Pop(r, size)
    BY <1>2, <1>3, <2>2, <2>3, <2>5 DEF Size
  <2> QED
    BY <2>1, <2>4, <2>5
<1>7. /\ Kept /\ MessageInv' /\ LeftInv' /\ Floor' = Size' /\ Size' \in Nat
      /\ Floor <= Floor'
      /\ pool' = pool => PoolInv'
      /\ objects' = objects => ObjectsInv'
  BY <1>1, <1>6, NoMessageKeeps
<1>8. PoolInv' /\ ObjectsInv'
  <2>1. CASE UNCHANGED <<pool, objects>>
    BY <1>7, <2>1
  <2>2. ASSUME NEW e \in Twins(r, size), Promise(e.off, kind, body), UNCHANGED pool
        PROVE  PoolInv' /\ ObjectsInv'
    <3>1. e \in pool /\ e.size = size
      BY <2>2 DEF Twins
    <3>2. e.off \in 0 .. Floor /\ Checked(e.off) /\ size \in 1 .. e.off
      BY <3>1 DEF IInv, PoolInv
    <3> QED
      BY <1>1, <1>2, <1>7, <2>2, <3>2, PromiseKept DEF IInv
  <2>3. ASSUME Checked(Len(r)), right' = r,
               pool' = pool \cup {[off |-> Len(r), size |-> size]},
               Promise(Len(r), kind, body)
        PROVE  PoolInv' /\ ObjectsInv'
    <3>1. Floor' = Len(r) /\ Len(r) \in Nat /\ size \in 1 .. Len(r)
      BY <1>2, <1>3, <1>4, <1>7, <2>3 DEF Size
    <3>2. ObjectsInv'
      BY <1>1, <1>2, <1>7, <2>3, <3>1, PromiseKept DEF IInv
    <3>3. ASSUME NEW e \in pool' 
          PROVE  e.off \in 0 .. Floor' /\ Checked(e.off) /\ e.size \in 1 .. e.off
      <4>1. CASE e \in pool
        BY <1>1, <1>2, <1>7, <4>1 DEF IInv, PoolInv
      <4>2. CASE e = [off |-> Len(r), size |-> size]
        BY <2>3, <3>1, <4>2
      <4> QED
        BY <2>3, <3>3, <4>1, <4>2
    <3> QED
      BY <3>2, <3>3 DEF PoolInv
  <2> QED
    BY <1>5, <2>1, <2>2, <2>3 DEF Deduplicated
<1>9. NestingInv'
  BY NestingClosed DEF IInv
<1> QED
  BY <1>1, <1>7, <1>8, <1>9, StepKeeps

LEMMA RefInputsType ==
  ASSUME ObjectsInv
  PROVE  \A o \in RefInputs : o \in Nat
  BY SerializerAssumption DEF ObjectsInv, RefInputs

LEMMA ScalarSeqs ==
  ASSUME NEW s \in Seq(Scalar)
  PROVE  s \in Seq(Int)
  BY SeqFacts DEF Scalar

LEMMA SerializeStringPreserves ==
  ASSUME IInv, NEW s \in Strings, SerializeString(s)
  PROVE  IInv' /\ Kept
<1> DEFINE block == <<Len(s)>> \o s \o <<0>>
<1>1. s \in Seq(Int) /\ Len(s) \in Nat
  BY SerializerAssumption, ScalarSeqs, SeqFacts
<1>2. block \in Seq(Int) /\ Len(block) > 0
  <2>1. <<Len(s)>> \in Seq(Int) /\ Len(<<Len(s)>>) = 1 /\ <<0>> \in Seq(Int) /\ Len(<<0>>) = 1
    BY <1>1
  <2>2. <<Len(s)>> \o s \in Seq(Int) /\ Len(<<Len(s)>> \o s) = 1 + Len(s)
    BY <1>1, <2>1, ConcatFacts
  <2> QED
    BY <1>1, <2>1, <2>2, ConcatFacts
<1>3. /\ NotFinished /\ NotNested /\ "string" \in Kinds
      /\ Deduplicated(Push(right, block), "string", s)
      /\ UNCHANGED <<left, msg, depth, inline, finished, forced, root>>
  BY DEF SerializeString, Kinds
<1> HIDE DEF block
<1> QED
  BY <1>2, <1>3, DeduplicatedPreserves

LEMMA SerializeArrayPreserves ==
  ASSUME IInv, NEW v \in Vectors, SerializeArray(v)
  PROVE  IInv' /\ Kept
<1> DEFINE block == <<Len(v)>> \o v
<1>1. v \in Seq(Int) /\ Len(v) \in Nat
  BY SerializerAssumption, ScalarSeqs, SeqFacts
<1>2. block \in Seq(Int) /\ Len(block) > 0
  <2>1. <<Len(v)>> \in Seq(Int) /\ Len(<<Len(v)>>) = 1
    BY <1>1
  <2> QED
    BY <1>1, <2>1, ConcatFacts
<1>3. /\ NotFinished /\ NotNested /\ "scalars" \in Kinds
      /\ Deduplicated(Push(right, block), "scalars", v)
      /\ UNCHANGED <<left, msg, depth, inline, finished, forced, root>>
  BY DEF SerializeArray, Kinds
<1> HIDE DEF block
<1> QED
  BY <1>2, <1>3, DeduplicatedPreserves

(* The words of an array of offsets, and those of a refused one.           *)
LEMMA SerializeOffsetsPreserves ==
  ASSUME IInv, NEW n \in RefLists, NEW list \in [1 .. n -> RefInputs], SerializeOffsets(list)
  PROVE  IInv' /\ Kept
<1> DEFINE end == Size + Len(list) + 1
           first == end - 1
           words == [i \in DOMAIN list |-> IF list[i] = 0 THEN 0 ELSE first - list[i]]
           block == <<Len(list)>> \o words
<1>1. n \in Nat \ {0} /\ Len(list) = n /\ DOMAIN list = 1 .. n
  BY SerializerAssumption
<1>2. \A i \in 1 .. n : list[i] \in Nat
  BY RefInputsType DEF IInv
<1>3. /\ msg = None /\ msg' = None /\ inline' = Closed /\ inline = Closed /\ ~finished
      /\ depth = 0
  BY Unnested DEF SerializeOffsets, NotFinished
<1>4. right \in Seq(Int) /\ Size \in Nat
  BY SeqFacts DEF IInv, ScalarsInv, Size
<1>5. words \in Seq(Int) /\ Len(words) = n
  BY <1>1, <1>2, <1>4
<1>6. block \in Seq(Int) /\ Len(block) = n + 1
  <2>1. <<Len(list)>> \in Seq(Int) /\ Len(<<Len(list)>>) = 1
    BY <1>1
  <2> HIDE DEF words
  <2> QED
    BY <1>1, <1>5, <2>1, ConcatFacts
<1>7. Junks(Len(list) + 1) \in Seq(Int) /\ Len(Junks(Len(list) + 1)) = n + 1
  BY <1>1, JunksProperties
<1>8. \/ right' = right /\ depth' = depth + 1 /\ objects' = objects
      \/ right' = Push(right, Junks(Len(list) + 1)) /\ depth' = depth + 1 /\ objects' = objects
      \/ Checked(end) /\ right' = Push(right, block) /\ Promise(end, "refs", list) /\ depth' = depth
  BY DEF SerializeOffsets
<1>9. UNCHANGED <<left, pool, finished, forced, root>>
  BY DEF SerializeOffsets
<1> HIDE DEF words, block
<1>10. /\ right' \in Seq(Int) /\ Size <= Size'
       /\ \A k \in 1 .. Size : right'[k] = right[k]
       /\ right' = Push(right, block) => Size' = end
  <2>1. Len(Push(right, block)) = end
    <3>1. Len(Push(right, block)) = Len(right) + Len(block)
      BY <1>4, <1>6, PushProperties
    <3> QED
      BY <1>1, <1>4, <1>6, <3>1 DEF Size
  <2>2. CASE right' = right
    BY <1>4, <2>1, <2>2 DEF Size
  <2>3. CASE right' = Push(right, Junks(Len(list) + 1))
    BY <1>1, <1>4, <1>7, <2>1, <2>3, PushKeeps DEF Size
  <2>4. CASE right' = Push(right, block)
    BY <1>1, <1>4, <1>6, <2>1, <2>4, PushKeeps DEF Size
  <2> QED
    BY <1>8, <2>2, <2>3, <2>4
<1>11. /\ Kept /\ MessageInv' /\ LeftInv' /\ PoolInv'
       /\ Floor' = Size' /\ Size' \in Nat /\ Floor = Size /\ Floor <= Floor'
       /\ objects' = objects => ObjectsInv'
  BY <1>3, <1>9, <1>10, NoMessageKeeps
<1>12. ObjectsInv'
  <2>1. CASE objects' = objects
    BY <1>11, <2>1
  <2>2. CASE Checked(end) /\ right' = Push(right, block) /\ Promise(end, "refs", list)
    <3>1. end \in Nat /\ 1 <= end /\ end <= Floor' /\ "refs" \in Kinds
      BY <1>1, <1>4, <1>10, <1>11, <2>2 DEF Kinds
    <3> HIDE DEF end
    <3> QED
      BY <1>4, <1>11, <2>2, <3>1, PromiseKept DEF IInv
  <2> QED
    BY <1>8, <2>1, <2>2
<1>13. depth' \in Nat /\ NestingInv'
  <2>1. depth' \in {0, 1}
    BY <1>3, <1>8
  <2> QED
    BY <1>3, <1>9, <2>1 DEF NestingInv, Closed
<1> QED
  BY <1>3, <1>9, <1>11, <1>12, <1>13, StepKeeps

-----------------------------------------------------------------------------
(* Arrays of inline elements.                                              *)

LEMMA StartInlinePreserves ==
  ASSUME IInv, StartInline
  PROVE  IInv' /\ Kept
<1>1. msg = None /\ msg' = None /\ ~finished /\ depth = 0
  BY Unnested DEF StartInline, NotFinished
<1>2. /\ right' = right /\ UNCHANGED <<left, pool, finished, forced, objects, root>>
      /\ depth' = 1
      /\ inline' = [open |-> TRUE, before |-> Size, size |-> 0, made |-> <<>>]
  BY <1>1 DEF StartInline
<1>3. right \in Seq(Int) /\ Size \in Nat
  BY SeqFacts DEF IInv, ScalarsInv, Size
<1>4. Kept /\ MessageInv' /\ LeftInv' /\ PoolInv' /\ ObjectsInv'
  BY <1>1, <1>2, <1>3, NoMessageKeeps DEF Size
<1>5. inline' \in InlineArray
  BY <1>2, <1>3 DEF InlineArray
<1>6. NestingInv'
  BY <1>1, <1>2 DEF NestingInv
<1> QED
  BY <1>1, <1>2, <1>4, <1>5, <1>6, StepKeeps

LEMMA InlineArrayUpdated ==
  ASSUME NEW array \in InlineArray, NEW before \in Nat, NEW size \in Int, NEW made \in Seq(Int)
  PROVE  [array EXCEPT !.before = before, !.size = size, !.made = made] \in InlineArray
  BY DEF InlineArray

LEMMA NextElementPreserves ==
  ASSUME IInv, NextElement
  PROVE  IInv' /\ Kept
<1>1. msg = None /\ msg' = None /\ inline.open /\ ~finished
  BY OpenIsUnfinished DEF NextElement
<1>2. /\ right' = right /\ UNCHANGED <<left, depth, pool, finished, forced, objects, root>>
      /\ inline' = [inline EXCEPT !.before = Size, !.size = Size - inline.before,
                                  !.made = Append(inline.made, Size)]
  BY DEF NextElement
<1>3. right \in Seq(Int) /\ Size \in Nat
  BY SeqFacts DEF IInv, ScalarsInv, Size
<1>4. Kept /\ MessageInv' /\ LeftInv' /\ PoolInv' /\ ObjectsInv'
  BY <1>1, <1>2, <1>3, NoMessageKeeps DEF Size
<1>5. inline \in InlineArray
  BY <1>1 DEF IInv, ScalarsInv, Closed
<1>6. inline' \in InlineArray
  <2>1. inline.made \in Seq(Int) /\ inline.before \in Nat
    BY <1>5 DEF InlineArray
  <2>2. Append(inline.made, Size) \in Seq(Int) /\ Size - inline.before \in Int
    BY <1>3, <2>1
  <2> QED
    BY <1>2, <1>3, <1>5, <2>2, InlineArrayUpdated
<1>7. NestingInv' /\ depth' \in Nat
  BY <1>1, <1>2, <1>5, <1>6 DEF IInv, NestingInv, ScalarsInv, InlineArray
<1> QED
  BY <1>1, <1>2, <1>4, <1>6, <1>7, StepKeeps

LEMMA LastElementPreserves ==
  ASSUME IInv, LastElement
  PROVE  IInv' /\ Kept
<1> DEFINE made == Append(inline.made, Size)
<1>1. /\ msg = None /\ msg' = None /\ inline.open /\ ~finished
      /\ depth \in Nat /\ depth > 0 /\ depth' = depth - 1
  BY OpenIsUnfinished DEF LastElement, IInv, ScalarsInv
<1>2. /\ right' = Push(right, <<Len(made)>>) /\ inline' = Closed
      /\ UNCHANGED <<left, pool, finished, forced, root>>
      /\ IF Checked(Size + 1) THEN Promise(Size + 1, "inline", Reverse(made))
                              ELSE UNCHANGED objects
  BY DEF LastElement
<1>3. right \in Seq(Int) /\ inline \in InlineArray /\ Size \in Nat
  BY <1>1, SeqFacts DEF IInv, ScalarsInv, Closed, Size
<1>4. <<Len(made)>> \in Seq(Int) /\ Len(<<Len(made)>>) = 1
  <2>1. Len(made) \in Nat
    BY <1>3 DEF InlineArray
  <2> QED
    BY <2>1
<1> HIDE DEF made
<1>5. /\ right' \in Seq(Int) /\ Size' = Size + 1
      /\ \A k \in 1 .. Size : right'[k] = right[k]
  BY <1>2, <1>3, <1>4, PushKeeps
<1>6. /\ Kept /\ MessageInv' /\ LeftInv' /\ PoolInv'
      /\ Floor = Size /\ Floor' = Size' /\ Floor <= Floor'
      /\ objects' = objects => ObjectsInv'
  BY <1>1, <1>2, <1>3, <1>5, NoMessageKeeps
<1>7. ObjectsInv'
  <2>1. CASE Checked(Size + 1) /\ Promise(Size + 1, "inline", Reverse(made))
    <3>1. Size + 1 \in Nat /\ 1 <= Size + 1 /\ Size + 1 <= Floor' /\ "inline" \in Kinds
      BY <1>3, <1>5, <1>6 DEF Kinds
    <3> QED
      BY <1>3, <1>5, <1>6, <2>1, <3>1, PromiseKept DEF IInv
  <2>2. CASE objects' = objects
    BY <1>6, <2>2
  <2> QED
    BY <1>2, <2>1, <2>2
<1>8. NestingInv' /\ depth' \in Nat
  BY <1>1, <1>2 DEF IInv, NestingInv, Closed
<1> QED
  BY <1>1, <1>2, <1>6, <1>7, <1>8, StepKeeps

(* The only step that closes something while a message stays open.         *)
LEMMA AbandonInlinePreserves ==
  ASSUME IInv, AbandonInline
  PROVE  IInv' /\ Kept
<1>1. inline.open /\ ~finished
  BY OpenIsUnfinished DEF AbandonInline
<1>2. /\ inline' = Closed
      /\ UNCHANGED <<right, left, msg, depth, pool, finished, forced, objects, root>>
  BY DEF AbandonInline
<1>3. Size \in Nat /\ Floor \in 0 .. Size
  BY FloorType DEF IInv
<1>4. Size' = Size /\ Floor' = Floor /\ TablesHeld' = TablesHeld
  BY <1>2 DEF Size, Floor, TablesHeld
<1>5. Kept
  BY <1>2, <1>3, <1>4 DEF Kept, IInv, ScalarsInv
<1>6. MessageInv'
  BY <1>2 DEF IInv, MessageInv, FixedOpen, FlatOpen, FlatMessage, FlatRecord, FlatTop, SparseOpen, PreallocatedOpen,
              Size, Checked
<1>7. LeftInv' /\ PoolInv' /\ ObjectsInv'
  BY <1>2, <1>4 DEF IInv, LeftInv, PoolInv, ObjectsInv
<1>8. NestingInv' /\ depth' \in Nat
  BY <1>2 DEF IInv, NestingInv, ScalarsInv, Closed
<1> QED
  BY <1>1, <1>2, <1>5, <1>6, <1>7, <1>8, StepKeeps

-----------------------------------------------------------------------------
(* What opening a message, writing to it and closing it have in common.    *)

LEMMA OpenKeeps ==
  ASSUME IInv, NotFinished, msg = None, NEW m, Open(m),
         right' \in Seq(Int), \A k \in 1 .. Size : right'[k] = right[k],
         MessageInv', Floor' \in Nat, Size <= Floor', Floor' <= Size', TablesHeld' = Len(left),
         UNCHANGED <<left, inline, pool, finished, forced, objects, root>>
  PROVE  IInv' /\ Kept
<1>1. Floor = Size /\ Size \in Nat /\ TablesHeld = Len(left) /\ msg.is = "none"
  BY FloorType, FloorCases DEF IInv, None, TablesHeld
<1>2. Size' \in Nat
  BY SeqFacts DEF Size
<1>3. Kept
  BY <1>1, <1>2 DEF Kept
<1>4. PoolInv' /\ ObjectsInv'
  BY <1>1, PoolKept, ObjectsKept DEF IInv
<1>5. LeftInv'
  BY <1>1, LeftKept DEF IInv
<1>6. depth' = depth + 1 /\ depth \in Nat
  BY DEF Open, IInv, ScalarsInv
<1>7. NestingInv' /\ depth' \in Nat
  BY <1>1, <1>6 DEF IInv, NestingInv, ScalarsInv, NotFinished
<1> QED
  BY <1>3, <1>4, <1>5, <1>7, StepKeeps DEF IInv, ScalarsInv, NotFinished

OpenKinds == {"fixed", "flat", "sparse", "preallocated"}

LEMMA WriteKeeps ==
  ASSUME IInv, msg.is \in OpenKinds, msg'.is = msg.is, msg'.start = msg.start,
         right' \in Seq(Int), msg.start <= Size',
         \A k \in 1 .. msg.start : right'[k] = right[k],
         MessageInv', LeftInv',
         UNCHANGED <<depth, inline, pool, finished, forced, objects, root>>
  PROVE  IInv' /\ Kept
<1>1. Floor = msg.start /\ Floor' = msg.start /\ Floor \in Nat
  BY FloorType, FloorCases DEF IInv, OpenKinds
<1>2. Kept
  BY <1>1 DEF Kept
<1>3. PoolInv' /\ ObjectsInv'
  BY <1>1, PoolKept, ObjectsKept DEF IInv
<1>4. msg # None /\ msg' # None
  BY DEF None, OpenKinds
<1>5. NestingInv' /\ depth' \in Nat
  BY <1>4 DEF IInv, NestingInv, ScalarsInv
<1> QED
  BY <1>2, <1>3, <1>4, <1>5, StepKeeps, OpenIsUnfinished DEF IInv, ScalarsInv

LEMMA CloseKeeps ==
  ASSUME IInv, msg.is \in OpenKinds,
         NEW o \in Int, NEW kind \in Kinds, Close(o, kind), 1 <= o, Checked(o), o <= Size',
         right' \in Seq(Int), msg.start <= Size',
         \A k \in 1 .. msg.start : right'[k] = right[k],
         LeftInv',
         UNCHANGED <<inline, pool, finished, forced, root>>
  PROVE  IInv' /\ Kept
<1>1. Floor = msg.start /\ Floor \in Nat
  BY FloorType, FloorCases DEF IInv, OpenKinds
<1>2. msg' = None /\ depth' = depth - 1 /\ (objects' = objects \/ Promise(o, kind, msg.fields))
  BY DEF Close
<1>3. Floor' = Size' /\ Size' \in Nat
  BY <1>2, SeqFacts, FloorCases DEF None, Size
<1>4. Kept /\ MessageInv'
  BY <1>1, <1>2 DEF Kept, MessageInv
<1>5. PoolInv'
  BY <1>1, <1>3, PoolKept DEF IInv
<1>6. ObjectsInv'
  BY <1>1, <1>2, <1>3, PromiseKept, ObjectsKept DEF IInv
<1>7. msg # None
  BY DEF None, OpenKinds
<1>8. NestingInv' /\ depth' \in Nat
  BY <1>2, <1>7, OpenIsUnfinished DEF IInv, NestingInv, ScalarsInv
<1> QED
  BY <1>4, <1>5, <1>6, <1>7, <1>8, StepKeeps, OpenIsUnfinished DEF IInv, ScalarsInv

(* Only sparse messages leave entries above the tables.                    *)
LEMMA OtherTablesKept ==
  ASSUME IInv, msg.is # "sparse", msg'.is # "sparse", left' = left,
         Floor' \in Nat, Floor <= Floor'
  PROVE  LeftInv'
<1>1. TablesHeld = Len(left) /\ TablesHeld' = Len(left)
  BY DEF TablesHeld
<1> QED
  BY <1>1, FloorType, LeftKept DEF IInv

-----------------------------------------------------------------------------
(* FixedMessageSerializer.                                                 *)

LEMMA StartFixedPreserves ==
  ASSUME IInv, StartFixed(MaxField)
  PROVE  IInv' /\ Kept
<1> DEFINE end == Size + MaxField
           opened == [is |-> "fixed", start |-> Size, loc |-> end,
                      tainted |-> FALSE, fields |-> <<>>]
<1>1. MaxField \in Nat /\ Zeros(MaxField) \in Seq(Int) /\ Len(Zeros(MaxField)) = MaxField
  BY WireAssumption, ZerosProperties
<1>2. /\ NotFinished /\ msg = None
      /\ right' = Push(right, Zeros(MaxField))
      /\ Open(IF Checked(end) THEN opened ELSE Valueless)
      /\ UNCHANGED <<left, inline, pool, finished, forced, objects, root>>
  BY DEF StartFixed
<1>3. /\ right' \in Seq(Int) /\ Size \in Nat /\ Size' = end
      /\ \A k \in 1 .. Size : right'[k] = right[k]
  BY <1>1, <1>2, PushKeeps DEF IInv, ScalarsInv
<1> HIDE DEF end
<1>4. end \in Nat /\ end = Size + MaxField
  BY <1>1, <1>3 DEF end
<1>5. CASE Checked(end)
  <2>1. msg' = opened /\ Open(opened)
    BY <1>2, <1>5 DEF Open
  <2>2. FixedOpen'
    BY <1>3, <1>4, <1>5, <2>1 DEF FixedOpen, Checked
  <2>3. Floor' = Size /\ TablesHeld' = Len(left)
    BY <1>2, <2>1, FloorCases DEF TablesHeld
  <2>4. MessageInv' /\ Floor' \in Nat /\ Size <= Floor' /\ Floor' <= Size'
    BY <1>1, <1>3, <1>4, <2>2, <2>3 DEF MessageInv
  <2> HIDE DEF opened
  <2> QED
    BY <1>2, <1>3, <2>1, <2>3, <2>4, OpenKeeps
<1>6. CASE ~Checked(end)
  <2>1. msg' = Valueless /\ Open(Valueless)
    BY <1>2, <1>6 DEF Open
  <2>2. Floor' = Size' /\ TablesHeld' = Len(left)
    BY <1>2, <2>1, FloorCases DEF TablesHeld, Valueless
  <2> QED
    BY <1>1, <1>2, <1>3, <1>4, <2>1, <2>2, OpenKeeps DEF MessageInv
<1> QED
  BY <1>5, <1>6

LEMMA AddFixedPreserves ==
  ASSUME IInv, NEW id \in Field, NEW v, NEW word \in Int, AddFixed(id, v, word)
  PROVE  IInv' /\ Kept
<1> DEFINE place == msg.loc - FlatOffset(id)
<1>1. /\ msg.is = "fixed" /\ right' = [right EXCEPT ![place] = word]
      /\ msg' = [msg EXCEPT !.fields = Added(id, v)]
      /\ UNCHANGED <<left, depth, inline, pool, finished, forced, objects, root>>
  BY DEF AddFixed
<1>2. FixedOpen /\ right \in Seq(Int)
  BY <1>1, MessageKinds DEF IInv, ScalarsInv
<1>3. MaxField \in Nat /\ id \in 1 .. MaxField
  BY WireAssumption DEF Field
<1>4. place \in Int /\ msg.start < place /\ Size \in Nat /\ msg.start \in Nat /\ msg.start <= Size
  BY <1>2, <1>3 DEF FixedOpen, FlatOffset
<1> HIDE DEF place
<1>5. /\ right' \in Seq(Int) /\ Size' = Size
      /\ \A k \in 1 .. msg.start : right'[k] = right[k]
  BY <1>1, <1>2, <1>4, SetProperties, SMTT(30) DEF Size
<1>6. FixedOpen' /\ msg'.is = "fixed" /\ msg'.start = msg.start
  BY <1>1, <1>2, <1>5 DEF FixedOpen, Checked
<1>7. Floor' = Floor /\ Floor \in Nat
  BY <1>1, <1>4, <1>6, FloorCases
<1>8. LeftInv'
  BY <1>1, <1>6, <1>7, OtherTablesKept
<1> QED
  BY <1>1, <1>4, <1>5, <1>6, <1>8, WriteKeeps DEF OpenKinds, MessageInv

LEMMA FinishFixedPreserves ==
  ASSUME IInv, FinishFixed
  PROVE  IInv' /\ Kept
<1>1. /\ msg.is = "fixed" /\ Close(msg.loc, "fixed") /\ msg' = None
      /\ UNCHANGED <<right, left, inline, pool, finished, forced, root>>
  BY DEF FinishFixed, Close
<1>2. FixedOpen /\ right \in Seq(Int)
  BY <1>1, MessageKinds DEF IInv, ScalarsInv
<1>3. MaxField \in Nat \ {0}
  BY WireAssumption
<1>4. /\ msg.loc \in Int /\ 1 <= msg.loc /\ Checked(msg.loc) /\ msg.loc <= Size'
      /\ msg.start \in Nat /\ msg.start <= Size' /\ Size' \in Nat
  BY <1>1, <1>2, <1>3 DEF FixedOpen, Size
<1>5. Floor = msg.start /\ Floor' = Size'
  BY <1>1, FloorCases DEF None
<1>6. LeftInv'
  BY <1>1, <1>4, <1>5, OtherTablesKept DEF None
<1> QED
  BY <1>1, <1>2, <1>4, <1>6, CloseKeeps DEF OpenKinds, Kinds

-----------------------------------------------------------------------------
(* FlatMessageSerializer.                                                  *)

LEMMA SmallMod ==
  ASSUME NEW n \in Nat, NEW m \in Nat, n < m
  PROVE  n % m = n
  OBVIOUS

(* Without a truncation, a flat message starts at the top of the stack.    *)
LEMMA StartIsSize ==
  ASSUME right \in Seq(Int), Size < OffsetMod
  PROVE  Size % OffsetMod = Size
<1>1. Size \in Nat /\ OffsetMod \in Nat
  BY SeqFacts, SerializerAssumption DEF Size
<1> QED
  BY <1>1, SmallMod

LEMMA StartFlatPreserves ==
  ASSUME IInv, ~wrapped', NEW explicit \in BOOLEAN, NEW sized \in BOOLEAN,
         StartFlat(explicit, sized)
  PROVE  IInv' /\ Kept
<1> DEFINE opened == [is |-> "flat", explicit |-> explicit, sized |-> sized,
                      start |-> Size, end |-> 0, base |-> 0, maxId |-> 0, prev |-> 0,
                      need |-> FALSE, tainted |-> FALSE, fields |-> <<>>]
<1>0. Size % OffsetMod = Size
  <2>1. Size \in Nat /\ OffsetMod \in Nat /\ ~(Size >= OffsetMod)
    BY SeqFacts, SerializerAssumption DEF StartFlat, IInv, ScalarsInv, Size
  <2> QED
    BY <2>1, StartIsSize DEF IInv, ScalarsInv
<1>1. /\ NotFinished /\ msg = None /\ Open(opened) /\ msg' = opened
      /\ UNCHANGED <<right, left, inline, pool, finished, forced, objects, root>>
  BY <1>0, Unnested DEF StartFlat, Open
<1>2. right' \in Seq(Int) /\ Size \in Nat /\ Size' = Size
  BY <1>1, SeqFacts DEF IInv, ScalarsInv, Size
<1>3. FlatOpen'
  BY <1>1, <1>2 DEF FlatOpen, FlatMessage, FlatRecord, FlatTop
<1>4. Floor' = Size /\ TablesHeld' = Len(left)
  BY <1>1, FloorCases DEF TablesHeld
<1> HIDE DEF opened
<1> QED
  BY <1>1, <1>2, <1>3, <1>4, OpenKeeps DEF MessageInv

LEMMA FlatAdvanced ==
  ASSUME NEW m, NEW size \in Nat, FlatMessage(m, size), m.maxId # 0,
         NEW prev \in Nat, prev <= m.prev,
         NEW n, n = [m EXCEPT !.prev = prev]
  PROVE  /\ FlatMessage(n, size) /\ FlatTop(n) = size
         /\ n.maxId = m.maxId /\ n.base = m.base /\ n.start = m.start /\ n.tainted = m.tainted
<1>1. m \in FlatRecord(m.fields)
  BY DEF FlatMessage
<1>2. /\ n \in FlatRecord(m.fields) /\ n.fields = m.fields
      /\ n.end = m.end /\ n.base = m.base /\ n.maxId = m.maxId /\ n.prev = prev
      /\ n.start = m.start /\ n.tainted = m.tainted /\ n.explicit = m.explicit
      /\ m.maxId \in Nat /\ m.prev \in Nat
  BY <1>1 DEF FlatRecord
<1>3. FlatTop(n) = FlatTop(m)
  BY <1>2 DEF FlatTop
<1> QED
  BY <1>2, <1>3 DEF FlatMessage

(* Initialize, or the message as it was.                                   *)
LEMMA FlatTracked ==
  ASSUME FlatOpen, right \in Seq(Int), NEW id \in Field,
         msg.maxId # 0 => msg.prev >= FlatOffset(id) + 1,
         NEW r, r = IF msg.maxId = 0 THEN FirstBlock(id) ELSE right,
         NEW m, m = IF msg.maxId = 0 THEN Located(id) ELSE [msg EXCEPT !.prev = FlatOffset(id)]
  PROVE  /\ r \in Seq(Int) /\ msg.start <= Len(r) /\ \A k \in 1 .. msg.start : r[k] = right[k]
         /\ msg.maxId # 0 \/ Checked(m.end) => FlatMessage(m, Len(r))
         /\ m.maxId # 0 /\ id <= m.maxId - 1 /\ m.start = msg.start
         /\ m.start + m.maxId <= m.base /\ m.tainted = msg.tainted
         /\ Len(r) = FlatTop(m)
<1> DEFINE extra == IF msg.explicit THEN id ELSE 0
           n == FlatOffset(id) + 2 + extra
<1>1. /\ Size \in Nat /\ msg.explicit \in BOOLEAN /\ FlatMessage(msg, Size)
      /\ msg.start \in Nat /\ msg.start <= Size /\ msg.prev \in Nat
  BY SeqFacts DEF Size, FlatOpen, FlatMessage, FlatRecord
<1>2. id \in Nat /\ 1 <= id /\ FlatOffset(id) = id - 1 /\ extra \in Nat
  BY <1>1, WireAssumption DEF Field, FlatOffset
<1>3. FirstBlock(id) = Push(right, Zeros(n))
  BY DEF FirstBlock
<1> HIDE DEF extra
<1>4. n \in Nat /\ n = id + 1 + extra
  BY <1>2
<1> HIDE DEF n
<1>5. Zeros(n) \in Seq(Int) /\ Len(Zeros(n)) = n
  BY <1>4, ZerosProperties
<1>6. /\ FirstBlock(id) \in Seq(Int) /\ Len(FirstBlock(id)) = Size + n
      /\ \A k \in 1 .. Size : FirstBlock(id)[k] = right[k]
  <2>1. /\ Push(right, Zeros(n)) \in Seq(Int)
        /\ Len(Push(right, Zeros(n))) = Len(right) + Len(Zeros(n))
        /\ \A k \in 1 .. Len(right) : Push(right, Zeros(n))[k] = right[k]
    BY <1>5, PushProperties
  <2> QED
    BY <1>3, <1>5, <2>1 DEF Size
<1>7. CASE msg.maxId = 0
  <2> DEFINE end == msg.start + FlatOffset(id) + 2
             base == Size + FlatOffset(id) + 2
             maxId == id + 1
             prev == FlatOffset(id)
  <2>1. r = FirstBlock(id) /\ m = Located(id)
    BY <1>7
  <2>2. m = [msg EXCEPT !.end = end, !.base = base, !.maxId = maxId, !.prev = prev, !.need = FALSE]
    BY <2>1 DEF Located
  <2>3. /\ end = msg.start + id + 1 /\ base = Size + id + 1 /\ maxId = id + 1 /\ prev = id - 1
        /\ end \in Nat /\ base \in Nat /\ maxId \in Nat /\ prev \in Nat
    BY ONLY <1>1, <1>2
  <2> HIDE DEF end, base, maxId, prev
  <2>4. /\ m \in FlatRecord(msg.fields) /\ m.fields = msg.fields
        /\ m.end = end /\ m.base = base /\ m.maxId = maxId /\ m.prev = prev
        /\ m.start = msg.start /\ m.tainted = msg.tainted /\ m.explicit = msg.explicit
        /\ m.tainted \in BOOLEAN /\ m.explicit \in BOOLEAN
    BY <1>1, <2>2, <2>3, ZenonT(60) DEF FlatMessage, FlatRecord
  <2>5. FlatTop(m) = base + extra /\ FlatTop(m) \in Nat
    BY <1>2, <2>3, <2>4 DEF FlatTop, extra
  <2>6. Len(r) = FlatTop(m)
    BY ONLY <1>1, <1>2, <1>4, <1>6, <2>1, <2>3, <2>5, SMTT(60)
  <2>7. /\ m.start <= FlatTop(m) /\ m.maxId # 0 /\ m.maxId >= 2 /\ m.prev <= m.maxId - 2
        /\ m.end = m.start + m.maxId /\ m.end <= m.base
        /\ id <= m.maxId - 1 /\ m.start + m.maxId <= m.base
    BY ONLY <1>1, <1>2, <2>3, <2>4, <2>5
  <2>8. ~m.tainted => m.base = m.end
    BY <1>1, <1>7, <2>3, <2>4 DEF FlatMessage
  <2>9. Checked(m.end) => FlatMessage(m, Len(r))
    BY <2>4, <2>6, <2>7, <2>8 DEF FlatMessage
  <2>10. r \in Seq(Int) /\ msg.start <= Len(r) /\ \A k \in 1 .. msg.start : r[k] = right[k]
    BY <1>1, <1>4, <1>6, <2>1, SMTT(30)
  <2> QED
    BY <1>7, <2>4, <2>6, <2>7, <2>9, <2>10
<1>8. CASE msg.maxId # 0
  <2>1. r = right /\ m = [msg EXCEPT !.prev = FlatOffset(id)]
    BY <1>8
  <2>2. FlatOffset(id) \in Nat /\ FlatOffset(id) <= msg.prev
    BY <1>1, <1>2, <1>8
  <2>3. /\ FlatMessage(m, Size) /\ FlatTop(m) = Size
        /\ m.maxId = msg.maxId /\ m.base = msg.base /\ m.start = msg.start /\ m.tainted = msg.tainted
    BY <1>1, <1>8, <2>1, <2>2, FlatAdvanced
  <2>4. /\ msg.maxId \in Nat /\ msg.prev <= msg.maxId - 2 /\ msg.start + msg.maxId <= msg.base
    BY <1>1, <1>8 DEF FlatMessage, FlatRecord
  <2> QED
    BY <1>1, <1>2, <1>8, <2>1, <2>3, <2>4 DEF Size
<1> QED
  BY <1>7, <1>8

LEMMA FlatChanged ==
  ASSUME NEW m, NEW size, FlatMessage(m, size), m.maxId # 0
  PROVE  /\ \A need \in BOOLEAN :
              /\ FlatMessage([m EXCEPT !.need = need], size)
              /\ [m EXCEPT !.need = need].maxId # 0
              /\ [m EXCEPT !.need = need].start = m.start
         /\ /\ FlatMessage([m EXCEPT !.tainted = TRUE], size)
            /\ [m EXCEPT !.tainted = TRUE].start = m.start
         /\ \A fields :
              /\ FlatMessage([m EXCEPT !.fields = fields], size)
              /\ [m EXCEPT !.fields = fields].start = m.start
<1>1. m \in FlatRecord(m.fields)
  BY DEF FlatMessage
<1>2. ASSUME NEW need \in BOOLEAN, NEW n, n = [m EXCEPT !.need = need]
      PROVE  FlatMessage(n, size) /\ n.maxId # 0 /\ n.start = m.start
  <2>1. /\ n \in FlatRecord(m.fields) /\ n.fields = m.fields
        /\ n.end = m.end /\ n.base = m.base /\ n.maxId = m.maxId /\ n.prev = m.prev
        /\ n.start = m.start /\ n.tainted = m.tainted /\ n.explicit = m.explicit
    BY ONLY <1>1, <1>2 DEF FlatRecord
  <2> QED
    BY ONLY <2>1, FlatMessage(m, size), m.maxId # 0 DEF FlatMessage, FlatTop
<1>3. ASSUME NEW n, n = [m EXCEPT !.tainted = TRUE]
      PROVE  FlatMessage(n, size) /\ n.start = m.start
  <2>1. /\ n \in FlatRecord(m.fields) /\ n.fields = m.fields
        /\ n.end = m.end /\ n.base = m.base /\ n.maxId = m.maxId /\ n.prev = m.prev
        /\ n.start = m.start /\ n.tainted /\ n.explicit = m.explicit
    BY ONLY <1>1, <1>3 DEF FlatRecord
  <2> QED
    BY ONLY <2>1, FlatMessage(m, size), m.maxId # 0 DEF FlatMessage, FlatTop
<1>4. ASSUME NEW fields, NEW n, n = [m EXCEPT !.fields = fields]
      PROVE  FlatMessage(n, size) /\ n.start = m.start
  <2>1. /\ n \in FlatRecord(fields) /\ n.fields = fields
        /\ n.end = m.end /\ n.base = m.base /\ n.maxId = m.maxId /\ n.prev = m.prev
        /\ n.start = m.start /\ n.tainted = m.tainted /\ n.explicit = m.explicit
    BY ONLY <1>1, <1>4 DEF FlatRecord
  <2> QED
    BY ONLY <2>1, FlatMessage(m, size), m.maxId # 0 DEF FlatMessage, FlatTop
<1> QED
  BY <1>2, <1>3, <1>4

LEMMA SetPresenceProperties ==
  ASSUME NEW r \in Seq(Int), NEW m, NEW id \in Nat \ {0}, m.explicit \in BOOLEAN, m.base \in Nat,
         m.explicit => m.base + id <= Len(r)
  PROVE  /\ SetPresence(r, m, id) \in Seq(Int)
         /\ Len(SetPresence(r, m, id)) = Len(r)
         /\ \A k \in 1 .. Len(r) : k <= m.base => SetPresence(r, m, id)[k] = r[k]
<1> DEFINE i == m.base + id
<1>1. i \in Int /\ i > m.base /\ i \in Nat \ {0} /\ (m.explicit => i <= Len(r))
  OBVIOUS
<1>2. SetPresence(r, m, id) = IF m.explicit /\ r[i] % 2 = 0 THEN [r EXCEPT ![i] = r[i] + 1] ELSE r
  BY DEF SetPresence
<1> HIDE DEF i
<1>3. CASE m.explicit /\ r[i] % 2 = 0
  <2>1. r[i] + 1 \in Int
    <3>1. i \in 1 .. Len(r) /\ \A k \in 1 .. Len(r) : r[k] \in Int
      BY <1>1, <1>3, SeqFacts
    <3> QED
      BY <3>1
  <2> DEFINE w == r[i] + 1
  <2> HIDE DEF w
  <2>2. /\ [r EXCEPT ![i] = w] \in Seq(Int) /\ Len([r EXCEPT ![i] = w]) = Len(r)
        /\ \A k \in 1 .. Len(r) : [r EXCEPT ![i] = w][k] = IF k = i THEN w ELSE r[k]
    BY <1>1, <2>1, SetProperties DEF w
  <2>3. SetPresence(r, m, id) = [r EXCEPT ![i] = w]
    BY <1>2, <1>3 DEF w
  <2> QED
    BY <1>1, <2>2, <2>3
<1>4. CASE ~(m.explicit /\ r[i] % 2 = 0)
  BY <1>2, <1>4
<1> QED
  BY <1>3, <1>4

LEMMA AddFlatPreserves ==
  ASSUME IInv, NEW id \in Field, NEW v \in Int, NEW default \in Int, NEW scalar \in BOOLEAN,
         AddFlat(id, v, default, scalar)
  PROVE  IInv' /\ Kept
<1> DEFINE r == IF msg.maxId = 0 THEN FirstBlock(id) ELSE right
           m == IF msg.maxId = 0 THEN Located(id) ELSE [msg EXCEPT !.prev = FlatOffset(id)]
           equal == scalar /\ v = default
           need == m.need \/ (m.explicit /\ equal)
           tracked == [m EXCEPT !.need = need]
           marked == SetPresence(r, m, id)
           word == IF scalar THEN Xor(v, default) ELSE m.end - v
           place == m.base - 1 - FlatOffset(id)
<1>1. /\ msg.is = "flat" /\ (msg.maxId # 0 => msg.prev >= FlatOffset(id) + 1)
      /\ UNCHANGED <<left, depth, inline, pool, finished, forced, objects, root>>
  BY DEF AddFlat
<1>2. \/ msg.maxId = 0 /\ ~Checked(m.end) /\ right' = r /\ Tainted
      \/ /\ (msg.maxId = 0 => Checked(m.end)) /\ right' = marked
         /\ msg' = [tracked EXCEPT !.tainted = TRUE]
      \/ /\ (msg.maxId = 0 => Checked(m.end)) /\ right' = [marked EXCEPT ![place] = word]
         /\ msg' = [tracked EXCEPT !.fields = Added(id, v)]
  BY DEF AddFlat
<1>3. FlatOpen /\ right \in Seq(Int)
  BY <1>1, MessageKinds DEF IInv, ScalarsInv
<1>4. /\ r \in Seq(Int) /\ msg.start <= Len(r) /\ \A k \in 1 .. msg.start : r[k] = right[k]
      /\ msg.maxId # 0 \/ Checked(m.end) => FlatMessage(m, Len(r))
      /\ m.maxId # 0 /\ id <= m.maxId - 1 /\ m.start = msg.start
      /\ m.start + m.maxId <= m.base /\ m.tainted = msg.tainted
      /\ Len(r) = FlatTop(m)
  BY <1>1, <1>3, FlatTracked
<1>5. msg.start \in Nat /\ FlatMessage(msg, Size) /\ Size \in Nat
  BY <1>3, SeqFacts DEF FlatOpen, FlatMessage, FlatRecord, Size
<1>6. id \in Nat \ {0} /\ FlatOffset(id) = id - 1
  BY WireAssumption DEF Field, FlatOffset
<1> HIDE DEF r, m
<1>7. ASSUME FlatOpen', msg'.start = msg.start, right' \in Seq(Int),
             Len(right') = Len(r), \A k \in 1 .. msg.start : right'[k] = right[k]
      PROVE  IInv' /\ Kept
  <2>1. msg'.is = "flat"
    BY <1>7 DEF FlatOpen, FlatMessage, FlatRecord
  <2>2. Floor = msg.start /\ Floor' = msg.start
    BY <1>1, <1>7, <2>1, FloorCases
  <2>3. LeftInv'
    BY <1>1, <1>5, <2>1, <2>2, OtherTablesKept
  <2>4. msg.start <= Size'
    BY <1>4, <1>7 DEF Size
  <2> QED
    BY <1>1, <1>7, <2>1, <2>3, <2>4, WriteKeeps DEF OpenKinds, MessageInv
<1>8. CASE msg.maxId = 0 /\ ~Checked(m.end) /\ right' = r /\ Tainted
  <2>1. msg' = [msg EXCEPT !.tainted = TRUE] /\ right' = r /\ msg.maxId = 0
    BY <1>8 DEF Tainted
  <2>2. Size' = Len(r)
    BY <2>1 DEF Size
  <2>3. /\ msg' \in FlatRecord(msg.fields) /\ msg'.fields = msg.fields /\ msg'.start = msg.start
        /\ msg'.maxId = 0 /\ msg'.tainted
    BY ONLY <1>5, <2>1 DEF FlatMessage, FlatRecord
  <2>4. FlatOpen'
    BY ONLY <1>4, <2>2, <2>3 DEF FlatOpen, FlatMessage, FlatRecord
  <2> QED
    BY <1>4, <1>7, <2>1, <2>3, <2>4
<1>9. ASSUME msg.maxId = 0 => Checked(m.end), right' = marked \/ right' = [marked EXCEPT ![place] = word],
             msg' = [tracked EXCEPT !.tainted = TRUE] \/ msg' = [tracked EXCEPT !.fields = Added(id, v)]
      PROVE  IInv' /\ Kept
  <2>1. FlatMessage(m, Len(r)) /\ m.maxId # 0
    BY <1>4, <1>9
  <2>2. /\ m.explicit \in BOOLEAN /\ m.need \in BOOLEAN /\ m.base \in Nat /\ m.end \in Nat
        /\ m.start \in Nat /\ m.maxId \in Nat
    BY ONLY <2>1 DEF FlatMessage, FlatRecord
  <2>3. need \in BOOLEAN
    BY <2>2
  <2> HIDE DEF need
  <2>4. FlatMessage(tracked, Len(r)) /\ tracked.maxId # 0 /\ tracked.start = m.start
    BY <2>1, <2>3, FlatChanged
  <2> HIDE DEF tracked
  <2>5. FlatMessage(msg', Len(r)) /\ msg'.start = m.start
    <3>1. /\ FlatMessage([tracked EXCEPT !.tainted = TRUE], Len(r))
          /\ [tracked EXCEPT !.tainted = TRUE].start = tracked.start
          /\ FlatMessage([tracked EXCEPT !.fields = Added(id, v)], Len(r))
          /\ [tracked EXCEPT !.fields = Added(id, v)].start = tracked.start
      BY ONLY <2>4, FlatChanged
    <3> QED
      BY ONLY <1>9, <2>4, <3>1
  <2>6. /\ marked \in Seq(Int) /\ Len(marked) = Len(r)
        /\ \A k \in 1 .. Len(r) : k <= msg.start => marked[k] = r[k]
    <3>1. msg.start <= m.base /\ (m.explicit => m.base + id <= Len(r))
      BY ONLY <1>4, <1>5, <1>6, <2>2, SMTT(30) DEF FlatTop
    <3>2. /\ marked \in Seq(Int) /\ Len(marked) = Len(r)
          /\ \A k \in 1 .. Len(r) : k <= m.base => marked[k] = r[k]
      BY <1>4, <1>6, <2>2, <3>1, SetPresenceProperties
    <3> QED
      BY ONLY <1>4, <1>5, <2>2, <3>1, <3>2, SeqFacts, SMTT(60)
  <2>7. place \in Int /\ place > msg.start
    BY ONLY <1>4, <1>5, <1>6, <2>2, SMTT(30)
  <2>8. word \in Int
    BY <2>2 DEF Xor
  <2> HIDE DEF marked, place, word
  <2>9. /\ [marked EXCEPT ![place] = word] \in Seq(Int)
        /\ Len([marked EXCEPT ![place] = word]) = Len(r)
        /\ \A k \in 1 .. Len(r) : k <= msg.start => [marked EXCEPT ![place] = word][k] = r[k]
    <3>1. /\ [marked EXCEPT ![place] = word] \in Seq(Int)
          /\ Len([marked EXCEPT ![place] = word]) = Len(marked)
          /\ \A k \in 1 .. Len(marked) :
               [marked EXCEPT ![place] = word][k] = IF k = place THEN word ELSE marked[k]
      BY <2>6, <2>7, <2>8, SetProperties
    <3>2. \A k \in 1 .. Len(r) : k <= msg.start => k # place
      BY <1>5, <2>7
    <3> QED
      BY <2>6, <3>1, <3>2
  <2>10. /\ right' \in Seq(Int) /\ Len(right') = Len(r)
         /\ \A k \in 1 .. Len(r) : k <= msg.start => right'[k] = r[k]
    BY <1>9, <2>6, <2>9
  <2>11. \A k \in 1 .. msg.start : k \in 1 .. Len(r) /\ k <= msg.start
    BY <1>4, <1>5, SeqFacts
  <2>12. FlatOpen'
    BY <2>5, <2>10 DEF FlatOpen, Size
  <2> QED
    BY <1>4, <1>7, <2>5, <2>10, <2>11, <2>12
<1> QED
  BY <1>2, <1>8, <1>9

LEMMA PresenceKind ==
  ASSUME NEW m
  PROVE  Presence(m) \in Kinds
  BY DEF Presence, Kinds

LEMMA ApplySizeMaskProperties ==
  ASSUME NEW r \in Seq(Int), NEW end \in Nat, NEW maxId \in Nat, NEW explicit \in BOOLEAN
  PROVE  /\ ApplySizeMask(r, end, maxId, explicit) \in Seq(Int)
         /\ Len(ApplySizeMask(r, end, maxId, explicit)) = Len(r)
         /\ \A k \in 1 .. Len(r) : k <= end => ApplySizeMask(r, end, maxId, explicit)[k] = r[k]
<1> DEFINE t == ApplySizeMask(r, end, maxId, explicit)
<1>1. Len(r) \in Nat /\ DOMAIN r = 1 .. Len(r) /\ \A k \in 1 .. Len(r) : r[k] \in Int
  BY SeqFacts
<1>2. SizeBits(explicit) \in Int
  BY DEF SizeBits
<1>3. t = [k \in 1 .. Len(r) |->
             IF k \in end + 1 .. end + maxId - 1
               THEN SizeBits(explicit) + (IF explicit THEN r[k] ELSE 0) ELSE r[k]]
  BY <1>1 DEF ApplySizeMask
<1> HIDE DEF t
<1>4. t \in Seq(Int) /\ Len(t) = Len(r)
  BY <1>1, <1>2, <1>3
<1>5. \A k \in 1 .. Len(r) : k <= end => t[k] = r[k]
  BY <1>1, <1>3
<1> QED
  BY <1>4, <1>5 DEF t

(* Whatever becomes of the metadata, the block below it stays.             *)
LEMMA FlatMetaProperties ==
  ASSUME FlatOpen, msg.maxId # 0, right \in Seq(Int), NEW truly \in BOOLEAN
  PROVE  /\ FlatMeta(truly) \in Seq(Int) /\ msg.end <= Len(FlatMeta(truly))
         /\ \A k \in 1 .. msg.end : FlatMeta(truly)[k] = right[k]
<1> DEFINE size == IF msg.sized THEN msg.maxId - 1 ELSE 0
           excess == Size - msg.end - size
           kept == IF msg.explicit /\ ~truly THEN Pop(right, excess)
                   ELSE IF ~msg.explicit THEN Push(right, Junks(size))
                   ELSE right
<1>1. /\ msg.maxId \in Nat /\ msg.maxId >= 2 /\ msg.end \in Nat /\ msg.base \in Nat
      /\ msg.end <= msg.base /\ Size = FlatTop(msg)
      /\ msg.explicit \in BOOLEAN /\ msg.sized \in BOOLEAN
  BY DEF FlatOpen, FlatMessage, FlatRecord
<1>2. size \in Nat /\ size <= msg.maxId - 1
  BY <1>1
<1>3. Size \in Nat /\ msg.end <= Size /\ (msg.explicit => msg.end + size <= Size)
  BY <1>1, <1>2, SMTT(30) DEF FlatTop
<1>4. FlatMeta(truly) = IF msg.sized THEN ApplySizeMask(kept, msg.end, msg.maxId, truly) ELSE kept
  BY DEF FlatMeta
<1> HIDE DEF size
<1>5. /\ kept \in Seq(Int) /\ msg.end <= Len(kept)
      /\ \A k \in 1 .. msg.end : kept[k] = right[k]
  <2>1. CASE msg.explicit /\ ~truly
    <3>1. excess \in 0 .. Len(right) /\ msg.end <= Len(right) - excess
      BY <1>2, <1>3, <1>1, <2>1 DEF Size
    <3> HIDE DEF excess
    <3>2. /\ Pop(right, excess) \in Seq(Int) /\ Len(Pop(right, excess)) = Len(right) - excess
          /\ \A k \in 1 .. Len(right) - excess : Pop(right, excess)[k] = right[k]
      BY <3>1, PopProperties
    <3>3. kept = Pop(right, excess)
      BY <2>1
    <3>4. Len(right) \in Nat
      BY SeqFacts
    <3> QED
      BY <1>1, <3>1, <3>2, <3>3, <3>4
  <2>2. CASE ~msg.explicit
    <3>1. Junks(size) \in Seq(Int) /\ Len(Junks(size)) = size
      BY <1>2, JunksProperties
    <3>2. /\ Push(right, Junks(size)) \in Seq(Int)
          /\ Len(Push(right, Junks(size))) = Len(right) + Len(Junks(size))
          /\ \A k \in 1 .. Len(right) : Push(right, Junks(size))[k] = right[k]
      BY <3>1, PushProperties
    <3>3. kept = Push(right, Junks(size))
      BY <2>2
    <3> QED
      BY <1>1, <1>2, <1>3, <3>1, <3>2, <3>3, SMTT(30) DEF Size
  <2>3. CASE msg.explicit /\ truly
    BY <1>3, <2>3 DEF Size
  <2> QED
    BY <1>1, <2>1, <2>2, <2>3
<1> HIDE DEF kept
<1>6. /\ ApplySizeMask(kept, msg.end, msg.maxId, truly) \in Seq(Int)
      /\ Len(ApplySizeMask(kept, msg.end, msg.maxId, truly)) = Len(kept)
      /\ \A k \in 1 .. Len(kept) :
           k <= msg.end => ApplySizeMask(kept, msg.end, msg.maxId, truly)[k] = kept[k]
  BY <1>1, <1>5, ApplySizeMaskProperties, ZenonT(60)
<1>7. \A k \in 1 .. msg.end : k \in 1 .. Len(kept) /\ k <= msg.end
  BY <1>1, <1>5, SeqFacts
<1> QED
  BY <1>4, <1>5, <1>6, <1>7

LEMMA FinishFlatPreserves ==
  ASSUME IInv, FinishFlat
  PROVE  IInv' /\ Kept
<1>1. msg.is = "flat" /\ UNCHANGED <<left, inline, pool, finished, forced, root>>
  BY DEF FinishFlat
<1>2. FlatOpen /\ right \in Seq(Int)
  BY <1>1, MessageKinds DEF IInv, ScalarsInv
<1>3. /\ FlatMessage(msg, Size) /\ msg.start \in Nat /\ msg.start <= Size /\ Size \in Nat
      /\ Floor = msg.start
  BY <1>1, <1>2, SeqFacts, FloorCases DEF FlatOpen, FlatMessage, FlatRecord, Size
<1>4. ASSUME NEW o \in Int, Close(o, Presence(msg)), 1 <= o, Checked(o), o <= Size',
             right' \in Seq(Int), msg.start <= Size',
             \A k \in 1 .. msg.start : right'[k] = right[k]
      PROVE  IInv' /\ Kept
  <2>1. msg' = None
    BY <1>4 DEF Close
  <2>2. Floor' = Size' /\ Size' \in Nat
    BY <1>4, <2>1, SeqFacts, FloorCases DEF None, Size
  <2>3. LeftInv'
    BY <1>1, <1>3, <1>4, <2>1, <2>2, OtherTablesKept DEF None
  <2> QED
    BY <1>1, <1>4, <2>3, PresenceKind, CloseKeeps DEF OpenKinds
<1>5. CASE msg.maxId = 0
  <2>1. /\ right' = Push(right, <<FlatBit>>)
        /\ IF Checked(Size + 1) THEN Close(Size + 1, Presence(msg))
                                ELSE Tainted /\ UNCHANGED <<depth, objects>>
    BY <1>5 DEF FinishFlat
  <2>2. <<FlatBit>> \in Seq(Int) /\ Len(<<FlatBit>>) = 1
    BY DEF FlatBit
  <2>3. /\ right' \in Seq(Int) /\ Size' = Size + 1 /\ msg.start <= Size'
        /\ \A k \in 1 .. msg.start : right'[k] = right[k]
    <3>1. right' = Push(right, <<FlatBit>>)
      BY <2>1
    <3>2. right' \in Seq(Int) /\ Size' = Size + 1 /\ \A k \in 1 .. Size : right'[k] = right[k]
      BY <1>2, <2>2, <3>1, PushKeeps
    <3> QED
      BY ONLY <1>3, <3>2
  <2>4. CASE Checked(Size + 1)
    BY <1>3, <1>4, <2>1, <2>3, <2>4, SMTT(30)
  <2>5. CASE ~Checked(Size + 1)
    <3>1. msg' = [msg EXCEPT !.tainted = TRUE] /\ UNCHANGED <<depth, objects>>
      BY <2>1, <2>5 DEF Tainted
    <3>2. /\ msg' \in FlatRecord(msg.fields) /\ msg'.fields = msg.fields /\ msg'.is = "flat"
          /\ msg'.start = msg.start /\ msg'.maxId = 0 /\ msg'.tainted
      BY ONLY <1>3, <1>5, <3>1 DEF FlatMessage, FlatRecord
    <3>3. FlatOpen'
      BY ONLY <1>3, <2>3, <3>2 DEF FlatOpen, FlatMessage, FlatRecord
    <3>4. Floor' = msg.start
      BY <3>2, FloorCases
    <3>5. LeftInv'
      BY <1>1, <1>3, <3>2, <3>4, OtherTablesKept
    <3> QED
      BY <1>1, <2>3, <3>1, <3>2, <3>3, <3>5, WriteKeeps DEF OpenKinds, MessageInv
  <2> QED
    BY <2>4, <2>5
<1>6. CASE msg.maxId # 0
  <2> DEFINE truly == msg.explicit /\ msg.need
             limit == FlatBit + 4 * msg.maxId + (IF msg.sized THEN 2 ELSE 0)
                      + (IF truly THEN 1 ELSE 0)
  <2>1. right' = [FlatMeta(truly) EXCEPT ![msg.end] = limit] /\ Close(msg.end, Presence(msg))
    BY <1>6 DEF FinishFlat
  <2>2. /\ msg.maxId \in Nat /\ msg.end \in Nat /\ msg.end > msg.start /\ Checked(msg.end)
        /\ truly \in BOOLEAN
    BY <1>3, <1>6 DEF FlatMessage, FlatRecord
  <2>3. limit \in Int
    BY <2>2 DEF FlatBit
  <2> HIDE DEF limit, truly
  <2>4. /\ FlatMeta(truly) \in Seq(Int) /\ msg.end <= Len(FlatMeta(truly))
        /\ \A k \in 1 .. msg.end : FlatMeta(truly)[k] = right[k]
    BY <1>2, <1>6, <2>2, FlatMetaProperties
  <2>5. /\ right' \in Seq(Int) /\ Len(right') = Len(FlatMeta(truly))
        /\ \A k \in 1 .. Len(FlatMeta(truly)) :
             right'[k] = IF k = msg.end THEN limit ELSE FlatMeta(truly)[k]
    BY <2>1, <2>2, <2>3, <2>4, SetProperties
  <2>6. \A k \in 1 .. msg.start : k \in 1 .. msg.end /\ k # msg.end /\ k \in 1 .. Len(FlatMeta(truly))
    BY <1>3, <2>2, <2>4, SeqFacts
  <2>7. \A k \in 1 .. msg.start : right'[k] = right[k]
    BY <2>4, <2>5, <2>6
  <2>8. Size' = Len(FlatMeta(truly)) /\ Size' \in Nat
    BY <2>4, <2>5, SeqFacts DEF Size
  <2>9. msg.end \in Int /\ 1 <= msg.end /\ msg.end <= Size' /\ msg.start <= Size'
    BY ONLY <1>3, <2>2, <2>4, <2>8
  <2> QED
    BY <1>4, <2>1, <2>2, <2>5, <2>7, <2>9
<1> QED
  BY <1>5, <1>6

-----------------------------------------------------------------------------
(* SparseMessageSerializer, and the metadata it shares.                    *)

LEMMA LinkFieldProperties ==
  ASSUME NEW r \in Seq(Int), NEW start \in Nat, NEW floor \in Nat, floor < start,
         NEW field \in FieldEntry, field.off \in floor + 1 .. start - 1, start <= Len(r)
  PROVE  /\ LinkField(r, start, field) \in Seq(Int)
         /\ Len(LinkField(r, start, field)) = Len(r)
         /\ \A k \in 1 .. Len(r) : k <= floor => LinkField(r, start, field)[k] = r[k]
<1> DEFINE off == field.off
           marked == WriteFieldMeta(r, start, field.id, start - off)
           linked == [marked EXCEPT ![off] = start - marked[off]]
<1>1. off \in Nat \ {0} /\ off > floor /\ off <= start - 1 /\ field.id \in Nat \ {0}
  BY DEF FieldEntry
<1>2. LinkField(r, start, field) = IF field.scalar \/ start < r[off] THEN marked ELSE linked
  BY DEF LinkField
<1> HIDE DEF off
<1>3. start - off \in Int
  BY <1>1
<1>4. /\ marked \in Seq(Int) /\ Len(marked) = Len(r)
      /\ \A k \in 1 .. Len(r) : k <= start + 1 => marked[k] = r[k]
  BY <1>1, <1>3, WriteFieldMetaProperties, ZenonT(60)
<1>5. \A k \in 1 .. Len(r) : k <= floor => k <= start + 1 /\ k # off
  BY <1>1, SeqFacts
<1> HIDE DEF marked
<1>6. start - marked[off] \in Int
  <2>1. off \in 1 .. Len(marked) /\ \A k \in 1 .. Len(marked) : marked[k] \in Int
    BY <1>1, <1>4, SeqFacts, SMTT(30)
  <2> QED
    BY <2>1
<1> DEFINE word == start - marked[off]
<1> HIDE DEF word
<1>7. /\ [marked EXCEPT ![off] = word] \in Seq(Int) /\ Len([marked EXCEPT ![off] = word]) = Len(r)
      /\ \A k \in 1 .. Len(r) : [marked EXCEPT ![off] = word][k] = IF k = off THEN word ELSE marked[k]
  BY <1>1, <1>4, <1>6, SetProperties DEF word
<1>8. linked = [marked EXCEPT ![off] = word]
  BY DEF word
<1> HIDE DEF linked
<1> QED
  BY <1>2, <1>4, <1>5, <1>7, <1>8

(* The loop over the fields of the message changes words above its start.  *)
LEMMA LinkFieldsProperties ==
  ASSUME NEW r \in Seq(Int), NEW start \in Nat, msg.start \in Nat, msg.start < start,
         start <= Len(r), msg.base \in Nat, msg.added \in Nat,
         \A i \in msg.base + 1 .. msg.base + msg.added :
           left[i] \in FieldEntry /\ left[i].off \in msg.start + 1 .. start - 1
  PROVE  /\ LinkFields(r, start).r \in Seq(Int)
         /\ Len(LinkFields(r, start).r) = Len(r)
         /\ \A k \in 1 .. Len(r) : k <= msg.start => LinkFields(r, start).r[k] = r[k]
<1> DEFINE fields == {left[i] : i \in msg.base + 1 .. msg.base + msg.added}
           unfit == {f \in fields : ~f.scalar /\ start < r[f.off]}
           reached == {f \in fields : \A g \in unfit : f.off <= g.off}
           images == {LinkField(r, start, f) : f \in reached}
           changed(k) == {image[k] : image \in images} \ {r[k]}
           new(k) == CHOOSE word \in changed(k) : TRUE
           t == [k \in DOMAIN r |-> IF changed(k) = {} THEN r[k] ELSE new(k)]
<1>1. LinkFields(r, start).r = t
  BY DEF LinkFields
<1>2. \A f \in reached : f \in FieldEntry /\ f.off \in msg.start + 1 .. start - 1
  OBVIOUS
<1> HIDE DEF reached
<1>3. DOMAIN r = 1 .. Len(r) /\ Len(r) \in Nat /\ \A k \in 1 .. Len(r) : r[k] \in Int
  BY SeqFacts
<1>4. \A f \in reached :
        /\ LinkField(r, start, f) \in Seq(Int)
        /\ Len(LinkField(r, start, f)) = Len(r)
        /\ \A k \in 1 .. Len(r) : k <= msg.start => LinkField(r, start, f)[k] = r[k]
  BY <1>2, LinkFieldProperties
<1>5. \A f \in reached, k \in 1 .. Len(r) : LinkField(r, start, f)[k] \in Int
  BY <1>4, SeqFacts
<1>6. \A k : changed(k) # {} => new(k) \in changed(k)
  OBVIOUS
<1>7. \A k \in 1 .. Len(r) : changed(k) # {} => new(k) \in Int
  <2>1. \A image \in images : \A k \in 1 .. Len(r) : image[k] \in Int
    BY <1>5
  <2>2. \A k : \A word \in changed(k) : \E image \in images : word = image[k]
    OBVIOUS
  <2> HIDE DEF images, changed, new
  <2> QED
    BY <1>6, <2>1, <2>2, ZenonT(60)
<1>8. \A k \in 1 .. Len(r) : k <= msg.start => changed(k) = {}
  BY <1>4
<1> HIDE DEF changed, new
<1>9. t = [k \in 1 .. Len(r) |-> IF changed(k) = {} THEN r[k] ELSE new(k)]
  BY <1>3
<1> HIDE DEF t
<1>10. t \in Seq(Int) /\ Len(t) = Len(r)
  BY <1>3, <1>7, <1>9
<1>11. \A k \in 1 .. Len(r) : k <= msg.start => t[k] = r[k]
  BY <1>8, <1>9
<1> QED
  BY <1>1, <1>10, <1>11

(* Entries for tables only, each of a table below n.                       *)
Tables(l, n) ==
  /\ l \in Seq(Table)
  /\ \A i \in DOMAIN l : l[i].maxId >= 2 /\ l[i].off \in MetaSize(l[i].maxId) .. n

LEMMA TablesRaised ==
  ASSUME NEW l, NEW n \in Nat, Tables(l, n), NEW end \in Nat, n <= end
  PROVE  Tables(l, end)
<1>1. DOMAIN l = 1 .. Len(l) /\ \A i \in DOMAIN l : l[i] \in Table
  BY SeqFacts DEF Tables
<1>2. \A i \in DOMAIN l : MetaSize(l[i].maxId) \in Nat
  BY <1>1, MetaSizeProperties DEF Tables, Table
<1> QED
  BY <1>1, <1>2 DEF Tables

LEMMA TablesRecorded ==
  ASSUME NEW l, NEW n \in Nat, Tables(l, n), NEW end \in Nat, n <= end,
         NEW maxId \in Nat, maxId >= 2, MetaSize(maxId) <= end, NEW hint \in Int
  PROVE  Tables(Append(l, [is |-> "meta", off |-> end, maxId |-> maxId, hint |-> hint]), end)
<1> DEFINE table == [is |-> "meta", off |-> end, maxId |-> maxId, hint |-> hint]
           t == Append(l, table)
<1>1. l \in Seq(Table) /\ Len(l) \in Nat /\ DOMAIN l = 1 .. Len(l) /\ \A i \in 1 .. Len(l) : l[i] \in Table
  BY SeqFacts DEF Tables
<1>2. table \in Table /\ table.maxId = maxId /\ table.off = end
  BY DEF Table
<1>4. Tables(l, end)
  BY TablesRaised
<1>5. MetaSize(maxId) \in Nat
  BY MetaSizeProperties
<1> HIDE DEF table
<1>6. /\ t \in Seq(Table) /\ DOMAIN t = 1 .. Len(l) + 1
      /\ \A i \in 1 .. Len(l) + 1 : t[i] = IF i <= Len(l) THEN l[i] ELSE table
  BY <1>1, <1>2
<1> HIDE DEF t
<1>7. ASSUME NEW i \in DOMAIN t
      PROVE  t[i].maxId >= 2 /\ t[i].off \in MetaSize(t[i].maxId) .. end
  <2>1. CASE i <= Len(l)
    BY <1>1, <1>4, <1>6, <2>1 DEF Tables
  <2>2. CASE ~(i <= Len(l))
    BY <1>2, <1>5, <1>6, <2>2
  <2> QED
    BY <2>1, <2>2
<1> QED
  BY <1>6, <1>7 DEF Tables, t, table

LEMMA TablesAreLeft ==
  ASSUME msg'.is # "sparse", Tables(left', Floor')
  PROVE  LeftInv'
<1>1. TablesHeld' = Len(left')
  BY DEF TablesHeld
<1>2. /\ left' \in Seq(Table) /\ Len(left') \in Nat /\ DOMAIN left' = 1 .. Len(left')
      /\ \A i \in 1 .. Len(left') : left'[i] \in Table
  BY SeqFacts DEF Tables
<1>3. left' \in Seq(Table \cup FieldEntry)
  BY <1>2
<1> QED
  BY <1>1, <1>2, <1>3 DEF Tables, LeftInv

(* The table of a message is shared or recorded and the message linked to  *)
(* it, or the check of its offset throws.                                  *)
LEMMA FinishMetadataPreserves ==
  ASSUME IInv, msg.is \in {"sparse", "preallocated"}, msg.start \in Nat,
         NEW r \in Seq(Int), NEW l, Tables(l, msg.start),
         NEW m, m.maxId \in Nat, m.maxId >= 2,
         NEW start \in Nat, msg.start < start, Checked(start),
         Len(r) = start + 1 + MetaSize(m.maxId),
         \A k \in 1 .. msg.start : r[k] = right[k],
         FinishMetadata(r, l, m, start), UNCHANGED <<inline, pool, finished, forced, root>>
  PROVE  \/ IInv' /\ Kept
         \/ /\ ~Checked(Len(r)) /\ right' = r /\ left' = l
            /\ msg' = [m EXCEPT !.tainted = TRUE] /\ UNCHANGED <<depth, objects>>
<1> DEFINE size == MetaSize(m.maxId)
           same == SameMeta(r, l, m.maxId)
           off == IF same = {} THEN Len(r) ELSE l[Min(same)].off
           popped == IF same = {} THEN 0 ELSE size
           kept == Pop(r, popped)
           word == start - (off - size)
           hint == Hint(r[Len(r)])
           table == [is |-> "meta", off |-> off, maxId |-> m.maxId, hint |-> hint]
<1>1. \/ /\ same = {} /\ ~Checked(Len(r)) /\ right' = r /\ left' = l
         /\ msg' = [m EXCEPT !.tainted = TRUE] /\ UNCHANGED <<depth, objects>>
      \/ /\ same # {} \/ Checked(off)
         /\ right' = [kept EXCEPT ![start + 1] = word]
         /\ left' = (IF same # {} THEN l ELSE Append(l, table))
         /\ Close(start, Presence(msg))
  BY DEF FinishMetadata
<1>2. CASE /\ same # {} \/ Checked(off)
           /\ right' = [kept EXCEPT ![start + 1] = word]
           /\ left' = (IF same # {} THEN l ELSE Append(l, table))
           /\ Close(start, Presence(msg))
  <2>1. size \in Nat /\ Len(r) \in Nat /\ Len(r) = start + 1 + size
    BY MetaSizeProperties
  <2>2. hint \in Int
    <3>1. Len(r) \in 1 .. Len(r) /\ \A k \in 1 .. Len(r) : r[k] \in Int
      BY <2>1, SeqFacts
    <3> QED
      BY <3>1, HintType
  <2>3. off \in Nat
    <3>1. CASE same # {}
      <4>1. same \subseteq DOMAIN l /\ l \in Seq(Table)
        BY DEF SameMeta, Tables
      <4>2. DOMAIN l = 1 .. Len(l) /\ \A i \in DOMAIN l : l[i] \in Table
        BY <4>1, SeqFacts
      <4>3. Min(same) \in same
        BY <3>1, <4>1, <4>2, MinIsLeast
      <4>4. l[Min(same)] \in Table
        BY <4>1, <4>2, <4>3
      <4> QED
        BY <3>1, <4>4 DEF Table
    <3>2. CASE same = {}
      BY <2>1, <3>2
    <3> QED
      BY <3>1, <3>2
  <2>4. same = {} => off = Len(r)
    OBVIOUS
  <2>5. popped \in 0 .. Len(r) /\ start + 1 <= Len(r) - popped /\ (same = {} => popped = 0)
    BY <2>1
  <2> HIDE DEF size, same, popped, off, hint
  <2>6. /\ kept \in Seq(Int) /\ Len(kept) = Len(r) - popped
        /\ \A k \in 1 .. Len(r) - popped : kept[k] = r[k]
    BY <2>5, PopProperties
  <2>7. word \in Int
    BY <2>1, <2>3
  <2> HIDE DEF kept, word
  <2>8. /\ right' \in Seq(Int) /\ Len(right') = Len(kept)
        /\ \A k \in 1 .. Len(kept) : right'[k] = IF k = start + 1 THEN word ELSE kept[k]
    BY <1>2, <2>6, <2>7, SetProperties
  <2>9. Size' = Len(r) - popped /\ Size' \in Nat /\ start <= Size' /\ msg.start <= Size' /\ 1 <= start
    <3>1. Size' = Len(r) - popped
      BY <2>6, <2>8 DEF Size
    <3> QED
      BY ONLY <2>1, <2>5, <3>1, start \in Nat, msg.start \in Nat, msg.start < start
  <2>10. \A k \in 1 .. msg.start : right'[k] = right[k]
    <3>1. \A k \in 1 .. msg.start : k \in 1 .. Len(r) - popped /\ k # start + 1
      BY <2>1, <2>5, SMTT(30)
    <3> QED
      BY <2>6, <2>8, <3>1
  <2>11. msg' = None
    BY <1>2 DEF Close
  <2>12. Floor' = Size' /\ msg'.is # "sparse"
    BY <2>11, FloorCases DEF None
  <2>13. Tables(left', Floor')
    <3>1. CASE same # {}
      <4>1. left' = l
        BY <1>2, <3>1
      <4> QED
        BY <2>9, <2>12, <4>1, TablesRaised
    <3>2. CASE same = {}
      <4>1. off = Size' /\ left' = Append(l, table)
        <5>1. left' = Append(l, table)
          BY <1>2, <3>2
        <5>2. off = Size'
          BY ONLY <2>1, <2>4, <2>5, <2>9, <3>2
        <5> QED
          BY <5>1, <5>2
      <4>2. size <= Size'
        BY <2>1, <2>5, <2>9, <3>2
      <4> QED
        BY <2>2, <2>9, <2>12, <4>1, <4>2, TablesRecorded DEF size
    <3> QED
      BY <3>1, <3>2
  <2>14. LeftInv'
    BY <2>12, <2>13, TablesAreLeft
  <2> QED
    BY <1>2, <2>8, <2>9, <2>10, <2>14, PresenceKind, CloseKeeps DEF OpenKinds
<1> QED
  BY <1>1, <1>2

LEMMA StartSparsePreserves ==
  ASSUME IInv, NEW explicit \in BOOLEAN, StartSparse(explicit)
  PROVE  IInv' /\ Kept
<1> DEFINE opened == [is |-> "sparse", explicit |-> explicit, start |-> Size,
                      base |-> Len(left), added |-> 0, maxId |-> 0, prev |-> 0,
                      tainted |-> FALSE, fields |-> <<>>]
<1>1. /\ NotFinished /\ msg = None /\ Open(opened) /\ msg' = opened
      /\ UNCHANGED <<right, left, inline, pool, finished, forced, objects, root>>
  BY Unnested DEF StartSparse, Open
<1>2. right' \in Seq(Int) /\ Size \in Nat /\ Size' = Size
  BY <1>1, SeqFacts DEF IInv, ScalarsInv, Size
<1>3. Len(left) \in Nat
  BY SeqFacts DEF IInv, LeftInv
<1>4. SparseOpen'
  BY <1>1, <1>2, <1>3 DEF SparseOpen, SparseRecord
<1>5. Floor' = Size /\ TablesHeld' = Len(left)
  BY <1>1, FloorCases DEF TablesHeld
<1> HIDE DEF opened
<1> QED
  BY <1>1, <1>2, <1>4, <1>5, OpenKeeps DEF MessageInv

(* A word is pushed, and an entry for it unless the field is refused.      *)
LEMMA SparseLeftGrows ==
  ASSUME LeftInv, SparseOpen, Checked(Size), Size \in Nat, Floor = msg.start,
         msg'.is = "sparse", msg'.base = msg.base, msg'.start = msg.start, Floor' = msg.start,
         Size' = Size + 1,
         NEW id \in Nat \ {0}, NEW scalar \in BOOLEAN,
         left' = Append(left, [is |-> "field", off |-> Size + 1, id |-> id, scalar |-> scalar])
  PROVE  LeftInv' /\ Len(left') = msg.base + msg.added + 1
<1> DEFINE entry == [is |-> "field", off |-> Size + 1, id |-> id, scalar |-> scalar]
<1>1. /\ msg.is = "sparse" /\ msg.start \in Nat /\ msg.base \in Nat /\ msg.added \in Nat
      /\ Len(left) = msg.base + msg.added /\ msg.start <= Size
  BY DEF SparseOpen, SparseRecord
<1>2. entry \in FieldEntry /\ entry.off = Size + 1
  BY DEF FieldEntry
<1>3. left' = Append(left, entry)
  OBVIOUS
<1> HIDE DEF entry
<1>4. left \in Seq(Table \cup FieldEntry) /\ Len(left) \in Nat /\ DOMAIN left = 1 .. Len(left)
  BY SeqFacts DEF LeftInv
<1>5. /\ left' \in Seq(Table \cup FieldEntry) /\ Len(left') = Len(left) + 1
      /\ DOMAIN left' = 1 .. Len(left) + 1
      /\ \A i \in 1 .. Len(left) + 1 : left'[i] = IF i <= Len(left) THEN left[i] ELSE entry
  BY ONLY <1>2, <1>3, <1>4
<1>6. TablesHeld = msg.base /\ TablesHeld' = msg.base
  BY <1>1 DEF TablesHeld
<1>7. ASSUME NEW i \in DOMAIN left', i <= msg.base
      PROVE  /\ left'[i] \in Table /\ left'[i].maxId >= 2
             /\ left'[i].off \in MetaSize(left'[i].maxId) .. Floor'
  <2>1. i \in DOMAIN left /\ left'[i] = left[i]
    BY ONLY <1>1, <1>4, <1>5, <1>7
  <2> QED
    BY <1>6, <1>7, <2>1 DEF LeftInv
<1>8. ASSUME NEW i \in DOMAIN left', ~(i <= msg.base)
      PROVE  left'[i] \in FieldEntry /\ left'[i].off \in msg'.start + 1 .. Size'
  <2>1. CASE i <= Len(left)
    <3>1. i \in DOMAIN left /\ left'[i] = left[i]
      BY ONLY <1>4, <1>5, <1>8, <2>1
    <3>2. left[i] \in FieldEntry /\ left[i].off \in msg.start + 1 .. Size
      BY <1>6, <1>8, <3>1 DEF LeftInv
    <3> QED
      BY <1>1, <3>1, <3>2
  <2>2. CASE ~(i <= Len(left))
    <3>1. left'[i] = entry
      BY ONLY <1>4, <1>5, <1>8, <2>2
    <3> QED
      BY <1>1, <1>2, <3>1, SMTT(30)
  <2> QED
    BY <2>1, <2>2
<1>9. Len(left') = msg.base + msg.added + 1
  BY <1>1, <1>5
<1> QED
  BY <1>5, <1>6, <1>7, <1>8, <1>9 DEF LeftInv

LEMMA AddSparsePreserves ==
  ASSUME IInv, NEW id \in Nat, NEW v \in Int, NEW scalar \in BOOLEAN, AddSparse(id, v, scalar)
  PROVE  IInv' /\ Kept
<1> DEFINE inOrder == id > 0 /\ (msg.prev = 0 \/ msg.prev > id)
           ranged == msg.maxId # 0 \/ id < IdLimit
           prev == IF inOrder THEN id ELSE msg.prev
           maxId == IF inOrder /\ ranged /\ msg.maxId = 0 THEN id + 1 ELSE msg.maxId
           m == [msg EXCEPT !.prev = prev, !.maxId = maxId]
           entry == [is |-> "field", off |-> Size + 1, id |-> id, scalar |-> scalar]
           accepted == inOrder /\ ranged /\ Checked(Size + 1)
<1>1. /\ msg.is = "sparse" /\ right' = Push(right, <<v>>)
      /\ UNCHANGED <<depth, inline, pool, finished, forced, objects, root>>
      /\ IF accepted
           THEN left' = Append(left, entry) /\ msg' = [m EXCEPT !.added = m.added + 1, !.fields = Added(id, v)]
           ELSE left' = left /\ msg' = [m EXCEPT !.tainted = TRUE]
  BY DEF AddSparse
<1>2. SparseOpen /\ right \in Seq(Int)
  BY <1>1, MessageKinds DEF IInv, ScalarsInv
<1>3. /\ msg \in SparseRecord(msg.fields) /\ msg.start \in Nat /\ msg.start <= Size
      /\ msg.prev \in Nat /\ msg.maxId \in Nat /\ msg.added \in Nat /\ msg.base \in Nat
      /\ msg.tainted \in BOOLEAN
  BY <1>2 DEF SparseOpen, SparseRecord
<1>4. \/ Len(left) = msg.base + msg.added
      \/ Len(left) = msg.base /\ msg.tainted /\ ~Checked(Size)
  BY <1>2 DEF SparseOpen
<1>5. /\ right' \in Seq(Int) /\ Size' = Size + 1 /\ Size \in Nat
      /\ \A k \in 1 .. Size : right'[k] = right[k]
  <2>1. <<v>> \in Seq(Int) /\ Len(<<v>>) = 1
    OBVIOUS
  <2> QED
    BY <1>1, <1>2, <2>1, PushKeeps
<1>6. prev \in Nat /\ maxId \in Nat /\ (maxId = 0 => msg.maxId = 0) /\ (maxId # 0 => maxId >= 2)
  BY <1>2, <1>3 DEF SparseOpen
<1>7. accepted => id \in Nat \ {0} /\ maxId # 0 /\ Checked(Size)
  BY <1>3, <1>5, SerializerAssumption DEF Checked
<1>8. Floor = msg.start
  BY <1>1, FloorCases
<1> HIDE DEF accepted, inOrder, ranged, prev, maxId
<1>9. /\ m \in SparseRecord(msg.fields) /\ m.fields = msg.fields /\ m.maxId = maxId
      /\ m.start = msg.start /\ m.base = msg.base /\ m.added = msg.added /\ m.tainted = msg.tainted
  BY ONLY <1>3, <1>6 DEF SparseRecord
<1> HIDE DEF m
<1>10. CASE accepted
  <2>1. /\ msg' = [m EXCEPT !.added = m.added + 1, !.fields = Added(id, v)]
        /\ left' = Append(left, entry)
    BY <1>1, <1>10
  <2> DEFINE fields == Added(id, v)
             added == msg.added + 1
  <2> HIDE DEF fields, added
  <2>2. /\ msg' \in SparseRecord(fields) /\ msg'.fields = fields /\ msg'.maxId = maxId
        /\ msg'.start = msg.start /\ msg'.base = msg.base /\ msg'.added = msg.added + 1
        /\ msg'.is = "sparse"
    <3>1. msg' = [m EXCEPT !.added = added, !.fields = fields]
      BY <1>9, <2>1 DEF fields, added
    <3>2. added \in Nat /\ added = msg.added + 1
      BY <1>3 DEF added
    <3> QED
      BY ONLY <1>3, <1>9, <3>1, <3>2 DEF SparseRecord
  <2>3. Floor' = msg.start
    BY <2>2, FloorCases
  <2>4. LeftInv' /\ Len(left') = msg.base + msg.added + 1
    BY <1>1, <1>2, <1>5, <1>7, <1>8, <1>10, <2>1, <2>2, <2>3, SparseLeftGrows DEF IInv
  <2>5. SparseOpen'
    <3>1. msg'.start <= Size' /\ msg'.maxId # 0 /\ msg'.maxId >= 2 /\ Len(left') = msg'.base + msg'.added
      BY ONLY <1>3, <1>5, <1>6, <1>7, <1>10, <2>2, <2>4, SMTT(30)
    <3> QED
      BY ONLY <2>2, <3>1 DEF SparseOpen
  <2>6. msg.start <= Size' /\ \A k \in 1 .. msg.start : right'[k] = right[k]
    BY ONLY <1>3, <1>5
  <2> QED
    BY <1>1, <1>5, <2>2, <2>4, <2>5, <2>6, WriteKeeps DEF OpenKinds, MessageInv
<1>11. CASE ~accepted
  <2>1. msg' = [m EXCEPT !.tainted = TRUE] /\ left' = left
    BY <1>1, <1>11
  <2>2. /\ msg' \in SparseRecord(msg.fields) /\ msg'.fields = msg.fields /\ msg'.maxId = maxId
        /\ msg'.start = msg.start /\ msg'.base = msg.base /\ msg'.added = msg.added
        /\ msg'.is = "sparse" /\ msg'.tainted
    BY ONLY <1>3, <1>9, <2>1 DEF SparseRecord
  <2>3. SparseOpen'
    <3>1. msg'.start <= Size' /\ (msg'.maxId = 0 => msg'.added = 0) /\ (msg'.maxId # 0 => msg'.maxId >= 2)
      BY <1>2, <1>3, <1>5, <1>6, <2>2, SMTT(30) DEF SparseOpen
    <3>2. ~Checked(Size) => ~Checked(Size')
      BY <1>5, SerializerAssumption DEF Checked
    <3>3. \/ Len(left') = msg'.base + msg'.added
          \/ Len(left') = msg'.base /\ msg'.tainted /\ ~Checked(Size')
      BY <1>4, <2>1, <2>2, <3>2
    <3> QED
      BY ONLY <2>2, <3>1, <3>3 DEF SparseOpen
  <2>4. Floor' = msg.start /\ TablesHeld' = TablesHeld
    BY <1>1, <2>2, FloorCases DEF TablesHeld
  <2>5. LeftInv'
    BY <1>3, <1>5, <1>8, <2>1, <2>2, <2>4, LeftKept DEF IInv
  <2>6. msg.start <= Size' /\ \A k \in 1 .. msg.start : right'[k] = right[k]
    BY ONLY <1>3, <1>5
  <2> QED
    BY <1>1, <1>5, <2>2, <2>3, <2>5, <2>6, WriteKeeps DEF OpenKinds, MessageInv
<1> QED
  BY <1>10, <1>11

LEMMA TablesLeft ==
  ASSUME LeftInv, NEW b \in Nat, b <= Len(left), TablesHeld \in Nat, b <= TablesHeld
  PROVE  /\ Tables(SubSeq(left, 1, b), Floor)
         /\ b = Len(left) => Tables(left, Floor)
<1> DEFINE l == SubSeq(left, 1, b)
<1>1. left \in Seq(Table \cup FieldEntry) /\ Len(left) \in Nat /\ DOMAIN left = 1 .. Len(left)
  BY SeqFacts DEF LeftInv
<1>2. /\ l \in Seq(Table \cup FieldEntry) /\ Len(l) = b /\ DOMAIN l = 1 .. b
      /\ \A i \in 1 .. b : l[i] = left[i]
  BY <1>1
<1> HIDE DEF l
<1>3. \A i \in 1 .. b : /\ left[i] \in Table /\ left[i].maxId >= 2
                        /\ left[i].off \in MetaSize(left[i].maxId) .. Floor
  <2>1. ASSUME NEW i \in 1 .. b
        PROVE  i \in DOMAIN left /\ i <= TablesHeld
    BY <1>1, <2>1
  <2> QED
    BY <2>1 DEF LeftInv
<1>4. l \in Seq(Table)
  BY <1>2, <1>3
<1>5. Tables(l, Floor)
  BY <1>2, <1>3, <1>4 DEF Tables
<1>6. b = Len(left) => l = left
  BY <1>1, <1>2
<1> QED
  BY <1>5, <1>6 DEF l

(* The entries of the fields of a message that can be finished.            *)
LEMMA SparseEntries ==
  ASSUME IInv, SparseOpen, Checked(Size)
  PROVE  /\ Len(left) = msg.base + msg.added /\ TablesHeld = msg.base
         /\ msg.base \in Nat /\ msg.added \in Nat
         /\ \A i \in msg.base + 1 .. msg.base + msg.added :
              left[i] \in FieldEntry /\ left[i].off \in msg.start + 1 .. Size
         /\ Tables(SubSeq(left, 1, msg.base), Floor)
         /\ msg.added = 0 => Tables(left, Floor)
<1>1. /\ msg.is = "sparse" /\ msg.base \in Nat /\ msg.added \in Nat
      /\ Len(left) = msg.base + msg.added
  BY DEF SparseOpen, SparseRecord
<1>2. TablesHeld = msg.base
  BY <1>1 DEF TablesHeld
<1>3. DOMAIN left = 1 .. Len(left)
  BY SeqFacts DEF IInv, LeftInv
<1>4. \A i \in msg.base + 1 .. msg.base + msg.added :
        left[i] \in FieldEntry /\ left[i].off \in msg.start + 1 .. Size
  <2>1. \A i \in msg.base + 1 .. msg.base + msg.added : i \in DOMAIN left /\ ~(i <= msg.base)
    BY <1>1, <1>3
  <2> QED
    BY <1>2, <2>1 DEF IInv, LeftInv
<1>5. msg.base <= Len(left)
  BY <1>1
<1> QED
  BY <1>1, <1>2, <1>4, <1>5, TablesLeft DEF IInv

(* Beyond MAX_OFFSET it leaves a word behind, and all else as it was.      *)
LEMMA FinishSparseBeyond ==
  ASSUME IInv, FinishSparse, ~Checked(Size)
  PROVE  /\ msg.is = "sparse" /\ msg' = [msg EXCEPT !.tainted = TRUE]
         /\ \E w \in Int : right' = Push(right, <<w>>)
         /\ UNCHANGED <<left, depth, inline, pool, finished, forced, objects, root>>
<1>1. /\ msg.is = "sparse"
      /\ UNCHANGED <<inline, pool, finished, forced, root>>
  BY DEF FinishSparse
<1>2. SparseOpen /\ Size \in Nat
  BY <1>1, MessageKinds, SeqFacts DEF IInv, ScalarsInv, Size
<1>3. SparseLimit(msg.maxId) \in Int
  BY <1>2 DEF SparseOpen, SparseRecord, SparseLimit
<1>4. ~Checked(Size + 1)
  BY <1>2, SerializerAssumption DEF Checked
<1>5. /\ right' = Push(right, <<2>>) \/ right' = Push(right, <<SparseLimit(msg.maxId)>>)
      /\ Tainted /\ UNCHANGED <<left, depth, objects>>
  BY <1>4 DEF FinishSparse
<1> QED
  BY <1>1, <1>3, <1>5 DEF Tainted

LEMMA FinishSparseBeyondPreserves ==
  ASSUME IInv, FinishSparse, ~Checked(Size)
  PROVE  IInv' /\ Kept
<1>1. /\ msg.is = "sparse" /\ msg' = [msg EXCEPT !.tainted = TRUE]
      /\ UNCHANGED <<left, depth, inline, pool, finished, forced, objects, root>>
  BY FinishSparseBeyond
<1>2. PICK w \in Int : right' = Push(right, <<w>>)
  BY FinishSparseBeyond
<1>3. SparseOpen /\ right \in Seq(Int)
  BY <1>1, MessageKinds DEF IInv, ScalarsInv
<1>4. msg \in SparseRecord(msg.fields) /\ msg.start \in Nat /\ msg.start <= Size
  BY <1>3 DEF SparseOpen, SparseRecord
<1>5. /\ right' \in Seq(Int) /\ Size' = Size + 1 /\ Size \in Nat
      /\ \A k \in 1 .. Size : right'[k] = right[k]
  <2>1. <<w>> \in Seq(Int) /\ Len(<<w>>) = 1
    OBVIOUS
  <2> QED
    BY <1>2, <1>3, <2>1, PushKeeps
<1>6. /\ msg' \in SparseRecord(msg.fields) /\ msg'.fields = msg.fields /\ msg'.maxId = msg.maxId
      /\ msg'.start = msg.start /\ msg'.base = msg.base /\ msg'.added = msg.added
      /\ msg'.is = "sparse" /\ msg'.tainted
  BY ONLY <1>1, <1>4 DEF SparseRecord
<1>7. SparseOpen'
  <2>1. msg'.start <= Size' /\ ~Checked(Size')
    BY <1>4, <1>5, <1>6, SerializerAssumption DEF Checked
  <2> QED
    BY <1>1, <1>3, <1>6, <2>1 DEF SparseOpen
<1>8. Floor = msg.start /\ Floor' = msg.start /\ TablesHeld' = TablesHeld
  BY <1>1, <1>6, FloorCases DEF TablesHeld
<1>9. LeftInv'
  BY <1>1, <1>4, <1>5, <1>6, <1>8, LeftKept DEF IInv
<1>10. msg.start <= Size' /\ \A k \in 1 .. msg.start : right'[k] = right[k]
  BY ONLY <1>4, <1>5
<1> QED
  BY <1>1, <1>5, <1>6, <1>7, <1>9, <1>10, WriteKeeps DEF OpenKinds, MessageInv

LEMMA FinishSparseWithinPreserves ==
  ASSUME IInv, FinishSparse, Checked(Size)
  PROVE  IInv' /\ Kept
<1> DEFINE start == Size + 1
           size == MetaSize(msg.maxId)
           zeros == Zeros(size + 1)
           block == zeros \o <<SparseLimit(msg.maxId)>>
           whole == Push(right, block)
           linked == LinkFields(whole, start)
           l == SubSeq(left, 1, Len(left) - msg.added)
<1>1. /\ msg.is = "sparse"
      /\ UNCHANGED <<inline, pool, finished, forced, root>>
  BY DEF FinishSparse
<1>2. \/ msg.maxId = 0 /\ right' = Push(right, <<2>>) /\ left' = left
         /\ Checked(start) /\ Close(start, Presence(msg))
      \/ \/ msg.maxId = 0 /\ right' = Push(right, <<2>>)
         \/ msg.maxId # 0 /\ right' = Push(right, <<SparseLimit(msg.maxId)>>)
         \/ msg.maxId # 0 /\ right' = linked.r
         /\ Tainted /\ UNCHANGED <<left, depth, objects>>
      \/ msg.maxId # 0 /\ Checked(start) /\ FinishMetadata(linked.r, l, msg, start)
  BY DEF FinishSparse
<1>3. SparseOpen /\ right \in Seq(Int)
  BY <1>1, MessageKinds DEF IInv, ScalarsInv
<1>4. /\ msg \in SparseRecord(msg.fields) /\ msg.start \in Nat /\ msg.start <= Size
      /\ msg.maxId \in Nat /\ (msg.maxId # 0 => msg.maxId >= 2) /\ (msg.maxId = 0 => msg.added = 0)
  BY <1>3 DEF SparseOpen, SparseRecord
<1>5. /\ Len(left) = msg.base + msg.added /\ TablesHeld = msg.base
      /\ msg.base \in Nat /\ msg.added \in Nat
      /\ \A i \in msg.base + 1 .. msg.base + msg.added :
           left[i] \in FieldEntry /\ left[i].off \in msg.start + 1 .. Size
      /\ Tables(SubSeq(left, 1, msg.base), Floor)
      /\ msg.added = 0 => Tables(left, Floor)
  BY <1>1, <1>3, SparseEntries
<1>6. Size \in Nat /\ Floor = msg.start
  BY <1>1, <1>3, SeqFacts, FloorCases DEF Size
<1>7. start \in Nat /\ msg.start < start /\ start = Size + 1 /\ 1 <= start
  BY <1>4, <1>6
<1>8. Len(left) - msg.added = msg.base
  BY <1>5
<1>9. l = SubSeq(left, 1, msg.base)
  BY <1>8
<1> HIDE DEF l
<1>10. \A w \in Int : right' = Push(right, <<w>>) =>
         /\ right' \in Seq(Int) /\ Size' = Size + 1 /\ \A k \in 1 .. Size : right'[k] = right[k]
  <2>1. ASSUME NEW w \in Int, right' = Push(right, <<w>>)
        PROVE  /\ right' \in Seq(Int) /\ Size' = Size + 1
               /\ \A k \in 1 .. Size : right'[k] = right[k]
    <3>1. <<w>> \in Seq(Int) /\ Len(<<w>>) = 1
      OBVIOUS
    <3> QED
      BY <1>3, <2>1, <3>1, PushKeeps
  <2> QED
    BY <2>1
<1>11. SparseLimit(msg.maxId) \in Int
  BY <1>4 DEF SparseLimit
<1>12. msg.maxId # 0 =>
         /\ linked.r \in Seq(Int) /\ Len(linked.r) = start + 1 + size /\ size \in Nat
         /\ \A k \in 1 .. msg.start : linked.r[k] = right[k]
  <2> SUFFICES ASSUME msg.maxId # 0
               PROVE  /\ linked.r \in Seq(Int) /\ Len(linked.r) = start + 1 + size /\ size \in Nat
                      /\ \A k \in 1 .. msg.start : linked.r[k] = right[k]
    OBVIOUS
  <2>1. size \in Nat /\ size + 1 \in Nat
    BY <1>4, MetaSizeProperties
  <2> HIDE DEF size
  <2>2. zeros \in Seq(Int) /\ Len(zeros) = size + 1
    BY <2>1, ZerosProperties
  <2> HIDE DEF zeros
  <2>3. block \in Seq(Int) /\ Len(block) = size + 2
    <3> DEFINE limit == SparseLimit(msg.maxId)
    <3> HIDE DEF limit
    <3>1. <<limit>> \in Seq(Int) /\ Len(<<limit>>) = 1
      BY <1>11 DEF limit
    <3>2. /\ zeros \o <<limit>> \in Seq(Int)
          /\ Len(zeros \o <<limit>>) = Len(zeros) + Len(<<limit>>)
      BY <2>2, <3>1, ConcatFacts
    <3> QED
      BY <2>1, <2>2, <3>1, <3>2 DEF limit
  <2> HIDE DEF block
  <2>4. /\ whole \in Seq(Int) /\ Len(whole) = Size + size + 2
        /\ \A k \in 1 .. Size : whole[k] = right[k]
    <3>1. /\ whole \in Seq(Int) /\ Len(whole) = Len(right) + Len(block)
          /\ \A k \in 1 .. Len(right) : whole[k] = right[k]
      BY <1>3, <2>3, PushProperties
    <3> HIDE DEF whole
    <3>2. Len(right) = Size
      BY DEF Size
    <3> QED
      BY ONLY <1>6, <2>1, <2>3, <3>1, <3>2
  <2> HIDE DEF whole, start
  <2>5. start <= Len(whole) /\ start - 1 = Size
    BY ONLY <1>6, <1>7, <2>1, <2>4
  <2>6. \A i \in msg.base + 1 .. msg.base + msg.added :
          left[i] \in FieldEntry /\ left[i].off \in msg.start + 1 .. start - 1
    BY <1>5, <2>5
  <2>7. /\ linked.r \in Seq(Int) /\ Len(linked.r) = Len(whole)
        /\ \A k \in 1 .. Len(whole) : k <= msg.start => linked.r[k] = whole[k]
    BY <1>4, <1>5, <1>7, <2>4, <2>5, <2>6, LinkFieldsProperties
  <2> HIDE DEF linked
  <2>8. \A k \in 1 .. msg.start : k \in 1 .. Len(whole) /\ k <= msg.start /\ k \in 1 .. Size
    BY ONLY <1>4, <1>6, <2>1, <2>4
  <2>9. Len(linked.r) = start + 1 + size
    BY ONLY <1>6, <1>7, <2>1, <2>4, <2>7
  <2> QED
    BY <2>1, <2>4, <2>7, <2>8, <2>9
<1> HIDE DEF start, linked, size
<1>13. CASE msg.maxId = 0 /\ right' = Push(right, <<2>>) /\ left' = left
            /\ Checked(start) /\ Close(start, Presence(msg))
  <2>1. right' \in Seq(Int) /\ Size' = Size + 1 /\ \A k \in 1 .. Size : right'[k] = right[k]
    BY <1>10, <1>13
  <2>2. /\ start <= Size' /\ msg.start <= Size' /\ Size' \in Nat
        /\ \A k \in 1 .. msg.start : right'[k] = right[k]
    BY ONLY <1>4, <1>6, <1>7, <2>1
  <2>3. msg' = None
    BY <1>13 DEF Close
  <2>4. Floor' = Size' /\ msg'.is # "sparse"
    BY <2>3, FloorCases DEF None
  <2>5. Tables(left', Floor')
    BY <1>4, <1>5, <1>6, <1>13, <2>2, <2>4, TablesRaised
  <2>6. LeftInv'
    BY <2>4, <2>5, TablesAreLeft
  <2> QED
    BY <1>1, <1>7, <1>13, <2>1, <2>2, <2>6, PresenceKind, CloseKeeps, SMTT(30) DEF OpenKinds
<1>14. ASSUME right' \in Seq(Int), Size <= Size', Size' \in Nat,
              \A k \in 1 .. msg.start : right'[k] = right[k],
              msg' = [msg EXCEPT !.tainted = TRUE], UNCHANGED <<depth, objects>>,
              left' = left \/ (left' = l /\ ~Checked(Size'))
       PROVE  IInv' /\ Kept
  <2>1. /\ msg' \in SparseRecord(msg.fields) /\ msg'.fields = msg.fields /\ msg'.maxId = msg.maxId
        /\ msg'.start = msg.start /\ msg'.base = msg.base /\ msg'.added = msg.added
        /\ msg'.is = "sparse" /\ msg'.tainted
    BY ONLY <1>4, <1>14 DEF SparseRecord
  <2>2. Floor' = msg.start /\ TablesHeld' = TablesHeld /\ TablesHeld' = msg.base
    BY <1>5, <2>1, FloorCases DEF TablesHeld
  <2>3. msg.start <= Size'
    BY ONLY <1>4, <1>6, <1>14
  <2>4. /\ LeftInv'
        /\ Len(left') = msg.base + msg.added \/ (Len(left') = msg.base /\ ~Checked(Size'))
    <3>1. CASE left' = left
      <4>1. LeftInv'
        BY <1>1, <1>4, <1>6, <1>14, <2>1, <2>2, <3>1, LeftKept DEF IInv
      <4>2. Len(left') = msg.base + msg.added
        BY ONLY <1>5, <3>1
      <4> QED
        BY ONLY <4>1, <4>2
    <3>2. CASE left' = l /\ ~Checked(Size')
      <4>1. left' = SubSeq(left, 1, msg.base) /\ Tables(left', msg.start)
        BY <1>5, <1>6, <1>9, <3>2
      <4>2. /\ left' \in Seq(Table) /\ DOMAIN left' = 1 .. Len(left')
            /\ \A i \in 1 .. Len(left') : left'[i] \in Table
        BY <4>1, SeqFacts DEF Tables
      <4>3. Len(left') = msg.base
        BY <1>5, <4>1, SeqFacts DEF IInv, LeftInv
      <4>4. left' \in Seq(Table \cup FieldEntry)
        BY <4>2
      <4>5. LeftInv'
        BY <2>2, <4>1, <4>2, <4>3, <4>4 DEF LeftInv, Tables
      <4> QED
        BY <3>2, <4>3, <4>5
    <3> QED
      BY <1>14, <3>1, <3>2
  <2>5. SparseOpen'
    BY ONLY <1>4, <2>1, <2>3, <2>4 DEF SparseOpen
  <2> QED
    BY <1>1, <1>14, <2>1, <2>3, <2>4, <2>5, WriteKeeps DEF OpenKinds, MessageInv
<1>15. CASE /\ \/ msg.maxId = 0 /\ right' = Push(right, <<2>>)
               \/ msg.maxId # 0 /\ right' = Push(right, <<SparseLimit(msg.maxId)>>)
               \/ msg.maxId # 0 /\ right' = linked.r
            /\ Tainted /\ UNCHANGED <<left, depth, objects>>
  <2>1. /\ right' \in Seq(Int) /\ Size <= Size' /\ Size' \in Nat
        /\ \A k \in 1 .. msg.start : right'[k] = right[k]
    <3>1. ASSUME NEW w \in Int, right' = Push(right, <<w>>)
          PROVE  /\ right' \in Seq(Int) /\ Size <= Size' /\ Size' \in Nat
                 /\ \A k \in 1 .. msg.start : right'[k] = right[k]
      <4>1. right' \in Seq(Int) /\ Size' = Size + 1 /\ \A k \in 1 .. Size : right'[k] = right[k]
        BY <1>10, <3>1
      <4> QED
        BY ONLY <1>4, <1>6, <4>1
    <3>2. CASE msg.maxId # 0 /\ right' = linked.r
      <4>1. Size' = start + 1 + size
        BY <1>12, <3>2 DEF Size
      <4> QED
        BY <1>6, <1>7, <1>12, <3>2, <4>1
    <3> QED
      BY <1>11, <1>15, <3>1, <3>2
  <2> QED
    BY <1>14, <1>15, <2>1 DEF Tainted
<1>16. CASE msg.maxId # 0 /\ Checked(start) /\ FinishMetadata(linked.r, l, msg, start)
  <2> DEFINE r == linked.r
  <2>1. /\ r \in Seq(Int) /\ Len(r) = start + 1 + MetaSize(msg.maxId) /\ size \in Nat
        /\ Len(r) = start + 1 + size
        /\ \A k \in 1 .. msg.start : r[k] = right[k]
    BY <1>12, <1>16 DEF size
  <2>2. FinishMetadata(r, l, msg, start)
    BY <1>16
  <2> HIDE DEF r
  <2>3. \/ IInv' /\ Kept
        \/ /\ ~Checked(Len(r)) /\ right' = r /\ left' = l
           /\ msg' = [msg EXCEPT !.tainted = TRUE] /\ UNCHANGED <<depth, objects>>
    BY <1>1, <1>4, <1>5, <1>6, <1>7, <1>9, <1>16, <2>1, <2>2, FinishMetadataPreserves
  <2>4. CASE /\ ~Checked(Len(r)) /\ right' = r /\ left' = l
             /\ msg' = [msg EXCEPT !.tainted = TRUE] /\ UNCHANGED <<depth, objects>>
    <3>1. Size' = Len(r)
      BY <2>4 DEF Size
    <3>2. ~Checked(Size')
      BY <2>4, <3>1
    <3>3. Size <= Size' /\ Size' \in Nat
      BY ONLY <1>6, <1>7, <2>1, <3>1
    <3> QED
      BY <1>14, <2>1, <2>4, <3>2, <3>3
  <2> QED
    BY <2>3, <2>4
<1> QED
  BY <1>2, <1>13, <1>15, <1>16

LEMMA FinishSparsePreserves ==
  ASSUME IInv, FinishSparse
  PROVE  IInv' /\ Kept
  BY FinishSparseBeyondPreserves, FinishSparseWithinPreserves

-----------------------------------------------------------------------------
(* SparseMessageSerializer with its fields accounted for.                  *)

(* What is above the typed limit: the metadata and the word linking to it. *)
Above(maxId) == IF maxId = 0 THEN 0 ELSE MetaSize(maxId) + 1

LEMMA AboveProperties ==
  ASSUME NEW maxId \in Nat, maxId # 0 => maxId >= 2
  PROVE  Above(maxId) \in Nat
  BY MetaSizeProperties DEF Above

LEMMA StartPreallocatedPreserves ==
  ASSUME IInv, NEW explicit \in BOOLEAN, NEW accounted \in SUBSET Field,
         StartPreallocated(explicit, accounted)
  PROVE  IInv' /\ Kept
<1> DEFINE count == Cardinality(accounted)
           end == Size + count + 1
           maxId == IF accounted = {} THEN 0 ELSE Max(accounted) + 1
           meta == Above(maxId)
           limit == IF maxId = 0 THEN 2 ELSE SparseLimit(maxId)
           zeros == Zeros(meta)
           junks == Junks(count)
           block == zeros \o <<limit>> \o junks
           tainted == ~Checked(end)
           m == [is |-> "preallocated", explicit |-> explicit, start |-> Size,
                 end |-> 0, base |-> 0, maxId |-> 0, prev |-> 0, prevOffset |-> 0,
                 accounted |-> accounted, tainted |-> tainted, fields |-> <<>>]
           last == count + 1
           opened == [m EXCEPT !.end = end, !.base = end, !.maxId = maxId, !.prevOffset = last]
<1>1. /\ NotFinished /\ msg = None
      /\ IF Checked(end) THEN right' = Push(right, block) /\ Open(opened)
                         ELSE right' = right /\ Open(m)
      /\ UNCHANGED <<left, inline, pool, finished, forced, objects, root>>
  BY Unnested DEF StartPreallocated, Above
<1>2. right \in Seq(Int) /\ Size \in Nat
  BY SeqFacts DEF IInv, ScalarsInv, Size
<1>3. count \in Nat /\ maxId \in Nat /\ (maxId # 0 => maxId >= 2)
  <2>1. count \in Nat /\ (accounted # {} => Max(accounted) \in Field)
    BY CardinalityFacts
  <2>2. \A id \in Field : id \in Nat /\ id >= 1
    BY DEF Field
  <2> QED
    BY <2>1, <2>2
<1> HIDE DEF count, maxId
<1>4. meta \in Nat /\ end \in Nat /\ limit \in Int /\ tainted \in BOOLEAN
  BY <1>2, <1>3, AboveProperties DEF SparseLimit, Checked
<1> HIDE DEF limit, tainted
<1>5. block \in Seq(Int) /\ Len(block) = meta + 1 + count
  <2> HIDE DEF meta
  <2>1. /\ zeros \in Seq(Int) /\ Len(zeros) = meta
        /\ junks \in Seq(Int) /\ Len(junks) = count
        /\ <<limit>> \in Seq(Int) /\ Len(<<limit>>) = 1
    BY <1>3, <1>4, ZerosProperties, JunksProperties
  <2> HIDE DEF zeros, junks
  <2>2. /\ zeros \o <<limit>> \in Seq(Int)
        /\ Len(zeros \o <<limit>>) = Len(zeros) + Len(<<limit>>)
    BY ONLY <2>1, ConcatFacts
  <2>3. /\ block \in Seq(Int)
        /\ Len(block) = Len(zeros \o <<limit>>) + Len(junks)
    BY ONLY <2>1, <2>2, ConcatFacts DEF block
  <2> QED
    BY ONLY <1>3, <1>4, <2>1, <2>2, <2>3
<1> HIDE DEF block
<1>6. CASE Checked(end)
  <2>1. /\ right' \in Seq(Int) /\ Size' = Size + (meta + 1 + count)
        /\ \A k \in 1 .. Size : right'[k] = right[k]
    BY <1>1, <1>2, <1>5, <1>6, PushKeeps
  <2>2. Size' = end + meta /\ Size' \in Nat /\ Size <= Size' /\ end = Size + count + 1
    BY <1>2, <1>3, <1>4, <2>1
  <2> HIDE DEF end, meta
  <2>3. Open(opened) /\ msg' = opened
    BY <1>1, <1>6 DEF Open
  <2>4. m \in PreallocatedRecord(<<>>) /\ m.start = Size /\ m.accounted = accounted
    BY <1>2, <1>4 DEF PreallocatedRecord
  <2>5. last \in Int /\ last = count + 1
    BY <1>3
  <2> HIDE DEF m, last
  <2>6. /\ msg' \in PreallocatedRecord(<<>>) /\ msg'.fields = <<>> /\ msg'.is = "preallocated"
        /\ msg'.start = Size /\ msg'.end = end /\ msg'.base = end /\ msg'.maxId = maxId
        /\ msg'.prevOffset = last /\ msg'.accounted = accounted
    BY ONLY <1>3, <1>4, <2>3, <2>4, <2>5 DEF opened, PreallocatedRecord
  <2>7. PreallocatedOpen'
    <3>1. /\ end # 0 /\ end = msg'.start + Cardinality(msg'.accounted) + 1 /\ Checked(msg'.base)
          /\ msg'.prevOffset <= Cardinality(msg'.accounted) + 1
          /\ Size' = msg'.base + IF msg'.maxId = 0 THEN 0 ELSE MetaSize(msg'.maxId) + 1
      BY <1>2, <1>3, <1>4, <1>6, <2>2, <2>5, <2>6 DEF count, meta, Above
    <3> QED
      BY ONLY <1>3, <2>6, <3>1 DEF PreallocatedOpen, Checked
  <2>8. Floor' = Size /\ TablesHeld' = Len(left)
    BY <1>1, <2>6, FloorCases DEF TablesHeld
  <2> QED
    BY <1>1, <1>2, <2>1, <2>2, <2>3, <2>7, <2>8, OpenKeeps DEF MessageInv
<1>7. CASE ~Checked(end)
  <2>1. Open(m) /\ msg' = m /\ right' = right /\ Size' = Size
    BY <1>1, <1>7 DEF Open, Size
  <2>2. PreallocatedOpen'
    BY <1>2, <1>4, <2>1 DEF PreallocatedOpen, PreallocatedRecord
  <2>3. Floor' = Size /\ TablesHeld' = Len(left)
    BY <1>1, <2>1, FloorCases DEF TablesHeld
  <2> HIDE DEF m
  <2> QED
    BY <1>1, <1>2, <2>1, <2>2, <2>3, OpenKeeps DEF MessageInv
<1> QED
  BY <1>6, <1>7

(* A field is written just below the last one.                             *)
WrittenBelow(id, v, word) ==
  /\ msg.prevOffset >= 1
  /\ ~msg.tainted => msg.prevOffset - 1 < EntryMod(id)
  /\ right' = [WriteFieldMeta(right, msg.base, id, msg.prevOffset - 1)
                 EXCEPT ![msg.base - (msg.prevOffset - 1)] = word]
  /\ msg' = [msg EXCEPT !.prev = id, !.prevOffset = msg.prevOffset - 1,
                        !.fields = Added(id, v)]

LEMMA OffsetIsBelow ==
  ASSUME ~wrapped', msg.prevOffset \in Int,
         NEW id, NEW v, NEW word, NEW scalar \in BOOLEAN,
         AddPreallocated(id, v, word, scalar)
  PROVE  WrittenBelow(id, v, word)
<1>1. PICK offset \in OffsetsBelow(msg.prevOffset, scalar) :
        /\ ~msg.tainted => offset < EntryMod(id)
        /\ right' = Stored(WriteFieldMeta(right, msg.base, id, offset),
                           msg.base - offset, word)
        /\ msg' = [msg EXCEPT !.prev = id, !.prevOffset = offset, !.fields = Added(id, v)]
        /\ ~(offset > msg.prevOffset)
  BY DEF AddPreallocated
<1>2. offset = msg.prevOffset - 1 /\ msg.prevOffset >= 1
  <2>1. MaxField \in Nat \ {0} /\ FieldOffsetMod \in Nat /\ MaxField + 1 < FieldOffsetMod
    <3>1. MaxField \in 1 .. 8190
      BY WireAssumption
    <3> QED
      BY <3>1, SerializerAssumption
  <2>2. FieldOffsetMod - 1 > 1
    BY ONLY <2>1
  <2> QED
    BY <1>1, <2>1, <2>2 DEF OffsetsBelow
<1>3. ASSUME NEW r, NEW o, NEW w, r = [k \in DOMAIN r |-> r[k]]
      PROVE  Stored(r, o, w) = [r EXCEPT ![o] = w]
  <2>1. CASE o \in DOMAIN r
    BY <2>1 DEF Stored
  <2>2. CASE o \notin DOMAIN r
    <3>1. [r EXCEPT ![o] = w] = [k \in DOMAIN r |-> r[k]]
      BY <2>2
    <3> QED
      BY <1>3, <2>2, <3>1 DEF Stored
  <2> QED
    BY <2>1, <2>2
<1>4. LET marked == WriteFieldMeta(right, msg.base, id, offset)
      IN  marked = [k \in DOMAIN marked |-> marked[k]]
  BY DEF WriteFieldMeta
<1> QED
  BY <1>1, <1>2, <1>3, <1>4 DEF WrittenBelow

LEMMA AddPreallocatedPreserves ==
  ASSUME IInv, ~wrapped', NEW id \in Field, NEW v, NEW word \in Int, NEW scalar \in BOOLEAN,
         AddPreallocated(id, v, word, scalar)
  PROVE  IInv' /\ Kept
<1> DEFINE offset == msg.prevOffset - 1
           marked == WriteFieldMeta(right, msg.base, id, offset)
           place == msg.base - offset
           fields == Added(id, v)
<1>1. /\ msg.is = "preallocated" /\ msg.base # 0
      /\ right' = [marked EXCEPT ![place] = word]
      /\ msg' = [msg EXCEPT !.prev = id, !.prevOffset = offset, !.fields = fields]
      /\ UNCHANGED <<left, depth, inline, pool, finished, forced, objects, root>>
  <2>1. /\ msg.is = "preallocated" /\ msg.base # 0
        /\ UNCHANGED <<left, depth, inline, pool, finished, forced, objects, root>>
    BY DEF AddPreallocated
  <2>2. msg.prevOffset \in Int
    BY <2>1, MessageKinds DEF IInv, PreallocatedOpen, PreallocatedRecord
  <2>3. WrittenBelow(id, v, word)
    BY <2>2, OffsetIsBelow
  <2> QED
    BY <2>1, <2>3, Zenon DEF WrittenBelow
<1>2. PreallocatedOpen /\ right \in Seq(Int)
  BY <1>1, MessageKinds DEF IInv, ScalarsInv
<1>3. /\ msg \in PreallocatedRecord(msg.fields) /\ msg.start \in Nat /\ msg.base \in Nat
      /\ msg.prevOffset \in Int /\ msg.end = msg.base /\ msg.maxId \in Nat
      /\ msg.base = msg.start + Cardinality(msg.accounted) + 1 /\ Checked(msg.base)
      /\ msg.prevOffset <= Cardinality(msg.accounted) + 1
      /\ (msg.maxId # 0 => msg.maxId >= 2)
      /\ Size = msg.base + Above(msg.maxId)
      /\ Cardinality(msg.accounted) \in Nat
  BY <1>1, <1>2, CardinalityFacts DEF PreallocatedOpen, PreallocatedRecord, Above
<1>4. id \in Nat \ {0} /\ offset \in Int /\ offset <= Cardinality(msg.accounted)
  BY <1>3 DEF Field
<1>5. place \in Int /\ place > msg.start /\ Above(msg.maxId) \in Nat /\ Size \in Nat /\ msg.base <= Size
  BY <1>3, <1>4, AboveProperties
<1> HIDE DEF offset, place, fields
<1>6. /\ marked \in Seq(Int) /\ Len(marked) = Len(right)
      /\ \A k \in 1 .. Len(right) : k <= msg.base + 1 => marked[k] = right[k]
  <2>1. right \in Seq(Int) /\ msg.base \in Nat /\ id \in Nat \ {0} /\ offset \in Int
    BY <1>2, <1>3, <1>4
  <2> QED
    BY ONLY <2>1, WriteFieldMetaProperties
<1> HIDE DEF marked
<1>7. /\ right' \in Seq(Int) /\ Size' = Size /\ msg.start <= Size'
      /\ \A k \in 1 .. msg.start : right'[k] = right[k]
  <2>1. /\ right' \in Seq(Int) /\ Len(right') = Len(marked)
        /\ \A k \in 1 .. Len(marked) : right'[k] = IF k = place THEN word ELSE marked[k]
    <3>1. marked \in Seq(Int) /\ place \in Int /\ word \in Int /\ right' = [marked EXCEPT ![place] = word]
      BY <1>1, <1>5, <1>6
    <3> QED
      BY ONLY <3>1, SetProperties
  <2>2. \A k \in 1 .. msg.start : k \in 1 .. Len(right) /\ k <= msg.base + 1 /\ k # place
    BY <1>3, <1>5 DEF Size
  <2> QED
    <3>1. \A k \in 1 .. msg.start : right'[k] = right[k]
      BY ONLY <1>6, <2>1, <2>2
    <3>2. Size' = Size
      BY ONLY <1>6, <2>1 DEF Size
    <3>3. msg.start <= Size'
      BY ONLY <1>3, <1>5, <3>2
    <3> QED
      BY ONLY <2>1, <3>1, <3>2, <3>3
<1>8. /\ msg' \in PreallocatedRecord(fields) /\ msg'.fields = fields /\ msg'.is = "preallocated"
      /\ msg'.start = msg.start /\ msg'.end = msg.end /\ msg'.base = msg.base
      /\ msg'.maxId = msg.maxId /\ msg'.prevOffset = offset /\ msg'.accounted = msg.accounted
  BY ONLY <1>1, <1>3, <1>4 DEF PreallocatedRecord
<1>9. PreallocatedOpen'
  BY ONLY <1>1, <1>3, <1>4, <1>7, <1>8, SMTT(30) DEF PreallocatedOpen, Above, Checked
<1>10. Floor' = msg.start /\ Floor = msg.start
  BY <1>1, <1>8, FloorCases
<1>11. LeftInv'
  BY <1>1, <1>3, <1>8, <1>10, OtherTablesKept
<1> QED
  BY <1>1, <1>7, <1>8, <1>9, <1>11, WriteKeeps DEF OpenKinds, MessageInv

LEMMA FinishPreallocatedPreserves ==
  ASSUME IInv, FinishPreallocated
  PROVE  IInv' /\ Kept
<1> DEFINE m == [msg EXCEPT !.prevOffset = 1]
<1>1. /\ msg.is = "preallocated" /\ msg.end # 0
      /\ UNCHANGED <<inline, pool, finished, forced, root>>
      /\ IF msg.maxId = 0
           THEN Close(msg.end, Presence(msg)) /\ UNCHANGED <<right, left>>
           ELSE FinishMetadata(right, left, m, msg.end)
  BY DEF FinishPreallocated
<1>2. PreallocatedOpen /\ right \in Seq(Int)
  BY <1>1, MessageKinds DEF IInv, ScalarsInv
<1>3. /\ msg \in PreallocatedRecord(msg.fields) /\ msg.start \in Nat /\ msg.end \in Nat
      /\ msg.end = msg.base /\ msg.maxId \in Nat
      /\ msg.base = msg.start + Cardinality(msg.accounted) + 1 /\ Checked(msg.end)
      /\ (msg.maxId # 0 => msg.maxId >= 2)
      /\ Size = msg.end + Above(msg.maxId)
      /\ Cardinality(msg.accounted) \in Nat
  BY <1>1, <1>2, CardinalityFacts DEF PreallocatedOpen, PreallocatedRecord, Above
<1>4. /\ msg.start < msg.end /\ 1 <= msg.end /\ Above(msg.maxId) \in Nat
      /\ Size \in Nat /\ msg.end <= Size /\ msg.start <= Size
  BY <1>3, AboveProperties
<1>5. Floor = msg.start
  BY <1>1, FloorCases
<1>6. Tables(left, msg.start)
  <2>1. TablesHeld = Len(left) /\ Len(left) \in Nat
    BY <1>1, SeqFacts DEF TablesHeld, IInv, LeftInv
  <2> QED
    BY <1>5, <2>1, TablesLeft DEF IInv
<1>7. CASE msg.maxId = 0
  <2>1. Close(msg.end, Presence(msg)) /\ UNCHANGED <<right, left>> /\ msg' = None
    BY <1>1, <1>7 DEF Close
  <2>2. Size' = Size /\ right' \in Seq(Int) /\ \A k \in 1 .. msg.start : right'[k] = right[k]
    BY <1>2, <2>1 DEF Size
  <2>3. Floor' = Size' /\ msg'.is # "sparse"
    BY <2>1, FloorCases DEF None
  <2>4. LeftInv'
    BY <1>1, <1>3, <1>4, <1>5, <2>1, <2>2, <2>3, OtherTablesKept
  <2> QED
    BY <1>1, <1>3, <1>4, <2>1, <2>2, <2>4, PresenceKind, CloseKeeps DEF OpenKinds
<1>8. CASE msg.maxId # 0
  <2>1. /\ m \in PreallocatedRecord(msg.fields) /\ m.fields = msg.fields
        /\ m.start = msg.start /\ m.end = msg.end /\ m.base = msg.base
        /\ m.maxId = msg.maxId /\ m.prevOffset = 1 /\ m.accounted = msg.accounted
    BY ONLY <1>3 DEF m, PreallocatedRecord
  <2>2. FinishMetadata(right, left, m, msg.end)
    BY <1>1, <1>8
  <2> HIDE DEF m
  <2>3. Len(right) = msg.end + 1 + MetaSize(m.maxId)
    BY <1>3, <1>8, <2>1, MetaSizeProperties, SMTT(30) DEF Above, Size
  <2>4. \/ IInv' /\ Kept
        \/ /\ ~Checked(Len(right)) /\ right' = right /\ left' = left
           /\ msg' = [m EXCEPT !.tainted = TRUE] /\ UNCHANGED <<depth, objects>>
    BY <1>1, <1>2, <1>3, <1>4, <1>6, <1>8, <2>1, <2>2, <2>3, FinishMetadataPreserves
  <2>5. CASE /\ right' = right /\ left' = left
             /\ msg' = [m EXCEPT !.tainted = TRUE] /\ UNCHANGED <<depth, objects>>
    <3>1. msg' = [m EXCEPT !.tainted = TRUE]
      BY <2>5
    <3>2. /\ msg' \in PreallocatedRecord(msg.fields) /\ msg'.fields = msg.fields
          /\ msg'.is = "preallocated"
          /\ msg'.start = msg.start /\ msg'.end = msg.end /\ msg'.base = msg.base
          /\ msg'.maxId = msg.maxId /\ msg'.prevOffset = 1 /\ msg'.accounted = msg.accounted
      BY ONLY <2>1, <3>1 DEF PreallocatedRecord
    <3>3. Size' = Size
      BY <2>5 DEF Size
    <3>4. PreallocatedOpen'
      BY ONLY <1>3, <1>8, <3>2, <3>3 DEF PreallocatedOpen, Above, Checked
    <3>5. Floor' = msg.start
      BY <3>2, FloorCases
    <3>6. LeftInv'
      BY <1>1, <1>3, <1>5, <2>5, <3>2, <3>5, OtherTablesKept
    <3>7. right' \in Seq(Int) /\ \A k \in 1 .. msg.start : right'[k] = right[k]
      BY <1>2, <2>5
    <3> QED
      BY <1>1, <1>4, <2>5, <3>2, <3>3, <3>4, <3>6, <3>7, WriteKeeps DEF OpenKinds, MessageInv
  <2> QED
    BY <2>4, <2>5
<1> QED
  BY <1>7, <1>8

-----------------------------------------------------------------------------
(* Finishing the buffer and starting over.                                 *)

(* The tables go, nothing else does.                                       *)
LEMMA LeftCleared ==
  ASSUME IInv, NotNested, NotFinished, left' = <<>>, UNCHANGED <<msg, depth, inline, pool, forced, objects>>,
         right' \in Seq(Int), Size <= Size', \A k \in 1 .. Size : right'[k] = right[k],
         finished' \in BOOLEAN, root' \in Nat, RootInv'
  PROVE  IInv' /\ Kept
<1>1. /\ msg = None /\ msg' = None /\ depth = 0 /\ inline = Closed
  BY Unnested
<1>2. /\ Kept /\ MessageInv' /\ PoolInv' /\ ObjectsInv'
      /\ Floor' = Size' /\ Size' \in Nat
  BY <1>1, NoMessageKeeps
<1>3. LeftInv'
  <2>1. Tables(left', Floor')
    BY DEF Tables
  <2> QED
    BY <1>1, <2>1, TablesAreLeft DEF None
<1>4. NestingInv'
  BY <1>1 DEF NestingInv, Closed
<1>5. ScalarsInv'
  BY <1>1 DEF IInv, ScalarsInv
<1> QED
  BY <1>2, <1>3, <1>4, <1>5 DEF IInv

LEMMA FinishPreserves ==
  ASSUME IInv, NEW o \in RefInputs, Finish(o)
  PROVE  IInv' /\ Kept
<1> DEFINE word == Size + 1 - o
<1>1. /\ NotFinished /\ NotNested /\ o # 0 /\ left' = <<>>
      /\ UNCHANGED <<msg, depth, inline, pool, forced, objects>>
      /\ \/ right' = Push(right, <<word>>) /\ finished' = TRUE /\ root' = o
         \/ UNCHANGED <<right, finished, root>>
  BY DEF Finish
<1>2. right \in Seq(Int) /\ Size \in Nat /\ finished \in BOOLEAN /\ root \in Nat
  BY SeqFacts DEF IInv, ScalarsInv, Size
<1>3. o \in Nat
  BY RefInputsType DEF IInv
<1>4. CASE UNCHANGED <<right, finished, root>>
  <2>1. RootInv'
    BY <1>1, <1>4 DEF IInv, RootInv, Size
  <2> QED
    BY <1>1, <1>2, <1>4, <2>1, LeftCleared DEF Size
<1>5. CASE right' = Push(right, <<word>>) /\ finished' = TRUE /\ root' = o
  <2>1. word \in Int
    BY <1>2, <1>3
  <2> HIDE DEF word
  <2>2. <<word>> \in Seq(Int) /\ Len(<<word>>) = 1 /\ <<word>>[1] = word
    BY <2>1
  <2>3. /\ right' \in Seq(Int) /\ Size' = Size + 1
        /\ \A k \in 1 .. Size : right'[k] = right[k]
    BY <1>2, <1>5, <2>2, PushKeeps
  <2>4. right'[Size + 1] = word
    <3>1. \A k \in 1 .. Len(<<word>>) :
            Push(right, <<word>>)[Len(right) + k] = <<word>>[Len(<<word>>) - k + 1]
      BY <1>2, <2>2, PushProperties
    <3>2. Push(right, <<word>>)[Len(right) + 1] = <<word>>[1]
      BY <2>2, <3>1
    <3> QED
      BY <1>5, <2>2, <3>2 DEF Size
  <2>5. ~BadCalls => \E x \in objects : x.off = o
    BY <1>1 DEF RefInputs
  <2>6. RootInv'
    BY <1>1, <1>2, <1>3, <1>5, <2>3, <2>4, <2>5 DEF RootInv, word
  <2>7. finished' \in BOOLEAN /\ root' \in Nat /\ Size <= Size'
    BY <1>2, <1>3, <1>5, <2>3
  <2> QED
    BY <1>1, <2>3, <2>6, <2>7, LeftCleared
<1> QED
  BY <1>1, <1>4, <1>5

LEMMA FinishRawPreserves ==
  ASSUME IInv, FinishRaw
  PROVE  IInv' /\ Kept
<1>1. /\ NotFinished /\ NotNested /\ left' = <<>> /\ finished' = TRUE
      /\ UNCHANGED <<right, msg, depth, inline, pool, forced, objects, root>>
  BY DEF FinishRaw
<1>2. right \in Seq(Int) /\ Size \in Nat /\ Size' = Size /\ root \in Nat
  BY <1>1, SeqFacts DEF IInv, ScalarsInv, Size
<1>3. RootInv'
  BY <1>1 DEF IInv, RootInv, NotFinished
<1> QED
  BY <1>1, <1>2, <1>3, LeftCleared

(* The invariant holds again when the buffer is emptied, whatever it was.  *)
LEMMA EmptiedPreserves ==
  ASSUME forced \in Modes, Emptied
  PROVE  IInv'
<1>1. /\ right' = <<>> /\ left' = <<>> /\ msg' = None /\ depth' = 0 /\ pool' = {}
      /\ finished' = FALSE /\ inline' = Closed /\ objects' = {} /\ root' = 0 /\ forced' = forced
  BY DEF Emptied
<1>2. ScalarsInv'
  <2>1. <<>> \in Seq(Int)
    OBVIOUS
  <2> QED
    BY <1>1, <2>1 DEF ScalarsInv
<1>3. MessageInv' /\ LeftInv' /\ NestingInv' /\ PoolInv' /\ ObjectsInv' /\ RootInv'
  BY <1>1 DEF MessageInv, LeftInv, NestingInv, PoolInv, ObjectsInv, RootInv, Closed, None
<1> QED
  BY <1>2, <1>3 DEF IInv

(* Everything but the setting stays, whatever it is.                       *)
LEMMA SettingPreserves ==
  ASSUME IInv, UNCHANGED <<right, left, msg, depth, inline, pool, finished, objects, root>>,
         forced' \in Modes
  PROVE  IInv' /\ Kept
<1>1. Size' = Size /\ Floor' = Floor /\ TablesHeld' = TablesHeld
  BY DEF Size, Floor, TablesHeld
<1>2. Kept
  BY <1>1, FloorType DEF Kept, IInv, ScalarsInv
<1>3. ScalarsInv' /\ NestingInv' /\ RootInv'
  BY <1>1 DEF IInv, ScalarsInv, NestingInv, RootInv, InlineArray
<1>4. MessageInv'
  BY <1>1 DEF IInv, MessageInv, FixedOpen, FlatOpen, FlatMessage, FlatRecord, FlatTop,
              SparseOpen, SparseRecord, PreallocatedOpen, PreallocatedRecord, Checked
<1>5. LeftInv' /\ PoolInv' /\ ObjectsInv'
  BY <1>1 DEF IInv, LeftInv, PoolInv, ObjectsInv
<1> QED
  BY <1>2, <1>3, <1>4, <1>5 DEF IInv

-----------------------------------------------------------------------------
(* Every step.                                                             *)

LEMMA WritePreserves ==
  ASSUME IInv, Write
  PROVE  IInv' /\ Kept
<1>1. CASE \E s \in Strings : SerializeString(s)
  BY <1>1, SerializeStringPreserves
<1>2. CASE \E v \in Vectors : SerializeArray(v)
  BY <1>2, SerializeArrayPreserves
<1>3. CASE \E n \in RefLists : \E list \in [1 .. n -> RefInputs] : SerializeOffsets(list)
  BY <1>3, SerializeOffsetsPreserves
<1>4. CASE StartInline
  BY <1>4, StartInlinePreserves
<1>5. CASE NextElement
  BY <1>5, NextElementPreserves
<1>6. CASE LastElement
  BY <1>6, LastElementPreserves
<1>7. CASE AbandonInline
  BY <1>7, AbandonInlinePreserves
<1> QED
  BY <1>1, <1>2, <1>3, <1>4, <1>5, <1>6, <1>7 DEF Write

LEMMA AddScalarPreserves ==
  ASSUME IInv, ~wrapped', AddScalar
  PROVE  IInv' /\ Kept
<1>1. PICK v \in Scalar :
        \/ \E id \in Field \ RefFields :
             \/ AddFixedScalar(id, v, Default[id])
             \/ AddFlatScalar(id, v, Default[id])
             \/ AddPreallocatedScalar(id, v, Default[id])
             \/ AddSparseScalar(id, v, Default[id])
        \/ \E id \in IF BadCalls THEN {0, IdLimit} ELSE {} : AddSparseScalar(id, v, 1 - v)
  BY DEF AddScalar
<1>2. v \in Int
  BY DEF Scalar
<1>3. ASSUME NEW id \in Nat, NEW default, AddSparseScalar(id, v, default)
      PROVE  IInv' /\ Kept
  <2>1. AddSparse(id, v, TRUE)
    BY <1>3 DEF AddSparseScalar
  <2> QED
    BY <1>2, <2>1, AddSparsePreserves
<1>4. ASSUME NEW id \in Field \ RefFields,
             \/ AddFixedScalar(id, v, Default[id])
             \/ AddFlatScalar(id, v, Default[id])
             \/ AddPreallocatedScalar(id, v, Default[id])
             \/ AddSparseScalar(id, v, Default[id])
      PROVE  IInv' /\ Kept
  <2>1. id \in Field /\ id \in Nat
    BY DEF Field
  <2>2. Default[id] \in Int
    BY <2>1, SerializerAssumption DEF Scalar
  <2> DEFINE default == Default[id]
  <2>3. default \in Int
    BY <2>2
  <2> HIDE DEF default
  <2>4. CASE AddFixedScalar(id, v, default)
    <3>1. AddFixed(id, v, Xor(v, default))
      BY <2>4 DEF AddFixedScalar
    <3>2. Xor(v, default) \in Int
      BY <1>2, <2>3 DEF Xor
    <3> QED
      BY <2>1, <3>1, <3>2, AddFixedPreserves
  <2>5. CASE AddFlatScalar(id, v, default)
    <3>1. AddFlat(id, v, default, TRUE)
      BY <2>5 DEF AddFlatScalar
    <3> QED
      BY <1>2, <2>1, <2>3, <3>1, AddFlatPreserves
  <2>6. CASE AddPreallocatedScalar(id, v, default)
    <3>1. AddPreallocated(id, v, v, TRUE)
      BY <2>6 DEF AddPreallocatedScalar
    <3> QED
      BY <1>2, <2>1, <3>1, AddPreallocatedPreserves
  <2>7. CASE AddSparseScalar(id, v, default)
    BY <1>3, <2>1, <2>7
  <2> QED
    BY <1>4, <2>4, <2>5, <2>6, <2>7 DEF default
<1>5. IdLimit \in Nat
  BY WireAssumption DEF IdLimit
<1> QED
  BY <1>1, <1>3, <1>4, <1>5

LEMMA AddRefPreserves ==
  ASSUME IInv, ~wrapped', AddRef
  PROVE  IInv' /\ Kept
<1>1. PICK id \in RefFields, o \in RefInputs :
        \/ AddFixedRef(id, o)
        \/ AddFlatRef(id, o)
        \/ AddPreallocatedRef(id, o)
        \/ AddSparseRef(id, o)
  BY DEF AddRef
<1>2. o \in Nat /\ id \in Field /\ id \in Nat
  BY RefInputsType, SerializerAssumption DEF IInv, Field
<1>3. CASE AddFixedRef(id, o)
  <2>1. AddFixed(id, o, msg.loc - o) /\ msg.is = "fixed"
    BY <1>3 DEF AddFixedRef
  <2>2. msg.loc - o \in Int
    BY <1>2, <2>1, MessageKinds DEF IInv, FixedOpen
  <2> QED
    BY <1>2, <2>1, <2>2, AddFixedPreserves
<1> DEFINE scalar == FALSE
<1>7. scalar \in BOOLEAN
  OBVIOUS
<1>4. CASE AddFlatRef(id, o)
  <2>1. AddFlat(id, o, 0, scalar)
    BY <1>4 DEF AddFlatRef
  <2> HIDE DEF scalar
  <2> QED
    BY <1>2, <1>7, <2>1, AddFlatPreserves
<1>5. CASE AddPreallocatedRef(id, o)
  <2>1. AddPreallocated(id, o, msg.end - o, scalar) /\ msg.is = "preallocated"
    BY <1>5 DEF AddPreallocatedRef
  <2>2. msg.end - o \in Int
    BY <1>2, <2>1, MessageKinds DEF IInv, PreallocatedOpen, PreallocatedRecord
  <2> HIDE DEF scalar
  <2> QED
    BY <1>2, <1>7, <2>1, <2>2, AddPreallocatedPreserves
<1>6. CASE AddSparseRef(id, o)
  <2>1. AddSparse(id, o, scalar)
    BY <1>6 DEF AddSparseRef
  <2> HIDE DEF scalar
  <2> QED
    BY <1>2, <1>7, <2>1, AddSparsePreserves
<1> QED
  BY <1>1, <1>3, <1>4, <1>5, <1>6

LEMMA StartMessagePreserves ==
  ASSUME IInv, ~wrapped', StartMessage
  PROVE  IInv' /\ Kept
  BY StartFixedPreserves, StartFlatPreserves, StartSparsePreserves, StartPreallocatedPreserves
     DEF StartMessage

LEMMA FinishMessagePreserves ==
  ASSUME IInv, FinishMessage
  PROVE  IInv' /\ Kept
  BY FinishFixedPreserves, FinishFlatPreserves, FinishSparsePreserves, FinishPreallocatedPreserves
     DEF FinishMessage

(* A step keeps the words below the open message or empties the buffer.    *)
LEMMA NextPreserves ==
  ASSUME IInv, ~wrapped', [Next]_vars
  PROVE  IInv' /\ (Emptied \/ Kept)
<1>1. CASE Write
  BY <1>1, WritePreserves
<1>2. CASE StartMessage
  BY <1>2, StartMessagePreserves
<1>3. CASE AddScalar
  BY <1>3, AddScalarPreserves
<1>4. CASE AddRef
  BY <1>4, AddRefPreserves
<1>5. CASE FinishMessage
  BY <1>5, FinishMessagePreserves
<1>6. CASE \E o \in RefInputs : Finish(o)
  BY <1>6, FinishPreserves
<1>7. CASE FinishRaw
  BY <1>7, FinishRawPreserves
<1>8. CASE Clear \/ Reset \/ Release
  BY <1>8, EmptiedPreserves DEF Clear, Reset, Release, IInv, ScalarsInv
<1>9. CASE \E mode \in Modes : EnforceDynamicAlternative(mode)
  <2>1. PICK mode \in Modes : EnforceDynamicAlternative(mode)
    BY <1>9
  <2>2. forced' = mode /\ mode \in Modes
    BY <2>1 DEF EnforceDynamicAlternative
  <2> QED
    BY <2>1, <2>2, SettingPreserves DEF EnforceDynamicAlternative
<1>10. CASE UNCHANGED vars
  <2>1. forced \in Modes
    BY DEF IInv, ScalarsInv
  <2> QED
    BY <1>10, <2>1, SettingPreserves DEF vars
<1> QED
  BY <1>1, <1>2, <1>3, <1>4, <1>5, <1>6, <1>7, <1>8, <1>9, <1>10 DEF Next

LEMMA InitEstablishes ==
  ASSUME Init
  PROVE  IInv
<1>1. ScalarsInv
  <2>1. right = <<>> /\ depth = 0 /\ inline = Closed /\ finished = FALSE /\ forced = "flat" /\ root = 0
    BY DEF Init
  <2>2. right \in Seq(Int)
    BY <2>1
  <2>3. "flat" \in Modes
    BY SerializerAssumption
  <2> QED
    BY <2>1, <2>2, <2>3 DEF ScalarsInv
<1>2. MessageInv /\ LeftInv /\ NestingInv /\ PoolInv /\ ObjectsInv /\ RootInv
  BY DEF Init, MessageInv, LeftInv, NestingInv, PoolInv, ObjectsInv, RootInv, Closed, None
<1> QED
  BY <1>1, <1>2 DEF IInv

(* Only emptying the buffer forgets that an offset was truncated.          *)
LEMMA WrappedStays ==
  ASSUME forced \in Modes, wrapped \in BOOLEAN, [Next]_vars
  PROVE  /\ forced' \in Modes /\ wrapped' \in BOOLEAN
         /\ Emptied \/ (wrapped => wrapped')
<1> DEFINE Same == UNCHANGED <<forced, wrapped>>
           Kept2 == forced' = forced /\ wrapped' \in BOOLEAN /\ (wrapped => wrapped')
<1> HIDE DEF Kept2
<1>0. Same => Kept2
  BY DEF Kept2
<1>1. CASE Write
  <2>1. Same
    BY <1>1 DEF Write, SerializeString, SerializeArray, SerializeOffsets, StartInline,
                NextElement, LastElement, AbandonInline
  <2> QED
    BY <1>0, <2>1 DEF Kept2
<1>2. CASE StartMessage
  <2>1. ASSUME NEW explicit \in BOOLEAN, NEW sized \in BOOLEAN, StartFlat(explicit, sized)
        PROVE  Kept2
    BY <2>1 DEF StartFlat, Kept2
  <2>2. ASSUME \/ StartFixed(MaxField)
               \/ \E explicit \in BOOLEAN : StartSparse(explicit)
               \/ \E explicit \in BOOLEAN, accounted \in SUBSET Field :
                    StartPreallocated(explicit, accounted)
        PROVE  Same
    BY <2>2 DEF StartFixed, StartSparse, StartPreallocated
  <2>3. Kept2
    BY <1>0, <1>2, <2>1, <2>2 DEF StartMessage
  <2> QED
    BY <2>3 DEF Kept2
<1>3. ASSUME NEW id, NEW v, NEW word, NEW scalar, AddPreallocated(id, v, word, scalar)
      PROVE  Kept2
  BY <1>3 DEF AddPreallocated, Kept2
<1>4. CASE AddScalar
  <2>1. ASSUME NEW id, NEW v, NEW default,
               \/ AddFixedScalar(id, v, default) \/ AddFlatScalar(id, v, default)
               \/ AddSparseScalar(id, v, default)
        PROVE  Same
    BY <2>1 DEF AddFixedScalar, AddFixed, AddFlatScalar, AddFlat, AddSparseScalar, AddSparse
  <2>2. ASSUME NEW id, NEW v, NEW default, AddPreallocatedScalar(id, v, default)
        PROVE  Kept2
    BY <1>3, <2>2 DEF AddPreallocatedScalar
  <2>3. Kept2
    BY <1>0, <1>4, <2>1, <2>2 DEF AddScalar
  <2> QED
    BY <2>3 DEF Kept2
<1>5. CASE AddRef
  <2>1. ASSUME NEW id, NEW o,
               AddFixedRef(id, o) \/ AddFlatRef(id, o) \/ AddSparseRef(id, o)
        PROVE  Same
    BY <2>1 DEF AddFixedRef, AddFixed, AddFlatRef, AddFlat, AddSparseRef, AddSparse
  <2>2. ASSUME NEW id, NEW o, AddPreallocatedRef(id, o)
        PROVE  Kept2
    BY <1>3, <2>2 DEF AddPreallocatedRef
  <2>3. Kept2
    BY <1>0, <1>5, <2>1, <2>2 DEF AddRef
  <2> QED
    BY <2>3 DEF Kept2
<1>6. CASE FinishMessage
  <2>1. Same
    BY <1>6 DEF FinishMessage, FinishFixed, FinishFlat, FinishSparse, FinishPreallocated
  <2> QED
    BY <1>0, <2>1 DEF Kept2
<1>7. CASE (\E o \in RefInputs : Finish(o)) \/ FinishRaw \/ UNCHANGED vars
  <2>1. Same
    BY <1>7 DEF Finish, FinishRaw, vars
  <2> QED
    BY <1>0, <2>1 DEF Kept2
<1>8. CASE Clear \/ Reset \/ Release
  BY <1>8 DEF Clear, Reset, Release, Emptied
<1>9. CASE \E mode \in Modes : EnforceDynamicAlternative(mode)
  BY <1>9 DEF EnforceDynamicAlternative
<1> QED
  BY <1>1, <1>2, <1>4, <1>5, <1>6, <1>7, <1>8, <1>9 DEF Next

(* What holds of every reachable state: until an offset is truncated, all  *)
(* of IInv.                                                                *)
WInv == forced \in Modes /\ wrapped \in BOOLEAN /\ (wrapped \/ IInv)

LEMMA Invariant == Spec => []WInv
<1>1. Init => WInv
  <2> SUFFICES ASSUME Init PROVE WInv
    OBVIOUS
  <2>1. forced = "flat" /\ wrapped = FALSE
    BY DEF Init
  <2> QED
    BY <2>1, InitEstablishes, SerializerAssumption DEF WInv
<1>2. WInv /\ [Next]_vars => WInv'
  <2> SUFFICES ASSUME WInv, [Next]_vars PROVE WInv'
    OBVIOUS
  <2>1. /\ forced' \in Modes /\ wrapped' \in BOOLEAN
        /\ Emptied \/ (wrapped => wrapped')
    BY WrappedStays DEF WInv
  <2>2. CASE Emptied
    BY <2>1, <2>2, EmptiedPreserves DEF WInv
  <2>3. CASE ~Emptied /\ ~wrapped'
    <3>1. IInv
      BY <2>1, <2>3 DEF WInv
    <3> QED
      BY <2>1, <2>3, <3>1, NextPreserves DEF WInv
  <2>4. CASE wrapped'
    BY <2>1, <2>4 DEF WInv
  <2> QED
    BY <2>1, <2>2, <2>3, <2>4
<1> QED
  BY <1>1, <1>2, PTL DEF Spec

-----------------------------------------------------------------------------
(* The theorems.                                                           *)

(* The type invariant, for every schema, every contents and every bound,   *)
(* as long as no offset was truncated.                                     *)
THEOREM TypeCorrect == Spec => [](~wrapped => TypeOK)
<1>1. WInv => (~wrapped => TypeOK)
  <2> SUFFICES ASSUME IInv, wrapped \in BOOLEAN PROVE TypeOK
    BY DEF WInv
  <2>1. \A i \in DOMAIN left : left[i].is \in {"meta", "field"}
    <3>1. \A i \in DOMAIN left : left[i] \in Table \cup FieldEntry
      BY SeqFacts DEF IInv, LeftInv
    <3> QED
      BY <3>1 DEF Table, FieldEntry
  <2>2. msg.is \in {"none", "valueless", "fixed", "flat", "sparse", "preallocated"}
    BY MessageKinds DEF IInv
  <2>3. inline.open \in BOOLEAN
    <3>1. inline = Closed \/ inline \in InlineArray
      BY DEF IInv, ScalarsInv
    <3>2. Closed.open = FALSE /\ \A i \in InlineArray : i.open = TRUE
      BY DEF Closed, InlineArray
    <3> QED
      BY <3>1, <3>2
  <2>4. \A e \in pool : e.off \in Nat /\ e.size \in Nat
    BY FloorType DEF IInv, PoolInv
  <2>5. /\ right \in Seq(Int) /\ depth \in Nat /\ finished \in BOOLEAN
        /\ forced \in Modes /\ root \in Nat
        /\ \A x \in objects : x.off \in 1 .. MaxOffset /\ x.kind \in Kinds
    BY DEF IInv, ScalarsInv, ObjectsInv
  <2> QED
    BY <2>1, <2>2, <2>3, <2>4, <2>5 DEF TypeOK
<1> QED
  BY <1>1, Invariant, PTL

(* The counter of what is open, whatever has been truncated.               *)
Nesting == depth \in Nat /\ NestingInv

(* A step that leaves the counter alone, or counts what it opens.          *)
LEMMA NestingKept ==
  ASSUME Nesting,
         \/ UNCHANGED <<depth, inline, finished>> /\ (msg # None \/ msg' = msg)
         \/ /\ ~finished /\ finished' = finished
            /\ \/ msg = None /\ depth' = depth + 1 /\ inline' = inline
               \/ ~inline.open /\ depth' = depth + 1 /\ msg' = msg
               \/ inline.open /\ depth' = depth /\ msg' = msg
               \/ msg # None /\ msg' = None /\ depth' = depth - 1 /\ inline' = inline
               \/ /\ inline.open /\ ~inline'.open /\ depth' = depth - 1
                  /\ msg' = msg
  PROVE  Nesting'
  BY DEF Nesting, NestingInv

LEMMA NestingOpen ==
  ASSUME Nesting
  PROVE  /\ depth = 0 => msg = None /\ ~inline.open
         /\ msg # None \/ inline.open => ~finished /\ depth > 0
  BY DEF Nesting, NestingInv

LEMMA NestingWrite ==
  ASSUME Nesting, Write
  PROVE  Nesting'
<1>1. CASE \/ \E s \in Strings : SerializeString(s)
           \/ \E v \in Vectors : SerializeArray(v)
  <2>1. UNCHANGED <<depth, inline, finished, msg>>
    BY <1>1 DEF SerializeString, SerializeArray
  <2> QED
    BY <2>1, NestingKept
<1>2. CASE \E n \in RefLists : \E list \in [1 .. n -> RefInputs] : SerializeOffsets(list)
  <2>1. /\ ~finished /\ depth = 0 /\ UNCHANGED <<msg, inline, finished>>
        /\ depth' = depth \/ depth' = depth + 1
    BY <1>2 DEF SerializeOffsets, NotFinished, NotNested
  <2> QED
    BY <2>1, NestingKept, NestingOpen
<1>3. CASE StartInline
  <2>1. ~finished /\ depth = 0 /\ depth' = depth + 1 /\ UNCHANGED <<msg, finished>>
    BY <1>3 DEF StartInline, NotFinished, NotNested
  <2> QED
    BY <2>1, NestingKept, NestingOpen
<1>4. CASE NextElement
  <2>1. inline.open /\ UNCHANGED <<msg, depth, finished>>
    BY <1>4 DEF NextElement
  <2> QED
    BY <2>1, NestingKept, NestingOpen
<1>5. CASE LastElement
  <2>1. inline.open /\ ~inline'.open /\ depth' = depth - 1 /\ UNCHANGED <<msg, finished>>
    BY <1>5 DEF LastElement, Closed
  <2> QED
    BY <2>1, NestingKept, NestingOpen
<1>6. CASE AbandonInline
  <2>1. inline.open /\ UNCHANGED <<msg, depth, finished>>
    BY <1>6 DEF AbandonInline
  <2> QED
    BY <2>1, NestingKept, NestingOpen
<1> QED
  BY <1>1, <1>2, <1>3, <1>4, <1>5, <1>6 DEF Write

LEMMA NestingStart ==
  ASSUME Nesting, StartMessage
  PROVE  Nesting'
<1>1. CASE StartFixed(MaxField)
  <2>1. /\ msg = None /\ ~finished /\ depth' = depth + 1
        /\ UNCHANGED <<inline, finished>>
    BY <1>1 DEF StartFixed, Open, NotFinished
  <2> QED
    BY <2>1, NestingKept
<1>2. CASE \/ \E explicit, sized \in BOOLEAN : StartFlat(explicit, sized)
           \/ \E explicit \in BOOLEAN : StartSparse(explicit)
           \/ \E explicit \in BOOLEAN, accounted \in SUBSET Field :
                StartPreallocated(explicit, accounted)
  <2>1. /\ depth = 0 /\ ~finished /\ depth' = depth + 1
        /\ UNCHANGED <<inline, finished>>
    BY <1>2 DEF StartFlat, StartSparse, StartPreallocated, Open, NotFinished, NotNested
  <2> QED
    BY <2>1, NestingKept, NestingOpen
<1> QED
  BY <1>1, <1>2 DEF StartMessage

LEMMA NestingAdd ==
  ASSUME Nesting, AddScalar \/ AddRef
  PROVE  Nesting'
<1>1. ASSUME NEW id, NEW v, NEW w, NEW scalar,
             \/ AddFixed(id, v, w) \/ AddFlat(id, v, w, scalar)
             \/ AddSparse(id, v, scalar) \/ AddPreallocated(id, v, w, scalar)
      PROVE  Nesting'
  <2>1. msg.is \in {"fixed", "flat", "sparse", "preallocated"} /\ UNCHANGED <<depth, inline, finished>>
    BY <1>1 DEF AddFixed, AddFlat, AddSparse, AddPreallocated
  <2> QED
    BY <2>1, NestingKept DEF None
<1>2. CASE AddScalar
  BY <1>1, <1>2 DEF AddScalar, AddFixedScalar, AddFlatScalar, AddPreallocatedScalar, AddSparseScalar
<1>3. CASE AddRef
  BY <1>1, <1>3 DEF AddRef, AddFixedRef, AddFlatRef, AddPreallocatedRef, AddSparseRef
<1> QED
  BY <1>2, <1>3

LEMMA NestingFinish ==
  ASSUME Nesting, FinishMessage
  PROVE  Nesting'
<1> DEFINE Ended == (msg' = None /\ depth' = depth - 1) \/ UNCHANGED depth
<1>1. ASSUME NEW r, NEW l, NEW m, NEW start, FinishMetadata(r, l, m, start)
      PROVE  Ended
  BY <1>1 DEF FinishMetadata, Close
<1>2. msg.is \in {"fixed", "flat", "sparse", "preallocated"} /\ UNCHANGED <<inline, finished>>
  BY DEF FinishMessage, FinishFixed, FinishFlat, FinishSparse, FinishPreallocated
<1>3. CASE FinishFixed \/ FinishFlat
  <2>1. Ended
    BY <1>3 DEF FinishFixed, FinishFlat, Close
  <2> QED
    BY <1>2, <2>1, NestingKept, NestingOpen DEF None
<1>4. CASE FinishSparse \/ FinishPreallocated
  <2>1. Ended
    <3> HIDE DEF Ended
    <3>1. (\E o, kind : Close(o, kind)) \/ UNCHANGED depth => Ended
      BY DEF Close, Ended
    <3> QED
      BY <1>1, <1>4, <3>1 DEF FinishSparse, FinishPreallocated
  <2> QED
    BY <1>2, <2>1, NestingKept, NestingOpen DEF None
<1> QED
  BY <1>3, <1>4 DEF FinishMessage

LEMMA NestingPreserved ==
  ASSUME Nesting, [Next]_vars
  PROVE  Nesting'
<1>1. CASE Write \/ StartMessage \/ AddScalar \/ AddRef \/ FinishMessage
  BY <1>1, NestingWrite, NestingStart, NestingAdd, NestingFinish
<1>2. CASE (\E o \in RefInputs : Finish(o)) \/ FinishRaw
  <2>1. depth = 0 /\ UNCHANGED <<depth, msg, inline>>
    BY <1>2 DEF Finish, FinishRaw, NotNested
  <2> QED
    BY <2>1 DEF Nesting, NestingInv
<1>3. CASE Clear \/ Reset \/ Release
  BY <1>3 DEF Clear, Reset, Release, Emptied, Nesting, NestingInv, Closed
<1>4. CASE (\E mode \in Modes : EnforceDynamicAlternative(mode)) \/ UNCHANGED vars
  <2>1. UNCHANGED <<depth, msg, inline, finished>>
    BY <1>4 DEF EnforceDynamicAlternative, vars
  <2> QED
    BY <2>1, NestingKept
<1> QED
  BY <1>1, <1>2, <1>3, <1>4 DEF Next

(* Depth_ is above 0 whenever a message or an array is open, whatever has  *)
(* thrown or been truncated before, and a finished buffer has nothing      *)
(* open.                                                                   *)
THEOREM NestingCounted == Spec => []NothingOpenUnnested
<1>1. Init => Nesting
  BY DEF Init, Nesting, NestingInv, Closed
<1>2. Nesting /\ [Next]_vars => Nesting'
  BY NestingPreserved
<1>3. Nesting => NothingOpenUnnested
  BY NestingOpen DEF Nesting, NestingInv, NothingOpenUnnested
<1> QED
  BY <1>1, <1>2, <1>3, PTL DEF Spec

(* Base and End name the same word and nothing moves it while the fields   *)
(* of a flat or a preallocated message are written.                        *)
THEOREM BaseIsStable == Spec => []BaseStaysValid
<1>1. WInv => BaseStaysValid
  <2> SUFFICES ASSUME IInv PROVE BaseStaysValid
    BY DEF WInv, BaseStaysValid
  <2>1. ASSUME msg.is = "flat", msg.maxId # 0, ~msg.tainted
        PROVE  /\ msg.base = msg.end
               /\ Size = msg.end + IF msg.explicit THEN msg.maxId - 1 ELSE 0
    BY <2>1, MessageKinds DEF IInv, FlatOpen, FlatMessage, FlatTop
  <2>2. ASSUME msg.is = "preallocated", msg.base # 0
        PROVE  Size = msg.base + IF msg.maxId = 0 THEN 0 ELSE MetaSize(msg.maxId) + 1
    BY <2>2, MessageKinds DEF IInv, PreallocatedOpen
  <2> QED
    BY <2>1, <2>2 DEF BaseStaysValid
<1> QED
  BY <1>1, Invariant, PTL

(* FinishMetadata never walks over the entry of a field, and every table   *)
(* it may compare with lies inside the right stack.                        *)
THEOREM LeftStackSound == Spec => []LeftHoldsTables
<1>1. WInv => LeftHoldsTables
  <2> SUFFICES ASSUME IInv PROVE LeftHoldsTables
    BY DEF WInv, LeftHoldsTables
  <2>1. Size \in Nat /\ Floor \in Nat /\ Floor <= Size
    BY FloorType DEF IInv
  <2>2. ASSUME NEW i \in DOMAIN left
        PROVE  IF i <= TablesHeld
                 THEN left[i].is = "meta" /\ left[i].off \in MetaSize(left[i].maxId) .. Size
                 ELSE left[i].is = "field" /\ left[i].off \in msg.start + 1 .. Size
    <3>1. CASE i <= TablesHeld
      <4>1. /\ left[i] \in Table /\ left[i].maxId >= 2
            /\ left[i].off \in MetaSize(left[i].maxId) .. Floor
        BY <3>1 DEF IInv, LeftInv
      <4>2. MetaSize(left[i].maxId) \in Nat
        BY <4>1, MetaSizeProperties DEF Table
      <4> QED
        BY <2>1, <3>1, <4>1, <4>2 DEF Table
    <3>2. CASE ~(i <= TablesHeld)
      BY <3>2 DEF IInv, LeftInv, FieldEntry
    <3> QED
      BY <3>1, <3>2
  <2> QED
    BY <2>2 DEF LeftHoldsTables, TablesHeld
<1> QED
  BY <1>1, Invariant, PTL

(* The first word of a finished buffer leads its reader to the root given  *)
(* to Finish, whatever offset that was.                                    *)
THEOREM RootWordIsReadBack ==
  Spec => [](finished /\ root # 0 /\ ~wrapped => ReadMessage(right) = root)
<1>1. WInv => (finished /\ root # 0 /\ ~wrapped => ReadMessage(right) = root)
  <2> SUFFICES ASSUME IInv, finished, root # 0
               PROVE  ReadMessage(right) = root
    BY DEF WInv
  <2>1. right \in Seq(Int) /\ Size \in Nat /\ root \in Nat
    BY SeqFacts DEF IInv, ScalarsInv, Size
  <2>2. Size > 0 /\ right[Size] = Size - root
    BY DEF IInv, RootInv
  <2>3. Size \in DOMAIN right
    BY <2>1, <2>2 DEF Size
  <2>4. ReadMessage(right) = Size - right[Size]
    BY <2>3 DEF ReadMessage, Word, Size
  <2> QED
    BY <2>1, <2>2, <2>4
<1> QED
  BY <1>1, Invariant, PTL

(* A client that gives Finish its own objects only gets a buffer whose     *)
(* root is one of them: Finish itself takes any offset up to the size, so  *)
(* that this needs a client without bad calls.                             *)
THEOREM RootIsReadBack ==
  ASSUME ~BadCalls
  PROVE  Spec => []RootReadsBack
<1>1. WInv /\ (finished /\ root # 0 /\ ~wrapped => ReadMessage(right) = root)
        => RootReadsBack
  BY DEF WInv, IInv, RootInv, RootReadsBack
<1> QED
  BY <1>1, Invariant, RootWordIsReadBack, PTL

(* Objects are built in place only while they are open: no call changes or *)
(* removes a word written before the open message was started, unless it   *)
(* truncates an offset or one has been truncated.                          *)
THEOREM EarlierWordsAreKept == Spec => EarlierWordsStay
<1>1. WInv /\ [Next]_vars =>
        [\/ Emptied \/ wrapped'
         \/ Size' >= Floor /\ SubSeq(right', 1, Floor) = SubSeq(right, 1, Floor)]_vars
  <2> SUFFICES ASSUME WInv, [Next]_vars, ~Emptied, ~wrapped'
               PROVE  Size' >= Floor /\ SubSeq(right', 1, Floor) = SubSeq(right, 1, Floor)
    OBVIOUS
  <2>0. IInv
    BY WrappedStays DEF WInv
  <2>1. Kept
    BY <2>0, NextPreserves
  <2>2. right \in Seq(Int) /\ Floor \in 0 .. Size
    BY <2>0, FloorType DEF IInv, ScalarsInv
  <2>3. /\ right' \in Seq(Int) /\ Floor <= Size'
        /\ \A k \in 1 .. Floor : right'[k] = right[k]
    BY <2>1 DEF Kept
  <2>4. Floor \in 0 .. Len(right) /\ Floor \in 0 .. Len(right')
    BY <2>2, <2>3, SeqFacts DEF Size
  <2>5. SubSeq(right', 1, Floor) = SubSeq(right, 1, Floor)
    BY <2>2, <2>3, <2>4, SamePrefix
  <2> QED
    BY <2>3, <2>4, <2>5 DEF Size
<1> QED
  BY <1>1, Invariant, PTL DEF Spec, EarlierWordsStay
=============================================================================
