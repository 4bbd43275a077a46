------------------------- MODULE DualBuffer_proofs -------------------------
(***************************************************************************)
(* Proofs about DualBuffer: its type invariant, the separation of the two  *)
(* stacks, and that it implements TwoStacks, for every byte set, initial   *)
(* size, size_t maximum and set of pushed strings.                         *)
(***************************************************************************)
EXTENDS DualBuffer, TLAPS, SequenceTheorems

(* A request for a positive number of bytes grows the block enough.        *)
LEMMA GrowthProperties ==
  ASSUME DualBufferAssumption, TypeOK, NEW len \in Nat \ {0}
  PROVE  Growth(len) \in Nat /\ Growth(len) >= len
<1>1. allocated \div 2 \in Nat
  BY DEF TypeOK
<1>2. CASE allocated > 0
  BY <1>1, <1>2 DEF Growth, Larger
<1>3. CASE ~(allocated > 0)
  BY <1>3 DEF Growth, Larger, DualBufferAssumption
<1> QED
  BY <1>2, <1>3

(* What the block looks like after EnsureSpace(len): room for len bytes    *)
(* between two stacks of unchanged sizes.                                  *)
LEMMA EnsureSpaceShape ==
  ASSUME DualBufferAssumption, TypeOK, Separated, NEW len \in Nat \ {0},
         NEW b, b = EnsureSpace(len)
  PROVE  /\ b.block \in Nat /\ b.allocated \in Nat
         /\ b.mem \in [0 .. b.block - 1 -> Cell]
         /\ b.left = left
         /\ b.right \in Nat
         /\ b.right - len \in Nat
         /\ b.allocated - b.right = allocated - right
         /\ ~failed => b.left + len <= b.right /\ b.block = b.allocated
<1>1. CASE Fits(len)
  <2>1. b = Unmoved(len)
    BY <1>1 DEF EnsureSpace
  <2>2. len <= right - left
    BY <1>1 DEF Fits, UnusedSize
  <2>3. left + len <= right
    BY <2>2 DEF TypeOK
  <2> QED
    BY <2>1, <2>3 DEF Unmoved, TypeOK, Separated
<1>2. CASE ~Fits(len)
  <2>1. b = Reallocated(len)
    BY <1>2 DEF EnsureSpace
  <2>2. Growth(len) \in Nat /\ Growth(len) >= len
    BY GrowthProperties
  <2> DEFINE size == allocated + Growth(len)
             copied(i) == IF block = 0 THEN Garbage
                          ELSE IF i < LeftSize THEN LeftByte(i)
                          ELSE IF i >= size - RightSize THEN RightByte(size - i)
                          ELSE Garbage
  <2>3. ASSUME NEW i \in 0 .. size - 1 PROVE copied(i) \in Cell
    BY DEF LeftByte, RightByte, Cell, TypeOK
  <2>4. b.mem = [i \in 0 .. size - 1 |-> copied(i)]
    BY <2>1 DEF Reallocated
  <2>5. b.block = size /\ b.allocated = size /\ b.left = left
        /\ b.right = size - (allocated - right)
    BY <2>1 DEF Reallocated, LeftSize, RightSize
  <2>6. b.mem \in [0 .. b.block - 1 -> Cell]
    BY <2>3, <2>4, <2>5
  <2>7. size \in Nat /\ size >= allocated + len
    BY <2>2 DEF TypeOK
  <2> HIDE DEF size
  <2>8. b.right = Growth(len) + right
    BY <2>2, <2>5 DEF TypeOK, size
  <2>9. b.right \in Nat /\ b.right - len \in Nat
    BY <2>2, <2>8 DEF TypeOK
  <2>10. b.allocated - b.right = allocated - right
    BY <2>5, <2>7, <2>8 DEF TypeOK
  <2>11. ~failed => b.left + len <= b.right
    BY <2>2, <2>5, <2>8 DEF TypeOK, Separated
  <2> QED
    BY <2>5, <2>6, <2>7, <2>9, <2>10, <2>11
<1> QED
  BY <1>1, <1>2

-----------------------------------------------------------------------------
LEMMA NoMemoryType ==
  ASSUME NEW n \in Nat, n = 0 PROVE NoMemory \in [0 .. n - 1 -> Cell]
<1>1. 0 .. n - 1 = {} /\ 0 .. -1 = {}
  OBVIOUS
<1> QED
  BY <1>1 DEF NoMemory

LEMMA InitInv == Init => TypeOK /\ Separated
<1> SUFFICES ASSUME Init PROVE TypeOK /\ Separated
  OBVIOUS
<1>1. mem \in [0 .. block - 1 -> Cell]
  BY NoMemoryType DEF Init
<1>2. out \in Seq(Cell)
  BY EmptySeq DEF Init
<1>3. /\ block \in Nat /\ allocated \in Nat /\ left \in Nat /\ right \in Nat
      /\ failed \in BOOLEAN
  BY DEF Init
<1>4. Separated
  BY DEF Init, Separated
<1> QED
  BY <1>1, <1>2, <1>3, <1>4 DEF TypeOK

(* A push of d on either side keeps the types and the separation.          *)
LEMMA LeftPushInv ==
  ASSUME DualBufferAssumption, TypeOK, Separated, NEW d \in Data, LeftPush(d)
  PROVE  TypeOK' /\ Separated'
<1> DEFINE len == Len(d)
           b == EnsureSpace(len)
           written(i) == IF i \in b.left .. b.left + len - 1
                           THEN d[i - b.left + 1] ELSE b.mem[i]
<1>1. d \in Seq(Byte) /\ len \in Nat \ {0}
  BY EmptySeq DEF DualBufferAssumption
<1>2. /\ b.block \in Nat /\ b.allocated \in Nat
      /\ b.mem \in [0 .. b.block - 1 -> Cell]
      /\ b.left = left
      /\ b.right \in Nat
      /\ b.allocated - b.right = allocated - right
      /\ ~failed => b.left + len <= b.right /\ b.block = b.allocated
  BY <1>1, EnsureSpaceShape
<1>3. /\ mem' = [i \in 0 .. b.block - 1 |-> written(i)]
      /\ block' = b.block /\ allocated' = b.allocated
      /\ left' = b.left + len /\ right' = b.right
      /\ out' = out /\ failed' = failed
  BY DEF LeftPush
<1> HIDE DEF b
<1>4. ASSUME NEW i \in 0 .. b.block - 1 PROVE written(i) \in Cell
  <2>1. CASE i \in b.left .. b.left + len - 1
    <3>1. i - b.left + 1 \in 1 .. len
      BY <1>1, <1>2, <2>1 DEF TypeOK
    <3>2. d[i - b.left + 1] \in Byte
      BY <1>1, <3>1, ElementOfSeq
    <3> QED
      BY <2>1, <3>2 DEF Cell
  <2>2. CASE i \notin b.left .. b.left + len - 1
    BY <1>2, <2>2
  <2> QED
    BY <2>1, <2>2
<1> HIDE DEF written, len
<1>5. mem' \in [0 .. block' - 1 -> Cell]
  BY <1>3, <1>4
<1>6. TypeOK'
  BY <1>1, <1>2, <1>3, <1>5 DEF TypeOK
<1>7. Separated'
  BY <1>1, <1>2, <1>3 DEF TypeOK, Separated
<1> QED
  BY <1>6, <1>7

LEMMA RightPushInv ==
  ASSUME DualBufferAssumption, TypeOK, Separated, NEW d \in Data, RightPush(d)
  PROVE  TypeOK' /\ Separated'
<1> DEFINE len == Len(d)
           b == EnsureSpace(len)
           to == b.right - len
           written(i) == IF i \in to .. to + len - 1
                           THEN d[i - to + 1] ELSE b.mem[i]
<1>1. d \in Seq(Byte) /\ len \in Nat \ {0}
  BY EmptySeq DEF DualBufferAssumption
<1>2. /\ b.block \in Nat /\ b.allocated \in Nat
      /\ b.mem \in [0 .. b.block - 1 -> Cell]
      /\ b.left = left
      /\ b.right \in Nat
      /\ to \in Nat
      /\ b.allocated - b.right = allocated - right
      /\ ~failed => b.left + len <= b.right /\ b.block = b.allocated
  BY <1>1, EnsureSpaceShape
<1>3. /\ mem' = [i \in 0 .. b.block - 1 |-> written(i)]
      /\ block' = b.block /\ allocated' = b.allocated
      /\ left' = b.left /\ right' = to
      /\ out' = out /\ failed' = failed
  BY DEF RightPush
<1>4. to = b.right - len
  OBVIOUS
<1> HIDE DEF b, to, len
<1>5. ASSUME NEW i \in 0 .. b.block - 1 PROVE written(i) \in Cell
  <2>1. CASE i \in to .. to + len - 1
    <3>1. i - to + 1 \in 1 .. len
      BY <1>1, <1>2, <2>1
    <3>2. d[i - to + 1] \in Byte
      BY <1>1, <3>1, ElementOfSeq DEF len
    <3> QED
      BY <2>1, <3>2 DEF Cell
  <2>2. CASE i \notin to .. to + len - 1
    BY <1>2, <2>2
  <2> QED
    BY <2>1, <2>2
<1> HIDE DEF written
<1>6. mem' \in [0 .. block' - 1 -> Cell]
  BY <1>3, <1>5
<1>7. TypeOK'
  BY <1>1, <1>2, <1>3, <1>6 DEF TypeOK
<1>8. Separated'
  BY <1>1, <1>2, <1>3, <1>4, SMTT(30) DEF TypeOK, Separated
<1> QED
  BY <1>7, <1>8

(* Detaching n bytes hands over a string of cells.                         *)
LEMMA DetachedCells ==
  ASSUME TypeOK, NEW n \in Nat, NEW at \in Int
  PROVE  /\ [k \in 1 .. n |-> LeftByte(at + k - 1)] \in Seq(Cell)
         /\ [k \in 1 .. n |-> RightByte(k)] \in Seq(Cell)
<1>1. \A i \in Int : LeftByte(i) \in Cell /\ RightByte(i) \in Cell
  BY DEF LeftByte, RightByte, Cell, TypeOK
<1>2. \A f \in [1 .. n -> Cell] : f \in Seq(Cell)
  OBVIOUS
<1>3. /\ [k \in 1 .. n |-> LeftByte(at + k - 1)] \in [1 .. n -> Cell]
      /\ [k \in 1 .. n |-> RightByte(k)] \in [1 .. n -> Cell]
  BY <1>1
<1> QED
  BY <1>2, <1>3

LEMMA StepInv ==
  ASSUME DualBufferAssumption, TypeOK, Separated, [Next]_vars
  PROVE  TypeOK' /\ Separated'
<1> USE DEF LeftSize, RightSize
<1>1. ASSUME NEW d \in Data, LeftPush(d) PROVE TypeOK' /\ Separated'
  BY <1>1, LeftPushInv
<1>2. ASSUME NEW d \in Data, RightPush(d) PROVE TypeOK' /\ Separated'
  BY <1>2, RightPushInv
<1>3. ASSUME NEW d \in Data, AllocationFails(Len(d)) PROVE TypeOK' /\ Separated'
  <2>1. d \in Seq(Byte) /\ Len(d) \in Nat \ {0}
    BY EmptySeq DEF DualBufferAssumption
  <2>2. Growth(Len(d)) \in Nat
    BY <2>1, GrowthProperties
  <2> QED
    BY <1>3, <2>2 DEF AllocationFails, TypeOK, Separated
<1>4. ASSUME NEW n \in 1 .. LeftSize, LeftPop(n) PROVE TypeOK' /\ Separated'
  BY <1>4 DEF LeftPop, TypeOK, Separated
<1>5. ASSUME NEW n \in 1 .. RightSize, RightPop(n) PROVE TypeOK' /\ Separated'
  BY <1>5 DEF RightPop, TypeOK, Separated
<1>6. ASSUME NEW k \in 1 .. RightSize, NEW v \in Byte, RightWrite(k, v)
      PROVE  TypeOK' /\ Separated'
  <2>1. mem' \in [0 .. block - 1 -> Cell]
    BY <1>6 DEF RightWrite, TypeOK, Cell
  <2> QED
    BY <1>6, <2>1 DEF RightWrite, TypeOK, Separated
<1>7. ASSUME LeftClear PROVE TypeOK' /\ Separated'
  BY <1>7 DEF LeftClear, TypeOK, Separated
<1>8. ASSUME RightClear PROVE TypeOK' /\ Separated'
  BY <1>8 DEF RightClear, TypeOK, Separated
<1>9. ASSUME Clear PROVE TypeOK' /\ Separated'
  BY <1>9 DEF Clear, TypeOK, Separated
<1>10. ASSUME DropBlock, out' \in Seq(Cell) PROVE TypeOK' /\ Separated'
  <2>1. mem' \in [0 .. block' - 1 -> Cell]
    BY <1>10, NoMemoryType DEF DropBlock
  <2>2. /\ block' \in Nat /\ allocated' \in Nat /\ left' \in Nat /\ right' \in Nat
        /\ failed' \in BOOLEAN
    BY <1>10 DEF DropBlock
  <2>3. Separated'
    BY <1>10 DEF DropBlock, Separated
  <2> QED
    BY <1>10, <2>1, <2>2, <2>3 DEF TypeOK
<1>11. ASSUME Reset PROVE TypeOK' /\ Separated'
  BY <1>10, <1>11 DEF Reset, TypeOK
<1>12. ASSUME RightDetach PROVE TypeOK' /\ Separated'
  <2>1. RightSize \in Nat
    BY DEF TypeOK, Separated
  <2>2. out' \in Seq(Cell)
    BY <1>12, <2>1, DetachedCells, SMTT(30) DEF RightDetach
  <2> QED
    BY <1>10, <1>12, <2>2 DEF RightDetach
<1>13. ASSUME LeftDetach PROVE TypeOK' /\ Separated'
  <2>1. LeftSize \in Nat /\ left \in Int
    BY DEF TypeOK
  <2>2. out' \in Seq(Cell)
    BY <1>13, <2>1, DetachedCells DEF LeftDetach
  <2> QED
    BY <1>10, <1>13, <2>2 DEF LeftDetach
<1>14. ASSUME UNCHANGED vars PROVE TypeOK' /\ Separated'
  BY <1>14 DEF vars, TypeOK, Separated
<1> QED
  BY <1>1, <1>2, <1>3, <1>4, <1>5, <1>6, <1>7, <1>8, <1>9, <1>11, <1>12,
     <1>13, <1>14 DEF Next

(* The members of DualBuffer keep their types under every sequence of its  *)
(* operations, failed allocations included (buffer.h:67-273).              *)
THEOREM TypeCorrect == Spec => []TypeOK
<1>1. Init => TypeOK /\ Separated
  BY InitInv
<1>2. TypeOK /\ Separated /\ [Next]_vars => TypeOK' /\ Separated'
  BY DualBufferAssumption, StepInv
<1> QED
  BY <1>1, <1>2, PTL DEF Spec

(* The two stacks never overlap and stay inside the block for as long as   *)
(* no allocation has failed since it was taken (buffer.h:229-265).         *)
THEOREM Separation == Spec => []Separated
<1>1. Init => TypeOK /\ Separated
  BY InitInv
<1>2. TypeOK /\ Separated /\ [Next]_vars => TypeOK' /\ Separated'
  BY DualBufferAssumption, StepInv
<1> QED
  BY <1>1, <1>2, PTL DEF Spec

-----------------------------------------------------------------------------
(* DualBuffer implements TwoStacks.                                       *)

(* The abstract stacks, named as the refinement mapping names them.        *)
L == IF failed THEN <<>> ELSE LeftStack
R == IF failed THEN <<>> ELSE RightStack

LEMMA FunctionIsSeq ==
  ASSUME NEW S, NEW n \in Nat, NEW f \in [1 .. n -> S]
  PROVE  f \in Seq(S) /\ Len(f) = n
  OBVIOUS

LEMMA Concatenation ==
  ASSUME NEW S, NEW s \in Seq(S), NEW t \in Seq(S), NEW m, NEW n,
         m = Len(s), n = Len(t)
  PROVE  /\ s \o t \in Seq(S) /\ Len(s \o t) = m + n
         /\ \A k \in 1 .. m + n : (s \o t)[k] = IF k <= m THEN s[k] ELSE t[k - m]
  BY ConcatProperties

(* The stacks are sequences of the expected lengths, read off the block.   *)
Contents ==
  /\ L \in Seq(Cell) /\ Len(L) = left
  /\ \A k \in 1 .. left : L[k] = mem[k - 1]
  /\ R \in Seq(Cell) /\ Len(R) = allocated - right /\ allocated - right \in Nat
  /\ \A k \in 1 .. allocated - right : R[k] = mem[allocated - k]

LEMMA StackContents == TypeOK /\ Separated /\ ~failed => Contents
<1> SUFFICES ASSUME TypeOK, Separated, ~failed PROVE Contents
  OBVIOUS
<1>1. left <= block /\ allocated = block /\ allocated - right \in Nat
      /\ allocated - right <= block
  BY DEF TypeOK, Separated
<1>2. \A k \in 1 .. left : LeftByte(k - 1) = mem[k - 1] /\ LeftByte(k - 1) \in Cell
  BY <1>1 DEF LeftByte, TypeOK
<1>3. \A k \in 1 .. allocated - right :
        RightByte(k) = mem[allocated - k] /\ RightByte(k) \in Cell
  BY <1>1 DEF RightByte, TypeOK
<1>4. L = [k \in 1 .. left |-> LeftByte(k - 1)] /\ L \in [1 .. left -> Cell]
  BY <1>2 DEF L, LeftStack, LeftSize
<1>5. R = [k \in 1 .. allocated - right |-> RightByte(k)]
      /\ R \in [1 .. allocated - right -> Cell]
  BY <1>3 DEF R, RightStack, RightSize
<1>6. L \in Seq(Cell) /\ Len(L) = left
  BY <1>4, FunctionIsSeq DEF TypeOK
<1>7. R \in Seq(Cell) /\ Len(R) = allocated - right
  BY <1>1, <1>5, FunctionIsSeq
<1> QED
  BY <1>1, <1>2, <1>3, <1>4, <1>5, <1>6, <1>7 DEF Contents

LEMMA StackContentsNext == (TypeOK /\ Separated /\ ~failed => Contents)'
  BY StackContents, PTL

(* EnsureSpace keeps every byte of both stacks at its distance from the    *)
(* end the stack grows from.                                               *)
LEMMA EnsureSpaceContents ==
  ASSUME DualBufferAssumption, TypeOK, Separated, ~failed,
         NEW len \in Nat \ {0}, NEW b, b = EnsureSpace(len)
  PROVE  /\ \A i \in 0 .. left - 1 : b.mem[i] = mem[i]
         /\ \A k \in 1 .. allocated - right :
              b.mem[b.allocated - k] = mem[allocated - k]
<1>1. CASE Fits(len)
  BY <1>1 DEF EnsureSpace, Unmoved
<1>2. CASE ~Fits(len)
  <2>1. b = Reallocated(len)
    BY <1>2 DEF EnsureSpace
  <2>2. Growth(len) \in Nat /\ Growth(len) >= len
    BY GrowthProperties
  <2> DEFINE size == allocated + Growth(len)
             copied(i) == IF block = 0 THEN Garbage
                          ELSE IF i < LeftSize THEN LeftByte(i)
                          ELSE IF i >= size - RightSize THEN RightByte(size - i)
                          ELSE Garbage
  <2>3. b.mem = [i \in 0 .. size - 1 |-> copied(i)] /\ b.allocated = size
    BY <2>1 DEF Reallocated
  <2>4. left <= right /\ right <= allocated /\ allocated = block
    BY DEF Separated
  <2>5. ASSUME NEW i \in 0 .. left - 1 PROVE b.mem[i] = mem[i]
    <3>1. i \in 0 .. size - 1 /\ i < left /\ i \in 0 .. block - 1 /\ block # 0
      BY <2>2, <2>4 DEF TypeOK
    <3>2. copied(i) = mem[i]
      BY <3>1 DEF LeftSize, LeftByte
    <3> QED
      BY <2>3, <3>1, <3>2
  <2>6. ASSUME NEW k \in 1 .. allocated - right
        PROVE  b.mem[b.allocated - k] = mem[allocated - k]
    <3>1. /\ size - k \in 0 .. size - 1 /\ allocated - k \in 0 .. block - 1
          /\ block # 0 /\ ~(size - k < left) /\ size - k >= size - (allocated - right)
          /\ size - (size - k) = k
      BY <2>2, <2>4 DEF TypeOK
    <3>2. copied(size - k) = RightByte(k)
      BY <3>1 DEF LeftSize, RightSize
    <3>3. RightByte(k) = mem[allocated - k]
      BY <3>1 DEF RightByte
    <3> QED
      BY <2>3, <3>1, <3>2, <3>3
  <2> QED
    BY <2>5, <2>6
<1> QED
  BY <1>1, <1>2

-----------------------------------------------------------------------------
(* Each operation maps to the abstract one of the same name.               *)

LEMMA LeftPushRefines ==
  ASSUME DualBufferAssumption, TypeOK, Separated, TypeOK', Separated', ~failed,
         NEW d \in Data, LeftPush(d)
  PROVE  L' = L \o d /\ R' = R /\ out' = out /\ ~failed'
<1> DEFINE len == Len(d)
           b == EnsureSpace(len)
<1>1. d \in Seq(Byte) /\ d \in Seq(Cell) /\ len \in Nat \ {0}
  BY EmptySeq, SeqMonotonic DEF DualBufferAssumption, Cell
<1>2. /\ b.block \in Nat /\ b.allocated \in Nat
      /\ b.left = left /\ b.right \in Nat
      /\ b.allocated - b.right = allocated - right
      /\ b.left + len <= b.right /\ b.block = b.allocated
  BY <1>1, EnsureSpaceShape
<1>3. /\ \A i \in 0 .. left - 1 : b.mem[i] = mem[i]
      /\ \A k \in 1 .. allocated - right :
           b.mem[b.allocated - k] = mem[allocated - k]
  BY <1>1, EnsureSpaceContents
<1>4. /\ mem' = [i \in 0 .. b.block - 1 |->
                   IF i \in b.left .. b.left + len - 1
                     THEN d[i - b.left + 1] ELSE b.mem[i]]
      /\ allocated' = b.allocated
      /\ left' = b.left + len /\ right' = b.right
      /\ out' = out /\ failed' = failed
  BY DEF LeftPush
<1>5. Contents /\ Contents'
  BY <1>4, StackContents, StackContentsNext
<1> HIDE DEF b
<1>6. /\ L \o d \in Seq(Cell) /\ Len(L \o d) = left + len
      /\ \A k \in 1 .. left + len :
           (L \o d)[k] = IF k <= left THEN L[k] ELSE d[k - left]
  <2>1. L \in Seq(Cell) /\ Len(L) = left
    BY <1>5 DEF Contents
  <2> QED
    BY <1>1, <2>1, Concatenation
<1>a. left \in Nat /\ right \in Nat /\ allocated \in Nat /\ right <= allocated
  BY DEF TypeOK, Separated
<1> HIDE DEF len
<1>7. ASSUME NEW k \in 1 .. left + len PROVE L'[k] = (L \o d)[k]
  <2>1. L'[k] = mem'[k - 1]
    BY <1>2, <1>4, <1>5 DEF Contents
  <2>2. k - 1 \in 0 .. b.block - 1
    BY <1>1, <1>2, <1>a
  <2>3. CASE k <= left
    <3>1. k - 1 \in 0 .. left - 1 /\ k - 1 \notin b.left .. b.left + len - 1
      BY <1>1, <1>2, <1>a, <2>3
    <3>2. mem'[k - 1] = mem[k - 1]
      BY <1>3, <1>4, <2>2, <3>1
    <3> QED
      BY <1>5, <1>6, <2>1, <2>3, <3>2 DEF Contents
  <2>4. CASE ~(k <= left)
    <3>1. k - 1 \in b.left .. b.left + len - 1 /\ k - 1 - b.left + 1 = k - left
      BY <1>1, <1>2, <1>a, <2>4
    <3>2. mem'[k - 1] = d[k - left]
      BY <1>4, <2>2, <3>1
    <3> QED
      BY <1>6, <2>1, <2>4, <3>2
  <2> QED
    BY <2>3, <2>4
<1>8. L' = L \o d
  <2>1. L' \in Seq(Cell) /\ Len(L') = left + len
    BY <1>2, <1>4, <1>5 DEF Contents
  <2> QED
    BY <1>6, <1>7, <2>1, SeqEqual
<1>9. ASSUME NEW k \in 1 .. allocated - right PROVE R'[k] = R[k]
  <2>1. R'[k] = mem'[b.allocated - k]
    BY <1>2, <1>4, <1>5 DEF Contents
  <2>2. /\ b.allocated - k \in 0 .. b.block - 1
        /\ b.allocated - k \notin b.left .. b.left + len - 1
    BY <1>1, <1>2, <1>a, SMTT(30)
  <2>3. mem'[b.allocated - k] = mem[allocated - k]
    BY <1>3, <1>4, <2>2
  <2> QED
    BY <1>5, <2>1, <2>3 DEF Contents
<1>10. R' = R
  <2>1. R' \in Seq(Cell) /\ Len(R') = allocated - right
        /\ R \in Seq(Cell) /\ Len(R) = allocated - right
    BY <1>2, <1>4, <1>5 DEF Contents
  <2> QED
    BY <1>9, <2>1, SeqEqual
<1> QED
  BY <1>4, <1>8, <1>10

LEMMA RightPushRefines ==
  ASSUME DualBufferAssumption, TypeOK, Separated, TypeOK', Separated', ~failed,
         NEW d \in Data, RightPush(d)
  PROVE  R' = R \o Reverse(d) /\ L' = L /\ out' = out /\ ~failed'
<1> DEFINE len == Len(d)
           b == EnsureSpace(len)
           to == b.right - len
           top == allocated - right
<1>1. d \in Seq(Byte) /\ d \in Seq(Cell) /\ len \in Nat \ {0}
  BY EmptySeq, SeqMonotonic DEF DualBufferAssumption, Cell
<1>2. /\ b.block \in Nat /\ b.allocated \in Nat
      /\ b.left = left /\ b.right \in Nat /\ to \in Nat
      /\ b.allocated - b.right = top
      /\ b.left + len <= b.right /\ b.block = b.allocated
  BY <1>1, EnsureSpaceShape
<1>3. /\ \A i \in 0 .. left - 1 : b.mem[i] = mem[i]
      /\ \A k \in 1 .. top : b.mem[b.allocated - k] = mem[allocated - k]
  BY <1>1, EnsureSpaceContents
<1>4. /\ mem' = [i \in 0 .. b.block - 1 |->
                   IF i \in to .. to + len - 1 THEN d[i - to + 1] ELSE b.mem[i]]
      /\ allocated' = b.allocated
      /\ left' = b.left /\ right' = to
      /\ out' = out /\ failed' = failed
  BY DEF RightPush
<1>5. Contents /\ Contents'
  BY <1>4, StackContents, StackContentsNext
<1>6. to = b.right - len /\ to + len = b.right
  BY <1>1, <1>2
<1> HIDE DEF b, to
<1>7. /\ Reverse(d) \in Seq(Cell) /\ Len(Reverse(d)) = len
      /\ \A k \in 1 .. len : Reverse(d)[k] = d[len - k + 1]
  <2>1. \A k \in 1 .. len : d[len - k + 1] \in Cell
    BY <1>1, ElementOfSeq
  <2> QED
    BY <1>1, <2>1, FunctionIsSeq DEF Reverse
<1>a. left \in Nat /\ right \in Nat /\ allocated \in Nat /\ right <= allocated
  BY DEF TypeOK, Separated
<1> HIDE DEF len
<1>b. /\ top \in Nat /\ len \in Nat /\ len > 0 /\ to \in Nat
      /\ b.block \in Nat /\ b.allocated = b.block /\ b.right \in Nat
      /\ b.right = b.block - top /\ b.right = to + len /\ left <= to
  BY <1>1, <1>2, <1>6, <1>a, SMTT(60)
<1>8. top \in Nat /\ R \in Seq(Cell) /\ Len(R) = top
      /\ \A k \in 1 .. top : R[k] = mem[allocated - k]
  BY <1>5 DEF Contents
<1> HIDE DEF top
<1>9. /\ R \o Reverse(d) \in Seq(Cell) /\ Len(R \o Reverse(d)) = top + len
      /\ \A k \in 1 .. top + len :
           (R \o Reverse(d))[k] = IF k <= top THEN R[k] ELSE Reverse(d)[k - top]
  <2>1. R \in Seq(Cell) /\ Reverse(d) \in Seq(Cell)
        /\ top = Len(R) /\ len = Len(Reverse(d))
    BY <1>7, <1>8
  <2> QED
    BY <2>1, Concatenation
<1>10. allocated' - right' = top + len
  <2>1. allocated' - right' = b.allocated - to
    BY <1>4
  <2> QED
    BY <1>b, <2>1
<1>11. ASSUME NEW k \in 1 .. top + len PROVE R'[k] = (R \o Reverse(d))[k]
  <2>1. R'[k] = mem'[b.allocated - k]
    BY <1>4, <1>5, <1>10 DEF Contents
  <2>2. b.allocated - k \in 0 .. b.block - 1
    BY <1>b, <1>a
  <2>3. CASE k <= top
    <3>1. k \in 1 .. top /\ b.allocated - k \notin to .. to + len - 1
      BY <1>b, <1>a, <2>3
    <3>2. mem'[b.allocated - k] = mem[allocated - k]
      BY <1>3, <1>4, <2>2, <3>1
    <3> QED
      BY <1>8, <1>9, <2>1, <2>3, <3>1, <3>2
  <2>4. CASE ~(k <= top)
    <3>1. /\ b.allocated - k \in to .. to + len - 1
          /\ b.allocated - k - to + 1 = len - (k - top) + 1
          /\ k - top \in 1 .. len
      BY <1>b, <1>a, <2>4, SMTT(30)
    <3>2. mem'[b.allocated - k] = d[b.allocated - k - to + 1]
      BY <1>4, <2>2, <3>1
    <3>3. Reverse(d)[k - top] = d[len - (k - top) + 1]
      BY <1>7, <3>1
    <3> QED
      BY <1>9, <2>1, <2>4, <3>1, <3>2, <3>3
  <2> QED
    BY <2>3, <2>4
<1>12. R' = R \o Reverse(d)
  <2>1. R' \in Seq(Cell) /\ Len(R') = top + len
    BY <1>5, <1>10 DEF Contents
  <2> QED
    BY <1>9, <1>11, <2>1, SeqEqual
<1>13. ASSUME NEW k \in 1 .. left PROVE L'[k] = L[k]
  <2>1. L'[k] = mem'[k - 1]
    BY <1>2, <1>4, <1>5 DEF Contents
  <2>2. /\ k - 1 \in 0 .. b.block - 1 /\ k - 1 \in 0 .. left - 1
        /\ k - 1 \notin to .. to + len - 1
    BY <1>b, <1>a
  <2>3. mem'[k - 1] = mem[k - 1]
    BY <1>3, <1>4, <2>2
  <2> QED
    BY <1>5, <2>1, <2>3 DEF Contents
<1>14. L' = L
  <2>1. L' \in Seq(Cell) /\ Len(L') = left /\ L \in Seq(Cell) /\ Len(L) = left
    BY <1>2, <1>4, <1>5 DEF Contents
  <2> QED
    BY <1>13, <2>1, SeqEqual
<1> QED
  BY <1>4, <1>12, <1>14

-----------------------------------------------------------------------------
LEMMA SameLeft ==
  ASSUME Contents, Contents', left \in Nat, left' = left,
         \A i \in 0 .. left - 1 : mem'[i] = mem[i]
  PROVE  L' = L
<1>1. /\ L \in Seq(Cell) /\ Len(L) = left
      /\ L' \in Seq(Cell) /\ Len(L') = left
      /\ \A k \in 1 .. left : L[k] = mem[k - 1] /\ L'[k] = mem'[k - 1]
  BY DEF Contents
<1>2. ASSUME NEW k \in 1 .. left PROVE L'[k] = L[k]
  <2>1. k - 1 \in 0 .. left - 1
    OBVIOUS
  <2> QED
    BY <1>1, <2>1
<1> QED
  BY <1>1, <1>2, SeqEqual

LEMMA SameRight ==
  ASSUME Contents, Contents', NEW top \in Nat,
         top = allocated - right, allocated' - right' = top,
         \A k \in 1 .. top : mem'[allocated' - k] = mem[allocated - k]
  PROVE  R' = R
<1>1. /\ R \in Seq(Cell) /\ Len(R) = top
      /\ R' \in Seq(Cell) /\ Len(R') = top
      /\ \A k \in 1 .. top : R[k] = mem[allocated - k] /\ R'[k] = mem'[allocated' - k]
  BY DEF Contents
<1> QED
  BY <1>1, SeqEqual

LEMMA EmptyLeft == ASSUME Contents', left' = 0 PROVE L' = <<>>
  BY EmptySeq DEF Contents

LEMMA EmptyRight == ASSUME Contents', allocated' - right' = 0 PROVE R' = <<>>
  BY EmptySeq DEF Contents

LEMMA Prefix ==
  ASSUME NEW S, NEW s \in Seq(S), NEW t \in Seq(S), NEW n \in 0 .. Len(s),
         Len(t) = n, \A k \in 1 .. n : t[k] = s[k]
  PROVE  t = SubSeq(s, 1, n)
  BY SubSeqProperties, SeqEqual

LEMMA LeftPopRefines ==
  ASSUME TypeOK, Separated, TypeOK', Separated', ~failed,
         NEW n \in 1 .. LeftSize, LeftPop(n)
  PROVE  n \in 1 .. Len(L) /\ L' = SubSeq(L, 1, Len(L) - n) /\ R' = R
<1>1. Contents /\ Contents'
  BY StackContents, StackContentsNext DEF LeftPop
<1>2. /\ left' = left - n /\ left \in Nat /\ n \in 1 .. left
      /\ mem' = mem /\ allocated' = allocated /\ right' = right
  BY DEF LeftPop, LeftSize, TypeOK
<1>3. /\ L \in Seq(Cell) /\ L' \in Seq(Cell) /\ Len(L) = left /\ Len(L') = left - n
      /\ \A k \in 1 .. left - n : L'[k] = L[k]
  <2>1. /\ L \in Seq(Cell) /\ Len(L) = left
        /\ \A k \in 1 .. left : L[k] = mem[k - 1]
    BY <1>1 DEF Contents
  <2>2. /\ L' \in Seq(Cell) /\ Len(L') = left - n
        /\ \A k \in 1 .. left - n : L'[k] = mem[k - 1]
    BY <1>1, <1>2 DEF Contents
  <2>3. 1 .. left - n \subseteq 1 .. left
    BY <1>2
  <2> QED
    BY <2>1, <2>2, <2>3
<1>4. L' = SubSeq(L, 1, Len(L) - n)
  <2>1. left - n \in 0 .. left
    BY <1>2
  <2> QED
    BY <1>3, <2>1, Prefix
<1>5. R' = R
  BY <1>1, <1>2, SameRight DEF Contents
<1> QED
  BY <1>2, <1>3, <1>4, <1>5

LEMMA RightPopRefines ==
  ASSUME TypeOK, Separated, TypeOK', Separated', ~failed,
         NEW n \in 1 .. RightSize, RightPop(n)
  PROVE  n \in 1 .. Len(R) /\ R' = SubSeq(R, 1, Len(R) - n) /\ L' = L
<1>1. Contents /\ Contents'
  BY StackContents, StackContentsNext DEF RightPop
<1> DEFINE top == allocated - right
<1>2. /\ right' = right + n /\ right \in Nat /\ allocated \in Nat
      /\ n \in 1 .. top /\ top \in Nat
      /\ mem' = mem /\ allocated' = allocated /\ left' = left /\ left \in Nat
  BY DEF RightPop, RightSize, TypeOK, Separated
<1>3. allocated' - right' = top - n /\ top - n \in 0 .. top
  BY <1>2
<1>4. /\ R \in Seq(Cell) /\ Len(R) = top /\ \A k \in 1 .. top : R[k] = mem[allocated - k]
  BY <1>1 DEF Contents
<1>5. /\ R' \in Seq(Cell) /\ Len(R') = top - n
      /\ \A k \in 1 .. top - n : R'[k] = mem[allocated - k]
  BY <1>1, <1>2, <1>3 DEF Contents
<1> HIDE DEF top
<1>6. R' = SubSeq(R, 1, Len(R) - n)
  <2>1. \A k \in 1 .. top - n : R'[k] = R[k]
    BY <1>2, <1>4, <1>5
  <2> QED
    BY <1>3, <1>4, <1>5, <2>1, Prefix
<1>7. L' = L
  BY <1>1, <1>2, SameLeft
<1> QED
  BY <1>2, <1>4, <1>6, <1>7

LEMMA RightWriteRefines ==
  ASSUME DualBufferAssumption, TypeOK, Separated, TypeOK', Separated', ~failed,
         NEW k \in 1 .. RightSize, NEW b \in Byte, RightWrite(k, b)
  PROVE  k \in 1 .. Len(R) /\ R' = [R EXCEPT ![k] = b] /\ L' = L
<1>1. Contents /\ Contents'
  BY StackContents, StackContentsNext DEF RightWrite
<1> DEFINE top == allocated - right
<1>2. /\ left \in Nat /\ right \in Nat /\ allocated \in Nat
      /\ left <= right /\ right <= allocated /\ block = allocated
      /\ k \in 1 .. top /\ top \in Nat /\ b \in Cell
  BY DEF RightSize, TypeOK, Separated, Cell
<1>3. /\ mem' = [i \in 0 .. block - 1 |-> IF i = allocated - k THEN b ELSE mem[i]]
      /\ allocated' = allocated /\ left' = left /\ right' = right
  BY DEF RightWrite
<1>4. /\ R \in Seq(Cell) /\ Len(R) = top /\ \A j \in 1 .. top : R[j] = mem[allocated - j]
  BY <1>1 DEF Contents
<1>5. /\ R' \in Seq(Cell) /\ Len(R') = top
      /\ \A j \in 1 .. top : R'[j] = mem'[allocated - j]
  BY <1>1, <1>3 DEF Contents
<1>6. right = allocated - top
  BY <1>2
<1> HIDE DEF top
<1>7. ASSUME NEW j \in 1 .. top PROVE R'[j] = [R EXCEPT ![k] = b][j]
  <2>1. allocated - j \in 0 .. block - 1 /\ (allocated - j = allocated - k <=> j = k)
    BY <1>2, <1>6
  <2>2. R'[j] = IF j = k THEN b ELSE R[j]
    BY <1>3, <1>4, <1>5, <2>1
  <2> QED
    BY <1>4, <2>2
<1>8. R' = [R EXCEPT ![k] = b]
  <2>1. [R EXCEPT ![k] = b] \in Seq(Cell) /\ Len([R EXCEPT ![k] = b]) = top
    BY <1>2, <1>4
  <2> QED
    BY <1>5, <1>7, <2>1, SeqEqual
<1>9. ASSUME NEW i \in 0 .. left - 1 PROVE mem'[i] = mem[i]
  <2>1. i \in 0 .. block - 1 /\ i # allocated - k
    BY <1>2, <1>6
  <2> QED
    BY <1>3, <2>1
<1>10. L' = L
  BY <1>1, <1>2, <1>3, <1>9, SameLeft
<1> QED
  BY <1>2, <1>4, <1>8, <1>10

-----------------------------------------------------------------------------
(* After std::bad_alloc the abstract stacks are unspecified until the      *)
(* block is dropped, so every step maps to itself or to a stutter.         *)
LEMMA FailedRefines ==
  ASSUME TypeOK, failed, Next
  PROVE  [Abstract!Next]_(Abstract!vars)
<1> USE DEF Abstract!vars
<1>1. CASE \/ \E d \in Data : LeftPush(d) \/ RightPush(d) \/ AllocationFails(Len(d))
           \/ \E n \in 1 .. LeftSize : LeftPop(n)
           \/ \E n \in 1 .. RightSize : RightPop(n)
           \/ \E k \in 1 .. RightSize, b \in Byte : RightWrite(k, b)
           \/ LeftClear \/ RightClear \/ Clear
  <2>1. failed' = failed /\ out' = out
    BY <1>1 DEF LeftPush, RightPush, AllocationFails, LeftPop, RightPop,
                RightWrite, LeftClear, RightClear, Clear, TypeOK
  <2> QED
    BY <2>1
<1>2. CASE Reset \/ RightDetach \/ LeftDetach
  <2>1. ~failed' /\ left' = 0 /\ allocated' - right' = 0
    BY <1>2 DEF Reset, RightDetach, LeftDetach, DropBlock
  <2>2. LeftStack' = <<>> /\ RightStack' = <<>>
    BY <2>1 DEF LeftStack, RightStack, LeftSize, RightSize
  <2>3. Abstract!LeftDetach
    BY <2>1, <2>2 DEF Abstract!LeftDetach
  <2> QED
    BY <2>3 DEF Abstract!Next
<1> QED
  BY <1>1, <1>2 DEF Next

(* The steps that empty a stack, or both.                                  *)
LEMMA ClearsRefine ==
  ASSUME TypeOK, Separated, TypeOK', Separated', ~failed,
         LeftClear \/ RightClear \/ Clear
  PROVE  [Abstract!Next]_(Abstract!vars)
<1>1. Contents /\ Contents'
  BY StackContents, StackContentsNext DEF LeftClear, RightClear, Clear
<1>2. /\ left \in Nat /\ right \in Nat /\ allocated \in Nat
      /\ allocated - right \in Nat /\ block = allocated
  BY DEF TypeOK, Separated
<1>3. CASE LeftClear
  <2>1. L' = <<>>
    BY <1>1, <1>3, EmptyLeft DEF LeftClear
  <2>2. R' = R
    BY <1>1, <1>2, <1>3, SameRight DEF LeftClear
  <2>3. Abstract!LeftClear
    BY <1>3, <2>1, <2>2 DEF Abstract!LeftClear, LeftClear, L, R
  <2> QED
    BY <2>3 DEF Abstract!Next
<1>4. CASE RightClear
  <2>1. L' = L
    BY <1>1, <1>2, <1>4, SameLeft DEF RightClear
  <2>2. R' = <<>>
    BY <1>1, <1>2, <1>4, EmptyRight DEF RightClear
  <2>3. Abstract!RightClear
    BY <1>4, <2>1, <2>2 DEF Abstract!RightClear, RightClear, L, R
  <2> QED
    BY <2>3 DEF Abstract!Next
<1>5. CASE Clear
  <2>1. L' = <<>> /\ R' = <<>>
    BY <1>1, <1>2, <1>5, EmptyLeft, EmptyRight DEF Clear
  <2>2. Abstract!Clear
    BY <1>5, <2>1 DEF Abstract!Clear, Clear, L, R
  <2> QED
    BY <2>2 DEF Abstract!Next
<1> QED
  BY <1>3, <1>4, <1>5

(* The steps that give the block up.                                       *)
LEMMA DropsRefine ==
  ASSUME TypeOK, Separated, TypeOK', Separated', ~failed,
         Reset \/ RightDetach \/ LeftDetach
  PROVE  [Abstract!Next]_(Abstract!vars)
<1>1. ~failed' /\ left' = 0 /\ allocated' - right' = 0
  BY DEF Reset, RightDetach, LeftDetach, DropBlock
<1>2. Contents'
  BY <1>1, StackContentsNext
<1>3. L' = <<>> /\ R' = <<>>
  BY <1>1, <1>2, EmptyLeft, EmptyRight
<1>4. CASE Reset
  <2>1. Abstract!Reset
    BY <1>1, <1>3, <1>4 DEF Abstract!Reset, Reset, L, R
  <2> QED
    BY <2>1 DEF Abstract!Next
<1>5. CASE RightDetach
  <2>1. out' = R
    BY <1>5 DEF RightDetach, R, RightStack
  <2>2. Abstract!RightDetach
    BY <1>1, <1>3, <2>1 DEF Abstract!RightDetach, L, R
  <2> QED
    BY <2>2 DEF Abstract!Next
<1>6. CASE LeftDetach
  <2>1. Abstract!LeftDetach
    BY <1>1, <1>3 DEF Abstract!LeftDetach, L, R
  <2> QED
    BY <2>1 DEF Abstract!Next
<1> QED
  BY <1>4, <1>5, <1>6

-----------------------------------------------------------------------------
(* Every step of DualBuffer is a step of TwoStacks or leaves it unchanged. *)
LEMMA StepRefines ==
  ASSUME DualBufferAssumption, TypeOK, Separated, TypeOK', Separated',
         [Next]_vars
  PROVE  [Abstract!Next]_(Abstract!vars)
<1>1. CASE UNCHANGED vars
  BY <1>1 DEF vars, Abstract!vars, LeftStack, RightStack, LeftSize, RightSize,
              LeftByte, RightByte
<1>2. CASE failed /\ Next
  BY <1>2, FailedRefines
<1>3. CASE ~failed /\ Next
  <2>1. ASSUME NEW d \in Data, LeftPush(d) PROVE Abstract!Next
    <3>1. L' = L \o d /\ R' = R /\ out' = out /\ ~failed'
      BY <1>3, <2>1, LeftPushRefines
    <3>2. Abstract!LeftPush(d)
      BY <1>3, <3>1 DEF Abstract!LeftPush, L, R, TypeOK
    <3> QED
      BY <3>2 DEF Abstract!Next
  <2>2. ASSUME NEW d \in Data, RightPush(d) PROVE Abstract!Next
    <3>1. R' = R \o Reverse(d) /\ L' = L /\ out' = out /\ ~failed'
      BY <1>3, <2>2, RightPushRefines
    <3>2. Abstract!RightPush(d)
      BY <1>3, <3>1 DEF Abstract!RightPush, Abstract!Reverse, Reverse, L, R, TypeOK
    <3> QED
      BY <3>2 DEF Abstract!Next
  <2>3. ASSUME NEW d \in Data, AllocationFails(Len(d)) PROVE Abstract!Next
    <3>1. Abstract!Fail
      BY <2>3 DEF AllocationFails, Abstract!Fail
    <3> QED
      BY <3>1 DEF Abstract!Next
  <2>4. ASSUME NEW n \in 1 .. LeftSize, LeftPop(n) PROVE Abstract!Next
    <3>1. n \in 1 .. Len(L) /\ L' = SubSeq(L, 1, Len(L) - n) /\ R' = R
      BY <1>3, <2>4, LeftPopRefines
    <3>2. Len(L) \in Nat /\ n <= Len(L)
      BY <1>3, <3>1, StackContents DEF Contents, TypeOK
    <3>3. out' = out /\ failed' = failed
      BY <2>4 DEF LeftPop
    <3> QED
      BY <1>3, <3>1, <3>2, <3>3 DEF Abstract!Next, Abstract!LeftPop, L, R
  <2>5. ASSUME NEW n \in 1 .. RightSize, RightPop(n) PROVE Abstract!Next
    <3>1. n \in 1 .. Len(R) /\ R' = SubSeq(R, 1, Len(R) - n) /\ L' = L
      BY <1>3, <2>5, RightPopRefines
    <3>2. Len(R) \in Nat /\ n <= Len(R)
      BY <1>3, <3>1, StackContents DEF Contents, TypeOK
    <3>3. out' = out /\ failed' = failed
      BY <2>5 DEF RightPop
    <3> QED
      BY <1>3, <3>1, <3>2, <3>3 DEF Abstract!Next, Abstract!RightPop, L, R
  <2>6. ASSUME NEW k \in 1 .. RightSize, NEW b \in Byte, RightWrite(k, b)
        PROVE  Abstract!Next
    <3>1. k \in 1 .. Len(R) /\ R' = [R EXCEPT ![k] = b] /\ L' = L
      BY <1>3, <2>6, RightWriteRefines
    <3>2. out' = out /\ failed' = failed
      BY <2>6 DEF RightWrite
    <3> QED
      BY <1>3, <3>1, <3>2 DEF Abstract!Next, Abstract!RightWrite, L, R
  <2>7. CASE LeftClear \/ RightClear \/ Clear
    BY <1>3, <2>7, ClearsRefine
  <2>8. CASE Reset \/ RightDetach \/ LeftDetach
    BY <1>3, <2>8, DropsRefine
  <2> QED
    BY <1>3, <2>1, <2>2, <2>3, <2>4, <2>5, <2>6, <2>7, <2>8 DEF Next
<1> QED
  BY <1>1, <1>2, <1>3

(* DualBuffer implements TwoStacks for every value of its constants: the   *)
(* bytes a client pushed on either side stay where its offsets denote them *)
(* whatever the other side and Reallocate do (buffer.h:109-265).           *)
THEOREM Implementation == Spec => ImplementsTwoStacks
<1>1. Init => Abstract!Init
  BY EmptySeq DEF Init, Abstract!Init, LeftStack, RightStack, LeftSize, RightSize
<1>2. TypeOK /\ Separated /\ TypeOK' /\ Separated' /\ [Next]_vars
      => [Abstract!Next]_(Abstract!vars)
  BY StepRefines, DualBufferAssumption
<1> QED
  BY <1>1, <1>2, TypeCorrect, Separation, PTL
     DEF Spec, ImplementsTwoStacks, Abstract!Spec
=============================================================================
