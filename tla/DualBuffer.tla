----------------------------- MODULE DualBuffer -----------------------------
(***************************************************************************)
(* yaff::DualBuffer (include/yaff/buffer.h): one heap block used as two    *)
(* byte stacks.  The left one grows up from Buf_, the right one grows down *)
(* from Buf_ + Allocated_; Reallocate moves both to the ends of a larger   *)
(* block.                                                                  *)
(*                                                                         *)
(* Pointers are modelled as distances from Buf_: left is Left_ - Buf_ and  *)
(* right is Right_ - Buf_.  block is the true size of the memory Buf_      *)
(* points at (0 when Buf_ is null), which the code does not store: it      *)
(* trusts Allocated_ instead.  A read outside the block yields Garbage and *)
(* a write outside it is lost.                                             *)
(***************************************************************************)
EXTENDS Integers, Sequences, SequencesExt

CONSTANTS Byte,         \* the values of a byte
          Garbage,      \* what uninitialised or foreign memory reads as
          Data,         \* the byte strings a client pushes
          InitialSize,  \* the constructor's argument
          SizeMax,      \* std::numeric_limits<size_t>::max()
          MayFail       \* whether operator new may throw

ASSUME DualBufferAssumption ==
  /\ Garbage \notin Byte
  /\ Data \subseteq Seq(Byte) \ {<<>>}
  /\ InitialSize \in Nat
  /\ SizeMax \in Nat
  /\ MayFail \in BOOLEAN

VARIABLES mem,        \* the bytes of the block, indexed from Buf_
          block,      \* the size the block was allocated with
          allocated,  \* Allocated_
          left,       \* Left_ - Buf_
          right,      \* Right_ - Buf_
          out,        \* bytes of the last DetachedSegment, last byte first
          failed      \* operator new has thrown since the block was dropped

vars == <<mem, block, allocated, left, right, out, failed>>

Cell == Byte \cup {Garbage}
NoMemory == [i \in 0 .. -1 |-> Garbage]

LeftSize == left
RightSize == allocated - right
UnusedSize == right - left

(* The byte RightDataAt(k) points at.                                      *)
RightByte(k) == LET i == allocated - k
                IN  IF i \in 0 .. block - 1 THEN mem[i] ELSE Garbage

LeftByte(i) == IF i \in 0 .. block - 1 THEN mem[i] ELSE Garbage

-----------------------------------------------------------------------------
(* EnsureSpace and Reallocate.                                             *)

Larger(m, n) == IF m >= n THEN m ELSE n

Growth(len) ==
  Larger(len, IF allocated > 0 THEN allocated \div 2 ELSE InitialSize)

Fits(len) == len <= UnusedSize

(* The overflow test of Reallocate: when it fails std::bad_alloc leaves    *)
(* every member as it was, a step that changes nothing.                    *)
CanGrow(len) == Growth(len) <= SizeMax - allocated

(* A plausible slip: the right bytes keep their distance from Buf_.        *)
ReallocatedUnmoved(len) ==
  LET size == allocated + Growth(len)
  IN  [mem |-> [i \in 0 .. size - 1 |-> LeftByte(i)],
       block |-> size, allocated |-> size, left |-> left, right |-> right]

(* The block after a successful Reallocate(len): the right bytes go to its *)
(* end, then the left ones to its beginning.                               *)
Reallocated(len) ==
  LET size == allocated + Growth(len)
      copied(i) == IF block = 0 THEN Garbage
                   ELSE IF i < LeftSize THEN LeftByte(i)
                   ELSE IF i >= size - RightSize THEN RightByte(size - i)
                   ELSE Garbage
  IN  [mem |-> [i \in 0 .. size - 1 |-> copied(i)],
       block |-> size, allocated |-> size,
       left |-> LeftSize, right |-> size - RightSize]

Unmoved(len) == [mem |-> mem, block |-> block, allocated |-> allocated,
                 left |-> left, right |-> right]

(* A plausible slip: the free gap is tested with the wrong strictness.     *)
EnsureSpaceOffByOne(len) ==
  IF len <= UnusedSize + 1 THEN Unmoved(len) ELSE Reallocated(len)

EnsureSpace(len) == IF Fits(len) THEN Unmoved(len) ELSE Reallocated(len)

(* operator new throws after Allocated_ has been increased.                *)
AllocationFails(len) ==
  /\ MayFail
  /\ ~Fits(len)
  /\ CanGrow(len)
  /\ allocated' = allocated + Growth(len)
  /\ failed' = TRUE
  /\ UNCHANGED <<mem, block, left, right, out>>

-----------------------------------------------------------------------------
(* The operations of the left stack.                                       *)

LeftPush(d) ==
  /\ Fits(Len(d)) \/ CanGrow(Len(d))
  /\ LET b == EnsureSpace(Len(d))
     IN  /\ mem' = [i \in 0 .. b.block - 1 |->
                      IF i \in b.left .. b.left + Len(d) - 1
                        THEN d[i - b.left + 1] ELSE b.mem[i]]
         /\ block' = b.block /\ allocated' = b.allocated
         /\ left' = b.left + Len(d)
         /\ right' = b.right
  /\ UNCHANGED <<out, failed>>

LeftPop(n) ==
  /\ n \in 1 .. LeftSize
  /\ left' = left - n
  /\ UNCHANGED <<mem, block, allocated, right, out, failed>>

LeftClear ==
  /\ left' = 0
  /\ UNCHANGED <<mem, block, allocated, right, out, failed>>

-----------------------------------------------------------------------------
(* The operations of the right stack.                                      *)

(* A plausible slip: Right_ moves down without EnsureSpace.                *)
RightPushUnchecked(d) ==
  /\ right' = right - Len(d)
  /\ UNCHANGED <<mem, block, allocated, left, out, failed>>

RightPush(d) ==
  /\ Fits(Len(d)) \/ CanGrow(Len(d))
  /\ LET b == EnsureSpace(Len(d))
         to == b.right - Len(d)
     IN  /\ mem' = [i \in 0 .. b.block - 1 |->
                      IF i \in to .. to + Len(d) - 1
                        THEN d[i - to + 1] ELSE b.mem[i]]
         /\ block' = b.block /\ allocated' = b.allocated
         /\ left' = b.left
         /\ right' = to
  /\ UNCHANGED <<out, failed>>

RightPop(n) ==
  /\ n \in 1 .. RightSize
  /\ right' = right + n
  /\ UNCHANGED <<mem, block, allocated, left, out, failed>>

RightClear ==
  /\ right' = IF block = 0 THEN 0 ELSE allocated
  /\ UNCHANGED <<mem, block, allocated, left, out, failed>>

(* A client stores through the pointer RightDataAt(k) returned.            *)
RightWrite(k, b) ==
  /\ k \in 1 .. RightSize
  /\ mem' = [i \in 0 .. block - 1 |-> IF i = allocated - k THEN b ELSE mem[i]]
  /\ UNCHANGED <<block, allocated, left, right, out, failed>>

-----------------------------------------------------------------------------
(* The operations of both.                                                 *)

Clear ==
  /\ left' = 0
  /\ right' = IF block = 0 THEN 0 ELSE allocated
  /\ allocated' = IF block = 0 THEN 0 ELSE allocated
  /\ UNCHANGED <<mem, block, out, failed>>

(* Clear() with Buf_ already null, as Reset and the detaches call it.      *)
DropBlock ==
  /\ mem' = NoMemory /\ block' = 0
  /\ left' = 0 /\ right' = 0 /\ allocated' = 0
  /\ failed' = FALSE

Reset == DropBlock /\ UNCHANGED out

RightDetach ==
  /\ out' = [k \in 1 .. RightSize |-> RightByte(k)]
  /\ DropBlock

(* Cur_ is Left_, the end of the left bytes: Data() runs upwards from it.  *)
LeftDetach ==
  /\ out' = [k \in 1 .. LeftSize |-> LeftByte(left + k - 1)]
  /\ DropBlock

-----------------------------------------------------------------------------
Init ==
  /\ mem = NoMemory /\ block = 0 /\ allocated = 0
  /\ left = 0 /\ right = 0
  /\ out = <<>> /\ failed = FALSE

Next ==
  \/ \E d \in Data : LeftPush(d)
  \/ \E d \in Data : RightPush(d)
  \/ \E d \in Data : AllocationFails(Len(d))
  \/ \E n \in 1 .. LeftSize : LeftPop(n)
  \/ \E n \in 1 .. RightSize : RightPop(n)
  \/ \E k \in 1 .. RightSize, b \in Byte : RightWrite(k, b)
  \/ LeftClear
  \/ RightClear
  \/ Clear
  \/ Reset
  \/ RightDetach
  \/ LeftDetach

Spec == Init /\ [][Next]_vars

-----------------------------------------------------------------------------
(* Every member has its C++ type and the block's memory is exactly block   *)
(* bytes long (buffer.h:267-272).                                          *)
TypeOK ==
  /\ block \in Nat
  /\ mem \in [0 .. block - 1 -> Cell]
  /\ allocated \in Nat /\ left \in Nat /\ right \in Nat
  /\ out \in Seq(Cell)
  /\ failed \in BOOLEAN

(* Unless operator new has thrown since the block was last dropped, the    *)
(* stacks do not overlap and Allocated_ is the size of the memory Buf_     *)
(* points at, so both stacks lie inside it (buffer.h:229-265).             *)
Separated ==
  /\ right <= allocated
  /\ ~failed => left <= right /\ allocated = block

(* The contents of the two stacks, and what they implement.                *)
LeftStack == [k \in 1 .. LeftSize |-> LeftByte(k - 1)]
RightStack == [k \in 1 .. RightSize |-> RightByte(k)]

(* DualBuffer implements TwoStacks: pushes, pops, growth and writes on one *)
(* side never change a byte of the other, an offset keeps denoting the     *)
(* same byte across every Reallocate, and RightDetach hands over exactly   *)
(* the right stack (buffer.h:109-265).                                     *)
Abstract == INSTANCE TwoStacks
  WITH l <- IF failed THEN <<>> ELSE LeftStack,
       r <- IF failed THEN <<>> ELSE RightStack,
       broken <- failed

ImplementsTwoStacks == Abstract!Spec

(* LeftDetach hands over the left bytes, as the comment at buffer.h:108    *)
(* describes the left side: they start at the beginning of the buffer.     *)
LeftDetachYieldsLeft ==
  [][LeftDetach /\ ~failed => out' = LeftStack]_vars
=============================================================================
