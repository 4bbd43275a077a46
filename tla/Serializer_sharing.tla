------------------------- MODULE Serializer_sharing -------------------------
(***************************************************************************)
(* Proof that equal strings, equal arrays and equal metadata tables are    *)
(* stored once, for any schema, contents and limits.                       *)
(*                                                                         *)
(* The pool has an entry for every string and array of scalars handed out, *)
(* and no two entries have the same bytes.  The left stack has no two      *)
(* tables with the same bytes, and the signature of each is that of its    *)
(* bytes, so that comparing signatures first loses none.                   *)
(***************************************************************************)
EXTENDS Serializer_content

Shared == {"string", "scalars"}

(* The words of a string or an array of scalars.                           *)
Words(x) ==
  IF x.kind = "string" THEN <<Len(x.body)>> \o x.body \o << 0 >>
                       ELSE <<Len(x.body)>> \o x.body

Pooled(x, p, r) ==
  \E e \in p : e.off = x.off /\ e.size = Len(Words(x)) /\ BlockAt(r, e.off, Words(x))

PoolOnce ==
  /\ \A d, e \in pool :
       d.size = e.size /\ Block(right, d.off, d.size) = Block(right, e.off, e.size) => d = e
  /\ \A x \in objects : x.kind \in Shared => Pooled(x, pool, right)

(* The first n entries of l are tables that differ in the words of r.      *)
Differ(l, n, r) ==
  /\ \A i \in 1 .. n : l[i].hint = Hint(r[l[i].off])
  /\ \A i, j \in 1 .. n :
       /\ l[i].maxId = l[j].maxId
       /\ Block(r, l[i].off, MetaSize(l[i].maxId)) = Block(r, l[j].off, MetaSize(l[j].maxId))
       => i = j

TablesOnce == Differ(left, TablesHeld, right)

OnceInv == IInv /\ PoolOnce /\ TablesOnce

(* Most steps: nothing is pooled or drawn from the pool, no table is added *)
(* and some may be dropped.                                                *)
PoolStep ==
  /\ pool' = pool
  /\ \A x \in objects' : x \in objects \/ x.kind \notin Shared

LeftStep ==
  /\ TablesHeld' \in 0 .. TablesHeld
  /\ \A i \in 1 .. TablesHeld' : left'[i] = left[i]

-----------------------------------------------------------------------------
(* What such a step preserves.                                             *)

(* A block below the floor stays the block it is.                          *)
LEMMA BlockKept ==
  ASSUME NEW r \in Seq(Int), NEW t \in Seq(Int), NEW n \in Nat, n <= Len(t), n <= Len(r),
         \A k \in 1 .. n : t[k] = r[k],
         NEW o \in 0 .. n, NEW block, BlockAt(r, o, block)
  PROVE  BlockAt(t, o, block)
<1>1. block \in Seq(Int) /\ Len(block) \in Nat /\ Len(t) \in Nat /\ Len(r) \in Nat
  BY SeqFacts DEF BlockAt
<1>2. o \in Len(block) .. Len(t)
  BY <1>1 DEF BlockAt
<1>3. ASSUME NEW j \in 1 .. Len(block)
      PROVE  t[o - j + 1] = block[j]
  <2> DEFINE size == Len(block)
  <2>1. size \in Nat /\ o \in size .. Len(t) /\ o \in 0 .. n /\ j \in 1 .. size /\ Len(t) \in Nat
    BY <1>1, <1>2
  <2> HIDE DEF size
  <2>2. o - j + 1 \in 1 .. n
    BY ONLY <2>1, n \in Nat
  <2>3. t[o - j + 1] = r[o - j + 1]
    BY <2>2
  <2> QED
    BY <2>3 DEF BlockAt
<1> QED
  BY <1>1, <1>2, <1>3 DEF BlockAt

LEMMA FloorKept ==
  ASSUME IInv, Kept
  PROVE  /\ right \in Seq(Int) /\ right' \in Seq(Int) /\ Floor \in Nat
         /\ Floor <= Len(right) /\ Floor <= Len(right')
         /\ \A k \in 1 .. Floor : right'[k] = right[k]
  BY FloorType DEF IInv, ScalarsInv, Kept, Size

(* The entries of the pool keep their bytes.                               *)
LEMMA EntryKept ==
  ASSUME IInv, Kept, NEW e \in pool
  PROVE  /\ Block(right', e.off, e.size) = Block(right, e.off, e.size)
         /\ \A block : BlockAt(right, e.off, block) => BlockAt(right', e.off, block)
<1>1. e.off \in 0 .. Floor /\ e.size \in 0 .. e.off
  BY FloorKept DEF IInv, PoolInv
<1> DEFINE o == e.off
           size == e.size
           n == Floor
<1>2. /\ right \in Seq(Int) /\ right' \in Seq(Int) /\ n \in Nat /\ n <= Len(right)
      /\ n <= Len(right') /\ \A k \in 1 .. n : right'[k] = right[k]
      /\ o \in 0 .. n /\ size \in 0 .. o
  BY <1>1, FloorKept
<1> HIDE DEF o, size, n
<1>3. Block(right', o, size) = Block(right, o, size)
  BY <1>2, SameBlock
<1>4. ASSUME NEW block, BlockAt(right, o, block)
      PROVE  BlockAt(right', o, block)
  BY <1>2, <1>4, BlockKept
<1> QED
  BY <1>3, <1>4 DEF o, size

LEMMA PoolOnceKept ==
  ASSUME IInv, Kept, PoolOnce, PoolStep
  PROVE  PoolOnce'
<1>1. ASSUME NEW d \in pool', NEW e \in pool', d.size = e.size,
             Block(right', d.off, d.size) = Block(right', e.off, e.size)
      PROVE  d = e
  <2>1. d \in pool /\ e \in pool
    BY <1>1 DEF PoolStep
  <2> QED
    BY <1>1, <2>1, EntryKept DEF PoolOnce
<1>2. ASSUME NEW x \in objects', x.kind \in Shared
      PROVE  Pooled(x, pool', right')
  <2>1. Pooled(x, pool, right)
    BY <1>2 DEF PoolStep, PoolOnce
  <2>2. PICK e \in pool : e.off = x.off /\ e.size = Len(Words(x)) /\ BlockAt(right, e.off, Words(x))
    BY <2>1 DEF Pooled
  <2>3. BlockAt(right', e.off, Words(x))
    BY <2>2, EntryKept
  <2> QED
    BY <2>2, <2>3 DEF Pooled, PoolStep
<1> QED
  BY <1>1, <1>2 DEF PoolOnce

(* Stacks that agree up to n, and a table that lies below n.               *)
SameBelow(r, t, n) ==
  /\ r \in Seq(Int) /\ t \in Seq(Int) /\ n \in Nat /\ n <= Len(r) /\ n <= Len(t)
  /\ \A k \in 1 .. n : t[k] = r[k]

TableBelow(e, n) == e.maxId \in Nat /\ e.maxId >= 2 /\ e.off \in MetaSize(e.maxId) .. n

(* Such a table keeps its bytes and its signature.                         *)
LEMMA TableKept ==
  ASSUME NEW r, NEW t, NEW n, SameBelow(r, t, n), NEW e, TableBelow(e, n)
  PROVE  /\ Block(t, e.off, MetaSize(e.maxId)) = Block(r, e.off, MetaSize(e.maxId))
         /\ t[e.off] = r[e.off]
<1> DEFINE size == MetaSize(e.maxId)
           off == e.off
<1>1. size \in Nat \ {0} /\ off \in size .. n
  BY MetaSizeProperties DEF TableBelow
<1>2. /\ r \in Seq(Int) /\ t \in Seq(Int) /\ n \in Nat /\ n <= Len(r) /\ n <= Len(t)
      /\ \A k \in 1 .. n : t[k] = r[k]
  BY DEF SameBelow
<1> HIDE DEF size, off
<1>3. off \in 0 .. n /\ size \in 0 .. off /\ off \in 1 .. n
  BY <1>1, <1>2
<1>4. Block(t, off, size) = Block(r, off, size)
  BY <1>2, <1>3, SameBlock
<1> QED
  BY <1>2, <1>3, <1>4 DEF size, off

LEMMA DifferKept ==
  ASSUME NEW r, NEW t, NEW n, SameBelow(r, t, n),
         NEW l, NEW count \in Nat, NEW m, NEW some \in Nat, some <= count,
         \A i \in 1 .. some : m[i] = l[i] /\ TableBelow(l[i], n),
         Differ(l, count, r)
  PROVE  Differ(m, some, t)
<1>1. \A i \in 1 .. some : /\ i \in 1 .. count /\ m[i] = l[i]
                           /\ t[l[i].off] = r[l[i].off]
                           /\ Block(t, l[i].off, MetaSize(l[i].maxId))
                              = Block(r, l[i].off, MetaSize(l[i].maxId))
  <2> TAKE i \in 1 .. some
  <2>1. i \in 1 .. count
    OBVIOUS
  <2>2. TableBelow(l[i], n)
    OBVIOUS
  <2> QED
    BY <2>1, <2>2, TableKept
<1>2. ASSUME NEW i \in 1 .. some PROVE m[i].hint = Hint(t[m[i].off])
  BY ONLY <1>1, Differ(l, count, r) DEF Differ
<1>3. ASSUME NEW i \in 1 .. some, NEW j \in 1 .. some, m[i].maxId = m[j].maxId,
             Block(t, m[i].off, MetaSize(m[i].maxId)) = Block(t, m[j].off, MetaSize(m[j].maxId))
      PROVE  i = j
  <2>1. /\ l[i].maxId = l[j].maxId
        /\ Block(r, l[i].off, MetaSize(l[i].maxId)) = Block(r, l[j].off, MetaSize(l[j].maxId))
    BY ONLY <1>1, <1>3
  <2> QED
    BY ONLY <1>1, <2>1, Differ(l, count, r) DEF Differ
<1> QED
  BY <1>2, <1>3 DEF Differ

(* What is known of the tables and of the words they lie in.               *)
LEMMA TablesAreBelow ==
  ASSUME IInv
  PROVE  /\ TablesHeld \in Nat /\ TablesHeld <= Len(left)
         /\ \A i \in 1 .. TablesHeld : TableBelow(left[i], Floor)
<1>1. left \in Seq(Table \cup FieldEntry) /\ Len(left) \in Nat /\ DOMAIN left = 1 .. Len(left)
  BY SeqFacts DEF IInv, LeftInv
<1>2. TablesHeld \in Nat /\ TablesHeld <= Len(left)
  <2>1. CASE msg.is = "sparse"
    <3>1. SparseOpen
      BY <2>1, MessageKinds DEF IInv
    <3>2. msg.base \in Nat /\ msg.added \in Nat /\ msg.base <= Len(left)
      BY <1>1, <3>1 DEF SparseOpen, SparseRecord
    <3> QED
      BY <2>1, <3>2 DEF TablesHeld
  <2>2. CASE msg.is # "sparse"
    BY <1>1, <2>2 DEF TablesHeld
  <2> QED
    BY <2>1, <2>2
<1>3. ASSUME NEW i \in 1 .. TablesHeld
      PROVE  TableBelow(left[i], Floor)
  <2>1. i \in DOMAIN left /\ i <= TablesHeld
    BY <1>1, <1>2
  <2> QED
    BY <2>1 DEF IInv, LeftInv, Table, TableBelow
<1> QED
  BY <1>2, <1>3

LEMMA TablesOnceKept ==
  ASSUME IInv, Kept, TablesOnce, LeftStep
  PROVE  TablesOnce'
<1>1. SameBelow(right, right', Floor)
  BY FloorKept DEF SameBelow
<1>2. /\ TablesHeld' \in Nat /\ TablesHeld \in Nat /\ TablesHeld' <= TablesHeld
      /\ \A i \in 1 .. TablesHeld' : left'[i] = left[i] /\ TableBelow(left[i], Floor)
  BY TablesAreBelow DEF LeftStep
<1> DEFINE some == TablesHeld'
           m == left'
           t == right'
<1>3. TablesOnce' <=> Differ(m, some, t)
  BY DEF TablesOnce
<1>4. /\ SameBelow(right, t, Floor) /\ some \in Nat /\ some <= TablesHeld
      /\ \A i \in 1 .. some : m[i] = left[i] /\ TableBelow(left[i], Floor)
      /\ Differ(left, TablesHeld, right)
  BY <1>1, <1>2 DEF TablesOnce
<1> HIDE DEF some, m, t
<1> QED
  BY <1>2, <1>3, <1>4, DifferKept

-----------------------------------------------------------------------------
(* Strings and arrays of scalars.                                          *)

(* New bytes are those of no entry, or they are dropped for those of one.  *)
LEMMA DeduplicatedOnce ==
  ASSUME OnceInv, IInv', Kept, NotFinished, NotNested, NEW kind \in Shared, NEW body,
         NEW block \in Seq(Int), Len(block) > 0,
         block = Words([off |-> 0, kind |-> kind, body |-> body]),
         Deduplicated(Push(right, block), kind, body)
  PROVE  PoolOnce'
<1> DEFINE r == Push(right, block)
           size == Len(block)
           x(o) == [off |-> o, kind |-> kind, body |-> body]
<1>1. Floor = Size
  BY Unnested DEF OnceInv
<1>2. right \in Seq(Int) /\ Size \in Nat /\ size \in Nat \ {0} /\ Size = Len(right)
  BY SeqFacts DEF OnceInv, IInv, ScalarsInv, Size
<1>3. /\ r \in Seq(Int) /\ Len(r) = Size + size /\ Len(r) - Size = size
      /\ \A k \in 1 .. Size : r[k] = right[k]
  <2>1. r \in Seq(Int) /\ Len(r) = Len(right) + size /\ \A k \in 1 .. Len(right) : r[k] = right[k]
    BY <1>2, PushProperties
  <2> HIDE DEF r, size
  <2> QED
    BY <1>2, <2>1
<1>4. \A o : Words(x(o)) = block
  BY DEF Words
<1>5. ASSUME NEW s \in Seq(Int), NEW n \in Nat, Agree(s, r, n), n <= Len(r),
             NEW e \in size .. n, Block(r, e, size) = Block(r, Len(r), size)
      PROVE  BlockAt(s, e, block)
  BY <1>2, <1>5, PushedBlock
<1>6. Deduplicated(r, kind, body)
  OBVIOUS
<1>7. /\ Pop(r, size) \in Seq(Int) /\ Len(Pop(r, size)) = Size
      /\ \A k \in 1 .. Size : Pop(r, size)[k] = r[k]
  <2>1. size \in 0 .. Len(r) /\ Len(r) - size = Size
    BY <1>2, <1>3
  <2> HIDE DEF r, size
  <2> QED
    BY <1>3, <2>1, PopProperties
<1>8. \A e \in pool : e.off \in 0 .. Size /\ e.size \in 1 .. e.off
  BY <1>1 DEF OnceInv, IInv, PoolInv
<1>9. ASSUME NEW e \in pool
      PROVE  Block(right', e.off, e.size) = Block(right, e.off, e.size)
  BY EntryKept DEF OnceInv
<1>10. ASSUME NEW y \in objects, y.kind \in Shared, NEW p, pool \subseteq p
       PROVE  Pooled(y, p, right')
  <2>1. Pooled(y, pool, right)
    BY <1>10 DEF OnceInv, PoolOnce
  <2>2. PICK e \in pool : e.off = y.off /\ e.size = Len(Words(y)) /\ BlockAt(right, e.off, Words(y))
    BY <2>1 DEF Pooled
  <2>3. BlockAt(right', e.off, Words(y))
    BY <2>2, EntryKept DEF OnceInv
  <2> QED
    BY <1>10, <2>2, <2>3 DEF Pooled
<1>11. \A d, e \in pool :
         d.size = e.size /\ Block(right', d.off, d.size) = Block(right', e.off, e.size) => d = e
  BY <1>9 DEF OnceInv, PoolOnce
<1> HIDE DEF r, size
<1>12. CASE pool' = pool /\ objects' = objects
  BY <1>10, <1>11, <1>12 DEF PoolOnce
<1>13. ASSUME NEW e \in Twins(r, size), right' = Pop(r, size), pool' = pool,
              Promise(e.off, kind, body)
       PROVE  PoolOnce'
  <2>1. e \in pool /\ e.size = size /\ Block(r, e.off, size) = Block(r, Len(r), size)
    BY <1>13 DEF Twins
  <2>2. e.off \in size .. Size
    BY <1>2, <1>8, <2>1
  <2>3. Agree(right', r, Size) /\ Size <= Len(r)
    BY <1>2, <1>3, <1>7, <1>13 DEF Agree
  <2>4. BlockAt(right', e.off, block)
    BY <1>2, <1>5, <1>7, <1>13, <2>1, <2>2, <2>3
  <2>5. Pooled(x(e.off), pool, right')
    <3>1. x(e.off).off = e.off
      OBVIOUS
    <3>2. Words(x(e.off)) = block
      BY <1>4
    <3> HIDE DEF x
    <3> QED
      BY <2>1, <2>4, <3>1, <3>2 DEF Pooled, size
  <2>6. objects' = objects \cup {x(e.off)}
    BY <1>13 DEF Promise
  <2> HIDE DEF x
  <2>7. ASSUME NEW y \in objects', y.kind \in Shared
        PROVE  Pooled(y, pool', right')
    BY <1>10, <1>13, <2>5, <2>6, <2>7
  <2> QED
    BY <1>11, <1>13, <2>7 DEF PoolOnce
<1>14. ASSUME Twins(r, size) = {}, right' = r, Promise(Len(r), kind, body),
              pool' = pool \cup {[off |-> Len(r), size |-> size]}
       PROVE  PoolOnce'
  <2> DEFINE new == [off |-> Len(r), size |-> size]
  <2>1. new.off = Len(r) /\ new.size = size /\ pool' = pool \cup {new}
    BY <1>14
  <2> HIDE DEF new
  <2>2. ASSUME NEW e \in pool, e.size = size
        PROVE  Block(right', e.off, size) # Block(right', Len(r), size)
    BY <1>14, <2>2 DEF Twins
  <2>3. \A d, e \in pool' :
          d.size = e.size /\ Block(right', d.off, d.size) = Block(right', e.off, e.size) => d = e
    <3> SUFFICES ASSUME NEW d \in pool', NEW e \in pool', d.size = e.size,
                        Block(right', d.off, d.size) = Block(right', e.off, e.size)
                 PROVE  d = e
      OBVIOUS
    <3>1. CASE d \in pool /\ e \in pool
      BY <1>11, <3>1
    <3>2. CASE d \in pool /\ e = new
      BY <2>1, <2>2, <3>2
    <3>3. CASE e \in pool /\ d = new
      BY <2>1, <2>2, <3>3
    <3> QED
      BY <2>1, <3>1, <3>2, <3>3
  <2>4. Pooled(x(Len(r)), pool', right')
    <3>1. Agree(right', r, Len(r)) /\ Len(r) \in size .. Len(r) /\ Len(r) \in Nat
      BY <1>2, <1>3, <1>14 DEF Agree
    <3>2. BlockAt(right', Len(r), block)
      BY <1>3, <1>5, <1>14, <3>1
    <3>3. x(Len(r)).off = Len(r) /\ Words(x(Len(r))) = block
      BY <1>4
    <3> HIDE DEF x
    <3> QED
      BY <2>1, <3>2, <3>3 DEF Pooled, size
  <2>5. objects' = objects \cup {x(Len(r))}
    BY <1>14 DEF Promise
  <2> HIDE DEF x
  <2>6. ASSUME NEW y \in objects', y.kind \in Shared
        PROVE  Pooled(y, pool', right')
    BY <1>10, <2>1, <2>4, <2>5, <2>6
  <2> QED
    BY <2>3, <2>6 DEF PoolOnce
<1> QED
  BY <1>3, <1>6, <1>12, <1>13, <1>14 DEF Deduplicated

-----------------------------------------------------------------------------
(* Tables.                                                                 *)

LEMMA TableRaised ==
  ASSUME NEW e, NEW n \in Int, NEW end \in Int, TableBelow(e, n), n <= end
  PROVE  TableBelow(e, end)
<1>1. MetaSize(e.maxId) \in Nat
  BY MetaSizeProperties DEF TableBelow
<1> QED
  BY <1>1 DEF TableBelow

(* A block is its words.                                                   *)
LEMMA EqualBlocks ==
  ASSUME NEW r \in Seq(Int), NEW t \in Seq(Int), NEW o \in 0 .. Len(r), o \in 0 .. Len(t),
         NEW size \in 0 .. o, \A k \in o - size + 1 .. o : t[k] = r[k]
  PROVE  Block(t, o, size) = Block(r, o, size)
<1>1. /\ Block(r, o, size) \in Seq(Int) /\ Len(Block(r, o, size)) = size
      /\ \A k \in 1 .. size : Block(r, o, size)[k] = r[o - size + k]
  BY BlockProperties
<1>2. /\ Block(t, o, size) \in Seq(Int) /\ Len(Block(t, o, size)) = size
      /\ \A k \in 1 .. size : Block(t, o, size)[k] = t[o - size + k]
  BY BlockProperties
<1>3. ASSUME NEW k \in 1 .. size PROVE r[o - size + k] = t[o - size + k]
  <2>1. o \in Int /\ size \in Int /\ k \in 1 .. size
    BY SeqFacts
  <2>2. o - size + k \in o - size + 1 .. o
    BY ONLY <2>1
  <2> QED
    BY <2>2
<1> HIDE DEF Block
<1> QED
  BY <1>1, <1>2, <1>3, SeqEqual, ZenonT(60)

(* The last word of a block is the one its offset names.                   *)
LEMMA LastOfBlock ==
  ASSUME NEW r, NEW n, NEW e, r \in Seq(Int), n <= Len(r), n \in Nat, TableBelow(e, n)
  PROVE  Block(r, e.off, MetaSize(e.maxId))[MetaSize(e.maxId)] = r[e.off]
<1> DEFINE size == MetaSize(e.maxId)
           off == e.off
<1>1. size \in Nat \ {0} /\ off \in size .. n /\ Len(r) \in Nat
  BY MetaSizeProperties, SeqFacts DEF TableBelow
<1> HIDE DEF size, off
<1>2. off \in 0 .. Len(r) /\ size \in 0 .. off /\ size \in 1 .. size /\ off - size + size = off
  BY <1>1
<1>3. Block(r, off, size)[size] = r[off - size + size]
  BY <1>2, BlockProperties
<1> QED
  BY <1>2, <1>3 DEF size, off

(* A table that none of the others equals is one more that differs.        *)
LEMMA TableAdded ==
  ASSUME NEW r, NEW l, NEW count, Differ(l, count, r), l \in Seq(Table), count = Len(l),
         \A i \in 1 .. count : TableBelow(l[i], Len(r)), r \in Seq(Int),
         NEW table \in Table, TableBelow(table, Len(r)), table.off = Len(r),
         table.hint = Hint(r[Len(r)]), SameMeta(r, l, table.maxId) = {}
  PROVE  Differ(Append(l, table), count + 1, r)
<1> DEFINE m == Append(l, table)
<1>1. count \in Nat /\ Len(r) \in Nat /\ DOMAIN l = 1 .. count
  BY SeqFacts
<1>2. \A i \in 1 .. count + 1 : m[i] = IF i <= count THEN l[i] ELSE table
  BY <1>1
<1>3. \A i \in 1 .. count + 1 : i \in 1 .. count \/ i = count + 1
  BY <1>1
<1> HIDE DEF m
<1>4. \A i \in 1 .. count : m[i] = l[i]
  BY <1>1, <1>2
<1>5. m[count + 1] = table
  BY <1>1, <1>2
<1>6. ASSUME NEW i \in 1 .. count, l[i].maxId = table.maxId,
             Block(r, l[i].off, MetaSize(l[i].maxId)) = Block(r, table.off, MetaSize(table.maxId))
      PROVE  FALSE
  <2>1. TableBelow(l[i], Len(r)) /\ l[i].is = "meta"
    <3>1. l[i] \in Table
      BY SeqFacts
    <3> QED
      BY <3>1 DEF Table
  <2>2. r[l[i].off] = r[table.off]
    <3> DEFINE n == Len(r)
    <3>1. n \in Nat /\ n <= Len(r) /\ TableBelow(l[i], n) /\ TableBelow(table, n)
      BY <1>1, <2>1
    <3> HIDE DEF n
    <3>2. Block(r, l[i].off, MetaSize(l[i].maxId))[MetaSize(l[i].maxId)] = r[l[i].off]
      BY <3>1, LastOfBlock
    <3>3. Block(r, table.off, MetaSize(table.maxId))[MetaSize(table.maxId)] = r[table.off]
      BY <3>1, LastOfBlock
    <3> QED
      BY ONLY <1>6, <3>2, <3>3
  <2>3. l[i].hint = Hint(r[Len(r)])
    BY <2>2 DEF Differ
  <2>4. i \in SameMeta(r, l, table.maxId)
    BY <1>1, <1>6, <2>1, <2>3 DEF SameMeta
  <2> QED
    BY <2>4
<1>7. \A i \in 1 .. count + 1 : m[i].hint = Hint(r[m[i].off])
  BY <1>3, <1>4, <1>5 DEF Differ
<1>8. ASSUME NEW i \in 1 .. count + 1, NEW j \in 1 .. count + 1, m[i].maxId = m[j].maxId,
             Block(r, m[i].off, MetaSize(m[i].maxId)) = Block(r, m[j].off, MetaSize(m[j].maxId))
      PROVE  i = j
  <2>1. CASE i \in 1 .. count /\ j \in 1 .. count
    BY <1>4, <1>8, <2>1 DEF Differ
  <2>2. CASE i \in 1 .. count /\ j = count + 1
    BY <1>4, <1>5, <1>6, <1>8, <2>2
  <2>3. CASE i = count + 1 /\ j \in 1 .. count
    BY <1>4, <1>5, <1>6, <1>8, <2>3
  <2> QED
    BY <1>3, <2>1, <2>2, <2>3
<1> QED
  BY <1>7, <1>8 DEF Differ, m

(* The table of a message is shared, recorded, or refused and dropped.     *)
LEMMA FinishMetadataOnce ==
  ASSUME OnceInv, IInv', Kept, NEW r \in Seq(Int), NEW m, m.maxId \in Nat, m.maxId >= 2,
         NEW start \in Nat, Floor < start, Len(r) = start + 1 + MetaSize(m.maxId),
         \A k \in 1 .. Floor : r[k] = right[k],
         NEW l, Tables(l, Floor), Len(l) = TablesHeld, \A i \in 1 .. TablesHeld : l[i] = left[i],
         FinishMetadata(r, l, m, start), TablesHeld' = Len(left')
  PROVE  TablesOnce'
<1> DEFINE maxId == m.maxId
           size == MetaSize(maxId)
           same == SameMeta(r, l, maxId)
           table == [is |-> "meta", off |-> Len(r), maxId |-> maxId, hint |-> Hint(r[Len(r)])]
<1>1. size \in Nat \ {0} /\ Len(r) \in Nat /\ Floor \in Nat /\ Floor <= Len(right)
      /\ right \in Seq(Int) /\ right' \in Seq(Int) /\ Len(right') \in Nat
  BY MetaSizeProperties, FloorKept, SeqFacts DEF OnceInv
<1>2. /\ l \in Seq(Table) /\ Len(l) \in Nat /\ DOMAIN l = 1 .. Len(l) /\ TablesHeld \in Nat
      /\ \A i \in 1 .. TablesHeld : l[i] = left[i] /\ l[i] \in Table /\ TableBelow(left[i], Floor)
  BY SeqFacts, TablesAreBelow DEF Tables, OnceInv
<1>3. CASE left' = l
  <2>1. LeftStep
    BY <1>2, <1>3 DEF LeftStep
  <2> QED
    BY <2>1, TablesOnceKept DEF OnceInv
<1>4. CASE same = {} /\ left' = Append(l, table) /\ Close(start, Presence(msg))
           /\ right' = [Pop(r, 0) EXCEPT ![start + 1] = start - (Len(r) - size)]
  <2> DEFINE word == start - (Len(r) - size)
             count == TablesHeld
  <2>1. word \in Int /\ start + 1 \in 1 .. Len(r) /\ Floor < start + 1 /\ size <= Len(r)
        /\ Len(r) - size = start + 1 /\ Len(r) # start + 1
        /\ size \in 0 .. Len(r) /\ Len(r) \in 1 .. Len(r)
    <3>1. Len(r) = start + 1 + size
      OBVIOUS
    <3> DEFINE n == Len(r)
    <3> HIDE DEF size
    <3>2. n \in Nat /\ size \in Nat \ {0} /\ Floor \in Nat /\ n = start + 1 + size
      BY <1>1, <3>1
    <3> HIDE DEF n
    <3>3. /\ start + 1 \in 1 .. n /\ Floor < start + 1 /\ size <= n /\ n - size = start + 1
          /\ n # start + 1 /\ size \in 0 .. n /\ n \in 1 .. n /\ start - (n - size) \in Int
      BY ONLY <3>2, start \in Nat, Floor < start
    <3> QED
      BY <3>3 DEF n
  <2>2. Pop(r, 0) \in Seq(Int) /\ Len(Pop(r, 0)) = Len(r) /\ \A k \in 1 .. Len(r) : Pop(r, 0)[k] = r[k]
    <3>1. 0 \in 0 .. Len(r) /\ Len(r) - 0 = Len(r)
      BY <1>1
    <3> QED
      BY <3>1, PopProperties
  <2> HIDE DEF word
  <2>3. /\ right' \in Seq(Int) /\ Len(right') = Len(r)
        /\ \A k \in 1 .. Len(r) : right'[k] = IF k = start + 1 THEN word ELSE r[k]
    BY <1>4, <2>1, <2>2, SetProperties DEF word
  <2>4. SameBelow(right, r, Floor) /\ SameBelow(r, right', Floor)
    <3>1. Floor <= Len(r) /\ \A k \in 1 .. Floor : k # start + 1 /\ k \in 1 .. Len(r)
      BY ONLY <1>1, <2>1, start \in Nat
    <3> QED
      BY <1>1, <2>3, <3>1 DEF SameBelow
  <2>5. Hint(r[Len(r)]) \in Int
    <3>1. Len(r) \in 1 .. Len(r)
      BY <2>1
    <3>2. r[Len(r)] \in Int
      BY <3>1
    <3> QED
      BY <3>2, HintType
  <2>6. table \in Table /\ table.maxId = maxId /\ table.off = Len(r) /\ TableBelow(table, Len(r))
    <3>1. table.off \in size .. Len(r)
      BY <1>1, <2>1
    <3> QED
      BY <1>1, <2>5, <3>1 DEF Table, TableBelow
  <2>7. Block(right', Len(r), size) = Block(r, Len(r), size) /\ right'[Len(r)] = r[Len(r)]
    <3> HIDE DEF size
    <3> DEFINE n == Len(r)
               t == right'
    <3>1. /\ t \in Seq(Int) /\ Len(t) = n /\ Len(r) = n /\ n \in Nat /\ n \in 1 .. n
          /\ size \in 0 .. n /\ n - size = start + 1 /\ n # start + 1
          /\ \A k \in 1 .. n : t[k] = IF k = start + 1 THEN word ELSE r[k]
      BY ONLY <1>1, <2>1, <2>3 DEF n, t
    <3> HIDE DEF n, t
    <3>2. \A k \in n - size + 1 .. n : k \in 1 .. n /\ k # start + 1
      BY ONLY <3>1, <1>1, start \in Nat
    <3>3. \A k \in n - size + 1 .. n : t[k] = r[k]
      BY <3>1, <3>2
    <3>4. Block(t, n, size) = Block(r, n, size)
      <4>1. n \in 0 .. Len(r) /\ n \in 0 .. Len(t)
        BY <3>1
      <4> QED
        BY <3>1, <3>3, <4>1, EqualBlocks
    <3>5. t[n] = r[n]
      BY <3>1
    <3> QED
      BY <3>4, <3>5 DEF n, t
  <2> HIDE DEF size, table
  <2>8. Differ(l, count, right')
    <3>1. Differ(left, count, right)
      BY DEF OnceInv, TablesOnce
    <3>2. SameBelow(right, right', Floor)
      BY FloorKept DEF OnceInv, SameBelow
    <3> DEFINE t == right'
    <3>3. SameBelow(right, t, Floor) /\ count \in Nat /\ count <= count
          /\ \A i \in 1 .. count : l[i] = left[i] /\ TableBelow(left[i], Floor)
      BY <1>2, <3>2
    <3> HIDE DEF t, count
    <3>4. Differ(l, count, t)
      BY <3>1, <3>3, DifferKept
    <3> QED
      BY <3>4 DEF t
  <2>9. \A i \in 1 .. count : TableBelow(l[i], Len(r))
    <3>1. Floor <= Len(r)
      BY <2>4 DEF SameBelow
    <3>2. \A i \in 1 .. count : TableBelow(l[i], Floor)
      BY <1>2
    <3> QED
      BY <1>1, <3>1, <3>2, TableRaised
  <2>10. SameMeta(right', l, maxId) = {}
    <3> SUFFICES ASSUME NEW i \in SameMeta(right', l, maxId)
                 PROVE  FALSE
      OBVIOUS
    <3>1. /\ i \in 1 .. count /\ l[i].is = "meta" /\ l[i].maxId = maxId
          /\ l[i].hint = Hint(right'[Len(r)])
          /\ Block(right', l[i].off, size) = Block(right', Len(r), size)
      BY <1>2, <2>3 DEF SameMeta, size
    <3>2. TableBelow(l[i], Floor)
      BY <1>2, <3>1
    <3>3. Block(right', l[i].off, MetaSize(l[i].maxId)) = Block(r, l[i].off, MetaSize(l[i].maxId))
      BY <2>4, <3>2, TableKept
    <3>4. i \in same
      BY <1>2, <2>7, <3>1, <3>3 DEF SameMeta, size
    <3> QED
      BY <1>4, <3>4
  <2> DEFINE t == right'
  <2>11. /\ t \in Seq(Int) /\ Len(t) = Len(r) /\ Differ(l, count, t) /\ l \in Seq(Table)
         /\ count = Len(l) /\ \A i \in 1 .. count : TableBelow(l[i], Len(t))
         /\ table \in Table /\ TableBelow(table, Len(t)) /\ table.off = Len(t)
         /\ table.hint = Hint(t[Len(t)]) /\ SameMeta(t, l, table.maxId) = {}
    BY <1>2, <2>3, <2>6, <2>7, <2>8, <2>9, <2>10 DEF table
  <2> HIDE DEF t, count
  <2>12. Differ(Append(l, table), count + 1, t)
    BY <2>11, TableAdded
  <2>13. Len(left') = count + 1
    BY <1>2, <1>4, <2>11
  <2> QED
    BY <1>4, <2>12, <2>13 DEF TablesOnce, t
<1>5. \/ msg' = [m EXCEPT !.tainted = TRUE] /\ left' = l
      \/ left' = l
      \/ /\ same = {} /\ left' = Append(l, table) /\ Close(start, Presence(msg))
         /\ right' = [Pop(r, 0) EXCEPT ![start + 1] = start - (Len(r) - size)]
  BY DEF FinishMetadata
<1> QED
  BY <1>3, <1>4, <1>5

-----------------------------------------------------------------------------
(* The steps of the client.                                                *)

LEMMA OnceKept ==
  ASSUME OnceInv, IInv', Kept, PoolStep, LeftStep
  PROVE  OnceInv'
  BY PoolOnceKept, TablesOnceKept DEF OnceInv

(* No table comes or goes outside sparse messages, or below their fields.  *)
LEMMA SameTables ==
  ASSUME IInv, left' = left, TablesHeld' = TablesHeld
  PROVE  LeftStep
  BY TablesAreBelow DEF LeftStep

LEMMA OtherMessage ==
  ASSUME IInv, left' = left, msg.is # "sparse", msg'.is # "sparse"
  PROVE  LeftStep
<1>1. TablesHeld' = TablesHeld
  BY DEF TablesHeld
<1> QED
  BY <1>1, SameTables

LEMMA SameMessage ==
  ASSUME IInv, left' = left, msg' = msg
  PROVE  LeftStep
<1>1. TablesHeld' = TablesHeld
  BY DEF TablesHeld
<1> QED
  BY <1>1, SameTables

(* What is promised otherwise is not shared.                               *)
LEMMA Unshared ==
  ASSUME pool' = pool, NEW o, NEW kind, kind \notin Shared, NEW body,
         objects' = objects \/ Promise(o, kind, body)
  PROVE  PoolStep
  BY DEF PoolStep, Promise

LEMMA ClosedUnshared ==
  ASSUME pool' = pool, NEW o, NEW kind, kind \notin Shared,
         objects' = objects \/ Close(o, kind)
  PROVE  PoolStep
  BY Unshared DEF Close

LEMMA PresenceUnshared ==
  ASSUME NEW m
  PROVE  Presence(m) \notin Shared
  BY DEF Presence, Shared

LEMMA SerializeStringOnce ==
  ASSUME OnceInv, IInv', Kept, NEW v \in Strings, SerializeString(v)
  PROVE  OnceInv'
<1> DEFINE block == <<Len(v)>> \o v \o << 0 >>
<1>1. v \in Seq(Int) /\ Len(v) \in Nat
  BY SerializerAssumption, ScalarSeqs, SeqFacts
<1>2. block \in Seq(Int) /\ Len(block) > 0
  <2>1. <<Len(v)>> \in Seq(Int) /\ Len(<<Len(v)>>) = 1 /\ << 0 >> \in Seq(Int) /\ Len(<< 0 >>) = 1
    BY <1>1
  <2>2. <<Len(v)>> \o v \in Seq(Int) /\ Len(<<Len(v)>> \o v) = 1 + Len(v)
    BY <1>1, <2>1, ConcatFacts
  <2> QED
    BY <1>1, <2>1, <2>2, ConcatFacts
<1> DEFINE kind == "string"
<1>3. /\ NotFinished /\ NotNested
      /\ Deduplicated(Push(right, block), kind, v)
      /\ UNCHANGED <<left, msg>>
  BY DEF SerializeString
<1>4. block = Words([off |-> 0, kind |-> kind, body |-> v]) /\ kind \in Shared
  BY DEF Words, Shared
<1>5. LeftStep
  BY <1>3, SameMessage DEF OnceInv
<1> HIDE DEF block, kind
<1>6. PoolOnce'
  BY <1>2, <1>3, <1>4, DeduplicatedOnce
<1> QED
  BY <1>5, <1>6, TablesOnceKept DEF OnceInv

LEMMA SerializeArrayOnce ==
  ASSUME OnceInv, IInv', Kept, NEW v \in Vectors, SerializeArray(v)
  PROVE  OnceInv'
<1> DEFINE block == <<Len(v)>> \o v
           kind == "scalars"
<1>1. v \in Seq(Int) /\ Len(v) \in Nat
  BY SerializerAssumption, ScalarSeqs, SeqFacts
<1>2. block \in Seq(Int) /\ Len(block) > 0
  <2>1. <<Len(v)>> \in Seq(Int) /\ Len(<<Len(v)>>) = 1
    BY <1>1
  <2> QED
    BY <1>1, <2>1, ConcatFacts
<1>3. /\ NotFinished /\ NotNested
      /\ Deduplicated(Push(right, block), kind, v)
      /\ UNCHANGED <<left, msg>>
  BY DEF SerializeArray
<1>4. block = Words([off |-> 0, kind |-> kind, body |-> v]) /\ kind \in Shared
  BY DEF Words, Shared
<1>5. LeftStep
  BY <1>3, SameMessage DEF OnceInv
<1> HIDE DEF block, kind
<1>6. PoolOnce'
  BY <1>2, <1>3, <1>4, DeduplicatedOnce
<1> QED
  BY <1>5, <1>6, TablesOnceKept DEF OnceInv

LEMMA WriteOnce ==
  ASSUME OnceInv, IInv', Kept, Write
  PROVE  OnceInv'
<1>1. IInv
  BY DEF OnceInv
<1>2. CASE \E s \in Strings : SerializeString(s)
  BY <1>2, SerializeStringOnce
<1>3. CASE \E v \in Vectors : SerializeArray(v)
  BY <1>3, SerializeArrayOnce
<1>4. CASE \E n \in RefLists : \E list \in [1 .. n -> RefInputs] : SerializeOffsets(list)
  <2>1. PICK n \in RefLists : \E list \in [1 .. n -> RefInputs] : SerializeOffsets(list)
    BY <1>4
  <2>2. PICK list \in [1 .. n -> RefInputs] : SerializeOffsets(list)
    BY <2>1
  <2>3. /\ UNCHANGED <<left, msg, pool>>
        /\ objects' = objects \/ Promise(Size + Len(list) + 1, "refs", list)
    BY <2>2 DEF SerializeOffsets
  <2>4. PoolStep
    BY <2>3, Unshared DEF Shared
  <2> QED
    BY <1>1, <2>3, <2>4, SameMessage, OnceKept
<1>5. CASE StartInline \/ NextElement \/ AbandonInline
  <2>1. UNCHANGED <<left, msg, pool, objects>>
    BY <1>5 DEF StartInline, NextElement, AbandonInline
  <2>2. PoolStep
    BY <2>1 DEF PoolStep
  <2> QED
    BY <1>1, <2>1, <2>2, SameMessage, OnceKept
<1>6. CASE LastElement
  <2> DEFINE made == Append(inline.made, Size)
  <2>1. UNCHANGED <<left, msg, pool>>
        /\ (objects' = objects \/ Promise(Size + 1, "inline", Reverse(made)))
    BY <1>6 DEF LastElement
  <2>2. PoolStep
    BY <2>1, Unshared DEF Shared
  <2> QED
    BY <1>1, <2>1, <2>2, SameMessage, OnceKept
<1> QED
  BY <1>2, <1>3, <1>4, <1>5, <1>6 DEF Write

LEMMA StartMessageOnce ==
  ASSUME OnceInv, IInv', Kept, StartMessage
  PROVE  OnceInv'
<1>1. IInv
  BY DEF OnceInv
<1>2. PoolStep
  BY DEF PoolStep, StartMessage, StartFixed, StartFlat, StartSparse, StartPreallocated, Open
<1>3. left' = left /\ msg = None
  <2>1. CASE StartFixed(MaxField)
    BY <2>1 DEF StartFixed
  <2>2. CASE ~StartFixed(MaxField)
    <3>1. left' = left /\ NotNested
      BY <2>2 DEF StartMessage, StartFlat, StartSparse, StartPreallocated
    <3> QED
      BY <1>1, <3>1, Unnested
  <2> QED
    BY <2>1, <2>2
<1>4. TablesHeld = Len(left)
  BY <1>3 DEF TablesHeld, None
<1>5. TablesHeld' = Len(left)
  <2>1. CASE \E explicit \in BOOLEAN : StartSparse(explicit)
    <3>1. msg'.is = "sparse" /\ msg'.base = Len(left)
      BY <2>1 DEF StartSparse, Open
    <3> QED
      BY <3>1 DEF TablesHeld
  <2>2. CASE ~\E explicit \in BOOLEAN : StartSparse(explicit)
    <3>1. ASSUME NEW explicit, NEW accounted, StartPreallocated(explicit, accounted)
          PROVE  msg'.is # "sparse"
      <4> DEFINE size == Cardinality(accounted)
                 end == Size + size + 1
                 maxId == IF accounted = {} THEN 0 ELSE Max(accounted) + 1
                 last == size + 1
                 tainted == ~Checked(end)
                 m == [is |-> "preallocated", explicit |-> explicit, start |-> Size,
                       end |-> 0, base |-> 0, maxId |-> 0, prev |-> 0, prevOffset |-> 0,
                       accounted |-> accounted, tainted |-> tainted, fields |-> <<>>]
      <4>1. \/ msg' = [m EXCEPT !.end = end, !.base = end, !.maxId = maxId, !.prevOffset = last]
            \/ msg' = m
        BY <3>1 DEF StartPreallocated, Open
      <4> HIDE DEF end, maxId, last, tainted
      <4>2. m \in [is : {"preallocated"}, explicit : {explicit}, start : {Size}, end : {0, end},
                   base : {0, end}, maxId : {0, maxId}, prev : {0}, prevOffset : {0, last},
                   accounted : {accounted}, tainted : {tainted}, fields : {<<>>}]
        BY ONLY TRUE
      <4> HIDE DEF m
      <4> QED
        BY ONLY <4>1, <4>2
    <3>2. ASSUME StartFixed(MaxField) \/ \E explicit, sized \in BOOLEAN : StartFlat(explicit, sized)
          PROVE  msg'.is # "sparse"
      BY <3>2 DEF StartFixed, StartFlat, Open, Valueless
    <3>3. msg'.is # "sparse"
      BY <2>2, <3>1, <3>2 DEF StartMessage
    <3> QED
      BY <1>3, <3>3 DEF TablesHeld
  <2> QED
    BY <2>1, <2>2
<1> QED
  BY <1>1, <1>2, <1>3, <1>4, <1>5, SameTables, OnceKept

LEMMA AddSparseOnce ==
  ASSUME OnceInv, IInv', Kept, NEW id, NEW v, NEW scalar, AddSparse(id, v, scalar)
  PROVE  OnceInv'
<1> DEFINE inOrder == id > 0 /\ (msg.prev = 0 \/ msg.prev > id)
           ranged == msg.maxId # 0 \/ id < IdLimit
           prev == IF inOrder THEN id ELSE msg.prev
           maxId == IF inOrder /\ ranged /\ msg.maxId = 0 THEN id + 1 ELSE msg.maxId
           m == [msg EXCEPT !.prev = prev, !.maxId = maxId]
           entry == [is |-> "field", off |-> Size + 1, id |-> id, scalar |-> scalar]
<1>1. /\ msg.is = "sparse" /\ UNCHANGED <<pool, objects>>
      /\ \/ /\ left' = Append(left, entry)
            /\ msg' = [m EXCEPT !.added = m.added + 1, !.fields = Added(id, v)]
         \/ left' = left /\ msg' = [m EXCEPT !.tainted = TRUE]
  BY DEF AddSparse
<1>2. IInv /\ SparseOpen
  BY <1>1, MessageKinds DEF OnceInv, IInv
<1>3. msg \in SparseRecord(msg.fields)
  BY <1>2 DEF SparseOpen
<1> HIDE DEF prev, maxId, entry
<1>4. msg'.is = "sparse" /\ msg'.base = msg.base
  BY ONLY <1>1, <1>3 DEF SparseRecord
<1>5. TablesHeld = msg.base /\ TablesHeld' = TablesHeld
  BY <1>1, <1>4 DEF TablesHeld
<1>6. TablesHeld \in Nat /\ TablesHeld <= Len(left) /\ Len(left) \in Nat
      /\ left \in Seq(Table \cup FieldEntry)
  BY <1>2, TablesAreBelow, SeqFacts DEF IInv, LeftInv
<1>7. \A i \in 1 .. TablesHeld : i \in 1 .. Len(left)
  BY ONLY <1>6
<1>8. \A i \in 1 .. Len(left) : left'[i] = left[i]
  BY <1>1, <1>6
<1>9. LeftStep
  BY <1>5, <1>6, <1>7, <1>8 DEF LeftStep
<1>10. PoolStep
  BY <1>1 DEF PoolStep
<1> QED
  BY <1>9, <1>10, OnceKept

(* The other messages write their fields into the right stack only.        *)
LEMMA AddOtherOnce ==
  ASSUME OnceInv, IInv', Kept, NEW id, NEW v, NEW word, NEW default, NEW scalar,
         \/ AddFixed(id, v, word)
         \/ AddFlat(id, v, default, scalar)
         \/ AddPreallocated(id, v, word, scalar)
  PROVE  OnceInv'
<1>1. UNCHANGED <<left, pool, objects>> /\ msg.is \in {"fixed", "flat", "preallocated"}
  BY DEF AddFixed, AddFlat, AddPreallocated
<1>2. IInv
  BY DEF OnceInv
<1>3. msg'.is = msg.is
  <2>1. CASE AddFixed(id, v, word)
    <3>1. msg' = [msg EXCEPT !.fields = Added(id, v)] /\ FixedOpen
      BY <1>2, <2>1, MessageKinds DEF AddFixed, IInv
    <3> QED
      BY <3>1 DEF FixedOpen
  <2>2. CASE AddPreallocated(id, v, word, scalar)
    <3> DEFINE fields == Added(id, v)
    <3>1. PICK offset :
            msg' = [msg EXCEPT !.prev = id, !.prevOffset = offset, !.fields = fields]
      BY <2>2, Zenon DEF AddPreallocated
    <3>2. PreallocatedOpen
      BY <1>2, <2>2, MessageKinds DEF AddPreallocated, IInv
    <3> HIDE DEF fields
    <3> QED
      BY <3>1, <3>2 DEF PreallocatedOpen, PreallocatedRecord
  <2>3. CASE AddFlat(id, v, default, scalar)
    <3>1. FlatOpen
      BY <1>2, <2>3, MessageKinds DEF AddFlat, IInv
    <3>2. msg \in FlatRecord(msg.fields)
      BY <3>1 DEF FlatOpen, FlatMessage
    <3> DEFINE end == msg.start + FlatOffset(id) + 2
               base == Size + FlatOffset(id) + 2
               maxId == id + 1
               prev == FlatOffset(id)
               fields == Added(id, v)
               located == [msg EXCEPT !.end = end, !.base = base, !.maxId = maxId,
                                      !.prev = prev, !.need = FALSE]
               m == IF msg.maxId = 0 THEN located ELSE [msg EXCEPT !.prev = prev]
               need == m.need \/ (m.explicit /\ scalar /\ v = default)
               tracked == [m EXCEPT !.need = need]
    <3>3. \/ msg' = [msg EXCEPT !.tainted = TRUE]
          \/ msg' = [tracked EXCEPT !.tainted = TRUE]
          \/ msg' = [tracked EXCEPT !.fields = fields]
      BY <2>3 DEF AddFlat, Located, Tainted
    <3> HIDE DEF end, base, maxId, prev, fields, need
    <3> QED
      BY ONLY <3>2, <3>3 DEF FlatRecord
  <2> QED
    BY <2>1, <2>2, <2>3
<1>4. LeftStep
  BY <1>1, <1>2, <1>3, OtherMessage
<1>5. PoolStep
  BY <1>1 DEF PoolStep
<1> QED
  BY <1>4, <1>5, OnceKept

LEMMA AddOnce ==
  ASSUME OnceInv, IInv', Kept, AddScalar \/ AddRef
  PROVE  OnceInv'
<1>1. \E id, v, default, word, scalar :
        \/ AddFixed(id, v, word)
        \/ AddFlat(id, v, default, scalar)
        \/ AddPreallocated(id, v, word, scalar)
        \/ AddSparse(id, v, scalar)
  <2>1. CASE AddScalar
    BY <2>1 DEF AddScalar, AddFixedScalar, AddFlatScalar, AddPreallocatedScalar, AddSparseScalar
  <2>2. CASE AddRef
    BY <2>2 DEF AddRef, AddFixedRef, AddFlatRef, AddPreallocatedRef, AddSparseRef
  <2> QED
    BY <2>1, <2>2
<1>2. PICK id, v, default, word, scalar :
        \/ AddFixed(id, v, word)
        \/ AddFlat(id, v, default, scalar)
        \/ AddPreallocated(id, v, word, scalar)
        \/ AddSparse(id, v, scalar)
  BY <1>1
<1>3. CASE AddSparse(id, v, scalar)
  BY <1>3, AddSparseOnce
<1>4. CASE ~AddSparse(id, v, scalar)
  BY <1>2, <1>4, AddOtherOnce
<1> QED
  BY <1>3, <1>4

LEMMA FinishFixedOnce ==
  ASSUME OnceInv, IInv', Kept, FinishFixed \/ FinishFlat
  PROVE  OnceInv'
<1>1. IInv
  BY DEF OnceInv
<1>2. /\ UNCHANGED <<left, pool>> /\ msg.is \in {"fixed", "flat"}
      /\ \/ \E o : \E kind \in {"fixed", Presence(msg)} : Close(o, kind)
         \/ Tainted /\ objects' = objects
  BY DEF FinishFixed, FinishFlat
<1>3. msg'.is # "sparse"
  <2>1. CASE Tainted
    <3>1. FixedOpen \/ FlatOpen
      BY <1>1, <1>2, MessageKinds DEF IInv
    <3>2. FixedOpen \/ msg \in FlatRecord(msg.fields)
      BY <3>1 DEF FlatOpen, FlatMessage
    <3>3. msg' = [msg EXCEPT !.tainted = TRUE]
      BY <2>1 DEF Tainted
    <3>4. CASE FixedOpen
      BY <3>3, <3>4 DEF FixedOpen
    <3>5. CASE msg \in FlatRecord(msg.fields)
      BY ONLY <3>3, <3>5 DEF FlatRecord
    <3> QED
      BY <3>2, <3>4, <3>5
  <2>2. CASE ~Tainted
    BY <1>2, <2>2 DEF Close, None
  <2> QED
    BY <2>1, <2>2
<1>4. LeftStep
  BY <1>1, <1>2, <1>3, OtherMessage
<1>5. PoolStep
  <2>1. ASSUME NEW o, NEW kind \in {"fixed", Presence(msg)}, Close(o, kind)
        PROVE  PoolStep
    <3>1. kind \notin Shared
      BY PresenceUnshared DEF Shared
    <3> QED
      BY <1>2, <2>1, <3>1, ClosedUnshared
  <2>2. CASE objects' = objects
    BY <1>2, <2>2 DEF PoolStep
  <2> QED
    BY <1>2, <2>1, <2>2
<1> QED
  BY <1>4, <1>5, OnceKept

(* The stack of a sparse message whose fields have been linked.            *)
LEMMA LinkedStack ==
  ASSUME IInv, SparseOpen, Checked(Size), msg.maxId # 0,
         NEW r, r = LinkFields(Push(right, Zeros(MetaSize(msg.maxId) + 1)
                                           \o <<SparseLimit(msg.maxId)>>), Size + 1).r
  PROVE  /\ r \in Seq(Int) /\ Len(r) = Size + 2 + MetaSize(msg.maxId)
         /\ \A k \in 1 .. Floor : r[k] = right[k]
<1> DEFINE maxId == msg.maxId
           size == MetaSize(maxId)
           whole == Push(right, Zeros(MetaSize(maxId) + 1) \o <<SparseLimit(maxId)>>)
           start == Size + 1
<1>1. /\ msg.is = "sparse" /\ msg.start \in Nat /\ msg.start <= Size
      /\ maxId \in Nat /\ maxId >= 2
  BY DEF SparseOpen, SparseRecord
<1>2. right \in Seq(Int) /\ Size \in Nat /\ Floor = msg.start /\ size \in Nat
  BY <1>1, SeqFacts, FloorCases, MetaSizeProperties DEF IInv, ScalarsInv, Size
<1>3. /\ msg.base \in Nat /\ msg.added \in Nat
      /\ \A i \in msg.base + 1 .. msg.base + msg.added :
           left[i] \in FieldEntry /\ left[i].off \in msg.start + 1 .. Size
  BY SparseEntries
<1>4. r = LinkFields(whole, start).r
  OBVIOUS
<1>5. Prepared(whole, start, right, maxId)
  <2> HIDE DEF maxId
  <2>1. Prepared(Push(right, Zeros(MetaSize(maxId) + 1) \o <<SparseLimit(maxId)>>),
                 Len(right) + 1, right, maxId)
    BY <1>1, <1>2, TablePrepared
  <2> QED
    BY <2>1 DEF Size
<1> HIDE DEF whole
<1>6. /\ whole \in Seq(Int) /\ Len(whole) = start + 1 + size
      /\ \A k \in 1 .. start - 1 : whole[k] = right[k]
  BY <1>5 DEF Prepared
<1> HIDE DEF size
<1>7. /\ start \in Nat /\ msg.start < start /\ start <= Len(whole) /\ start - 1 = Size
      /\ Len(whole) = Size + 2 + size
  BY ONLY <1>1, <1>2, <1>6
<1> HIDE DEF start
<1>8. \A i \in msg.base + 1 .. msg.base + msg.added :
        left[i] \in FieldEntry /\ left[i].off \in msg.start + 1 .. start - 1
  BY <1>3, <1>7
<1>9. /\ LinkFields(whole, start).r \in Seq(Int)
      /\ Len(LinkFields(whole, start).r) = Len(whole)
      /\ \A k \in 1 .. Len(whole) : k <= msg.start => LinkFields(whole, start).r[k] = whole[k]
  BY <1>1, <1>3, <1>6, <1>7, <1>8, LinkFieldsProperties
<1>10. \A k \in 1 .. msg.start : k \in 1 .. Len(whole) /\ k <= msg.start /\ k \in 1 .. start - 1
  BY ONLY <1>1, <1>2, <1>7
<1>11. \A k \in 1 .. Floor : r[k] = right[k]
  BY <1>2, <1>4, <1>6, <1>9, <1>10
<1>12. r \in Seq(Int) /\ Len(r) = Size + 2 + MetaSize(msg.maxId)
  BY <1>4, <1>7, <1>9 DEF size
<1> QED
  BY <1>11, <1>12

LEMMA FinishSparseOnce ==
  ASSUME OnceInv, IInv', Kept, FinishSparse
  PROVE  OnceInv'
<1> DEFINE start == Size + 1
           linked == LinkFields(Push(right, Zeros(MetaSize(msg.maxId) + 1)
                                            \o <<SparseLimit(msg.maxId)>>), start)
           l == SubSeq(left, 1, Len(left) - msg.added)
<1>1. /\ msg.is = "sparse" /\ UNCHANGED pool
      /\ \/ /\ msg.maxId = 0 /\ left' = left /\ Close(start, Presence(msg))
         \/ left' = left /\ Tainted /\ UNCHANGED objects
         \/ msg.maxId # 0 /\ FinishMetadata(linked.r, l, msg, start)
  BY DEF FinishSparse
<1>2. IInv /\ SparseOpen
  BY <1>1, MessageKinds DEF OnceInv, IInv
<1>3. /\ msg \in SparseRecord(msg.fields) /\ msg.start \in Nat /\ msg.start <= Size
      /\ msg.maxId \in Nat /\ (msg.maxId # 0 => msg.maxId >= 2)
      /\ (msg.maxId = 0 => msg.added = 0)
  BY <1>2 DEF SparseOpen, SparseRecord
<1>4. /\ TablesHeld = msg.base /\ msg.base \in Nat /\ msg.added \in Nat
      /\ \/ Len(left) = msg.base + msg.added
         \/ Len(left) = msg.base /\ ~Checked(Size)
  BY <1>1, <1>2, <1>3 DEF SparseOpen, SparseRecord, TablesHeld
<1>5. /\ Floor = msg.start /\ Size \in Nat /\ left \in Seq(Table \cup FieldEntry)
  BY <1>1, <1>2, FloorCases, SeqFacts DEF IInv, ScalarsInv, LeftInv, Size
<1>6. Tainted => msg'.is = "sparse" /\ msg'.base = msg.base
  <2> SUFFICES ASSUME Tainted PROVE msg'.is = "sparse" /\ msg'.base = msg.base
    OBVIOUS
  <2>1. msg' = [msg EXCEPT !.tainted = TRUE]
    BY DEF Tainted
  <2> QED
    BY ONLY <1>3, <2>1 DEF SparseRecord
<1>7. PoolStep
  <2>1. objects' = objects \/ Close(start, Presence(msg))
    BY <1>1 DEF FinishMetadata
  <2> QED
    BY <1>1, <2>1, PresenceUnshared, ClosedUnshared
<1>8. CASE left' = left /\ (Tainted \/ (msg.maxId = 0 /\ msg' = None))
  <2>1. TablesHeld' = TablesHeld
    <3>1. CASE Tainted
      BY <1>4, <1>6, <3>1 DEF TablesHeld
    <3>2. CASE msg.maxId = 0 /\ msg' = None
      <4>1. TablesHeld' = Len(left)
        BY <1>8, <3>2 DEF TablesHeld, None
      <4> QED
        BY <1>3, <1>4, <3>2, <4>1
    <3> QED
      BY <1>8, <3>1, <3>2
  <2> QED
    BY <1>2, <1>7, <1>8, <2>1, SameTables, OnceKept
<1>9. ASSUME msg.maxId # 0, FinishMetadata(linked.r, l, msg, start), Checked(Size)
      PROVE  OnceInv'
  <2> DEFINE r == linked.r
  <2>1. /\ r \in Seq(Int) /\ Len(r) = Size + 2 + MetaSize(msg.maxId)
        /\ \A k \in 1 .. Floor : r[k] = right[k]
    <3>1. r = LinkFields(Push(right, Zeros(MetaSize(msg.maxId) + 1)
                                     \o <<SparseLimit(msg.maxId)>>), Size + 1).r
      OBVIOUS
    <3> HIDE DEF r
    <3> QED
      BY <1>1, <1>2, <1>9, <3>1, LinkedStack
  <2>2. MetaSize(msg.maxId) \in Nat
    BY <1>3, <1>9, MetaSizeProperties
  <2>3. FinishMetadata(r, l, msg, start)
    BY <1>9
  <2> HIDE DEF r
  <2>4. start \in Nat /\ Floor < start /\ Len(r) = start + 1 + MetaSize(msg.maxId)
    BY <1>3, <1>5, <2>1, <2>2
  <2>5. Tables(l, Floor) /\ Len(l) = TablesHeld /\ \A i \in 1 .. TablesHeld : l[i] = left[i]
    <3>1. Len(left) - msg.added = msg.base /\ msg.base <= Len(left) /\ Len(left) \in Nat
      BY <1>4, <1>5, <1>9, SeqFacts
    <3>2. l = SubSeq(left, 1, msg.base)
      BY <3>1
    <3> HIDE DEF l
    <3>3. Len(l) = msg.base /\ \A i \in 1 .. msg.base : l[i] = left[i]
      BY <1>4, <1>5, <3>1, <3>2
    <3>4. Tables(SubSeq(left, 1, msg.base), Floor)
      BY <1>1, <1>2, <1>9, SparseEntries
    <3> QED
      BY <1>4, <3>2, <3>3, <3>4
  <2> HIDE DEF l, start
  <2>6. TablesHeld' = Len(left')
    <3>1. CASE Tainted /\ left' = l
      BY <1>4, <1>6, <2>5, <3>1 DEF TablesHeld
    <3>2. CASE Close(start, Presence(msg))
      BY <3>2 DEF Close, None, TablesHeld
    <3> QED
      BY <2>3, <3>1, <3>2 DEF FinishMetadata, Tainted
  <2>7. TablesOnce'
    <3> DEFINE m == msg
    <3>1. FinishMetadata(r, l, m, start) /\ m.maxId \in Nat /\ m.maxId >= 2
          /\ Len(r) = start + 1 + MetaSize(m.maxId)
      BY <1>3, <1>9, <2>3, <2>4
    <3> HIDE DEF m
    <3> QED
      BY <2>1, <2>4, <2>5, <2>6, <3>1, FinishMetadataOnce
  <2> QED
    BY <1>7, <2>7, PoolOnceKept DEF OnceInv
<1>10. Close(start, Presence(msg)) => msg' = None
  BY DEF Close
<1>11. CASE ~Checked(Size)
  <2>1. Tainted /\ left' = left
    BY <1>2, <1>11, FinishSparseBeyond DEF Tainted
  <2> QED
    BY <1>8, <2>1
<1> QED
  BY <1>1, <1>8, <1>9, <1>10, <1>11

LEMMA FinishPreallocatedOnce ==
  ASSUME OnceInv, IInv', Kept, FinishPreallocated
  PROVE  OnceInv'
<1> DEFINE m == [msg EXCEPT !.prevOffset = 1]
<1>1. /\ msg.is = "preallocated" /\ msg.end # 0 /\ UNCHANGED pool
      /\ \/ Close(msg.end, Presence(msg)) /\ left' = left
         \/ msg.maxId # 0 /\ FinishMetadata(right, left, m, msg.end)
  BY DEF FinishPreallocated
<1>2. IInv /\ PreallocatedOpen
  BY <1>1, MessageKinds DEF OnceInv, IInv
<1>3. /\ msg \in PreallocatedRecord(msg.fields) /\ msg.start \in Nat /\ msg.end \in Nat
      /\ msg.maxId \in Nat /\ (msg.maxId # 0 => msg.maxId >= 2)
      /\ msg.end = msg.start + Cardinality(msg.accounted) + 1
      /\ Cardinality(msg.accounted) \in Nat
      /\ Size = msg.end + IF msg.maxId = 0 THEN 0 ELSE MetaSize(msg.maxId) + 1
  BY <1>1, <1>2, CardinalityFacts DEF PreallocatedOpen, PreallocatedRecord
<1>4. Floor = msg.start /\ right \in Seq(Int)
  BY <1>1, <1>2, FloorCases DEF IInv, ScalarsInv
<1>5. m.is = "preallocated" /\ m.maxId = msg.maxId /\ m \in PreallocatedRecord(msg.fields)
  BY ONLY <1>3 DEF PreallocatedRecord
<1> HIDE DEF m
<1>6. PoolStep
  <2>1. objects' = objects \/ Close(msg.end, Presence(msg))
    BY <1>1 DEF FinishMetadata
  <2> QED
    BY <1>1, <2>1, PresenceUnshared, ClosedUnshared
<1>7. CASE Close(msg.end, Presence(msg)) /\ left' = left
  <2>1. msg'.is # "sparse"
    BY <1>7 DEF Close, None
  <2> QED
    BY <1>1, <1>2, <1>6, <1>7, <2>1, OtherMessage, OnceKept
<1>8. CASE msg.maxId # 0 /\ FinishMetadata(right, left, m, msg.end)
  <2>1. MetaSize(msg.maxId) \in Nat
    BY <1>3, <1>8, MetaSizeProperties
  <2> DEFINE start == msg.end
             size == MetaSize(msg.maxId)
             count == Cardinality(msg.accounted)
             n == Len(right)
  <2>2. start \in Nat /\ Floor < start /\ n = start + 1 + size
    <3>1. /\ start \in Nat /\ size \in Nat /\ count \in Nat /\ msg.start \in Nat
          /\ start = msg.start + count + 1 /\ Floor = msg.start /\ n = start + (size + 1)
      BY <1>3, <1>4, <1>8, <2>1 DEF Size
    <3> QED
      BY ONLY <3>1
  <2>3. TablesHeld = Len(left)
    BY <1>1 DEF TablesHeld
  <2>4. Tables(left, Floor) /\ Len(left) \in Nat
    <3>1. Len(left) \in Nat
      BY <1>2, SeqFacts DEF IInv, LeftInv
    <3> QED
      BY <1>2, <2>3, <3>1, TablesLeft DEF IInv
  <2>5. TablesHeld' = Len(left')
    <3>1. CASE msg' = [m EXCEPT !.tainted = TRUE]
      <4>1. msg'.is = "preallocated"
        BY ONLY <1>5, <3>1 DEF PreallocatedRecord
      <4> QED
        BY <4>1 DEF TablesHeld
    <3>2. CASE Close(msg.end, Presence(msg))
      BY <3>2 DEF Close, None, TablesHeld
    <3> QED
      BY <1>8, <3>1, <3>2 DEF FinishMetadata
  <2>6. /\ FinishMetadata(right, left, m, start) /\ m.maxId \in Nat /\ m.maxId >= 2
        /\ Len(right) = start + 1 + MetaSize(m.maxId)
    BY <1>3, <1>5, <1>8, <2>2
  <2> HIDE DEF start
  <2>7. TablesOnce'
    <3> DEFINE r == right
               l == left
    <3>1. /\ FinishMetadata(r, l, m, start) /\ Len(r) = start + 1 + MetaSize(m.maxId)
          /\ r \in Seq(Int) /\ (\A k \in 1 .. Floor : r[k] = right[k])
          /\ Tables(l, Floor) /\ Len(l) = TablesHeld /\ (\A i \in 1 .. TablesHeld : l[i] = left[i])
      BY <1>4, <2>3, <2>4, <2>6
    <3> HIDE DEF r, l
    <3> QED
      BY <2>2, <2>5, <2>6, <3>1, FinishMetadataOnce
  <2> QED
    BY <1>6, <2>7, PoolOnceKept DEF OnceInv
<1> QED
  BY <1>1, <1>7, <1>8

-----------------------------------------------------------------------------
(* Every step.                                                             *)

LEMMA EmptiedOnce ==
  ASSUME IInv', Emptied
  PROVE  OnceInv'
<1>1. pool' = {} /\ objects' = {} /\ left' = <<>> /\ TablesHeld' = 0
  BY DEF Emptied, TablesHeld, None
<1>2. PoolOnce'
  BY <1>1 DEF PoolOnce
<1>3. TablesOnce'
  BY <1>1 DEF TablesOnce, Differ
<1> QED
  BY <1>2, <1>3 DEF OnceInv

LEMMA FinishBufferOnce ==
  ASSUME OnceInv, IInv', Kept, NotNested, left' = <<>>, UNCHANGED <<msg, pool, objects>>
  PROVE  OnceInv'
<1>1. TablesHeld' = 0
  BY Unnested DEF OnceInv, TablesHeld, None
<1>2. TablesHeld \in Nat
  BY TablesAreBelow DEF OnceInv
<1>3. LeftStep
  BY <1>1, <1>2 DEF LeftStep
<1>4. PoolStep
  BY DEF PoolStep
<1> QED
  BY <1>3, <1>4, OnceKept

LEMMA NextOnce ==
  ASSUME OnceInv, ~wrapped', [Next]_vars
  PROVE  OnceInv'
<1>1. IInv /\ IInv' /\ (Emptied \/ Kept)
  BY NextPreserves DEF OnceInv
<1>2. CASE Emptied
  BY <1>1, <1>2, EmptiedOnce
<1>3. CASE Kept
  <2>1. CASE Write
    BY <1>1, <1>3, <2>1, WriteOnce
  <2>2. CASE StartMessage
    BY <1>1, <1>3, <2>2, StartMessageOnce
  <2>3. CASE AddScalar \/ AddRef
    BY <1>1, <1>3, <2>3, AddOnce
  <2>4. CASE FinishMessage
    BY <1>1, <1>3, <2>4, FinishFixedOnce, FinishSparseOnce, FinishPreallocatedOnce DEF FinishMessage
  <2>5. CASE (\E o \in RefInputs : Finish(o)) \/ FinishRaw
    <3>1. NotNested /\ left' = <<>> /\ UNCHANGED <<msg, pool, objects>>
      BY <2>5 DEF Finish, FinishRaw
    <3> QED
      BY <1>1, <1>3, <3>1, FinishBufferOnce
  <2>6. CASE Clear \/ Reset \/ Release
    BY <1>1, <2>6, EmptiedOnce DEF Clear, Reset, Release
  <2>7. CASE (\E mode \in Modes : EnforceDynamicAlternative(mode)) \/ UNCHANGED vars
    <3>1. UNCHANGED <<left, msg, pool, objects>>
      BY <2>7 DEF EnforceDynamicAlternative, vars
    <3>2. PoolStep
      BY <3>1 DEF PoolStep
    <3> QED
      BY <1>1, <1>3, <3>1, <3>2, SameMessage, OnceKept
  <2> QED
    BY <2>1, <2>2, <2>3, <2>4, <2>5, <2>6, <2>7 DEF Next
<1> QED
  BY <1>1, <1>2, <1>3

LEMMA InitOnce ==
  ASSUME Init
  PROVE  OnceInv
<1>1. pool = {} /\ objects = {} /\ left = <<>> /\ TablesHeld = 0
  BY DEF Init, TablesHeld, None
<1>2. IInv
  BY InitEstablishes
<1> QED
  BY <1>1, <1>2 DEF OnceInv, PoolOnce, TablesOnce, Differ

(* Places where the same words are hold equal blocks.                      *)
LEMMA SameWords ==
  ASSUME NEW r, NEW block, NEW d \in Nat, BlockAt(r, d, block),
         NEW e \in Nat, BlockAt(r, e, block)
  PROVE  Block(r, d, Len(block)) = Block(r, e, Len(block))
<1> DEFINE size == Len(block)
           a == Block(r, d, size)
           b == Block(r, e, size)
<1>1. /\ r \in Seq(Int) /\ size \in Nat /\ Len(r) \in Nat
      /\ d \in size .. Len(r) /\ e \in size .. Len(r)
      /\ \A j \in 1 .. size : r[d - j + 1] = block[j] /\ r[e - j + 1] = block[j]
  BY SeqFacts DEF BlockAt
<1> HIDE DEF size
<1>2. /\ d \in 0 .. Len(r) /\ size \in 0 .. d
      /\ e \in 0 .. Len(r) /\ size \in 0 .. e
  BY <1>1
<1>3. /\ a \in Seq(Int) /\ Len(a) = size /\ (\A k \in 1 .. size : a[k] = r[d - size + k])
      /\ b \in Seq(Int) /\ Len(b) = size /\ (\A k \in 1 .. size : b[k] = r[e - size + k])
  BY <1>1, <1>2, BlockProperties
<1>4. ASSUME NEW k \in 1 .. size PROVE r[d - size + k] = r[e - size + k]
  <2> DEFINE j == (size - k) + 1
  <2>1. j \in 1 .. size /\ d - j + 1 = d - size + k /\ e - j + 1 = e - size + k
    BY ONLY <1>1, k \in 1 .. size, d \in Nat, e \in Nat
  <2> QED
    BY <1>1, <2>1
<1> HIDE DEF a, b
<1>5. \A k \in 1 .. size : a[k] = b[k]
  BY <1>3, <1>4
<1> QED
  BY <1>3, <1>5, SeqEqual, ZenonT(60) DEF a, b, size

(* Two strings or two arrays with the same body have the same words.       *)
LEMMA SharedOnce ==
  ASSUME IInv, PoolOnce, NEW x \in objects, NEW y \in objects,
         x.kind = y.kind, x.kind \in Shared, x.body = y.body
  PROVE  x.off = y.off
<1>1. Words(x) = Words(y)
  BY DEF Words
<1>2. Pooled(x, pool, right) /\ Pooled(y, pool, right)
  BY DEF PoolOnce
<1>3. PICK d \in pool : d.off = x.off /\ d.size = Len(Words(x)) /\ BlockAt(right, d.off, Words(x))
  BY <1>2 DEF Pooled
<1>4. PICK e \in pool : e.off = y.off /\ e.size = Len(Words(x)) /\ BlockAt(right, e.off, Words(x))
  BY <1>1, <1>2 DEF Pooled
<1>5. d.off \in Nat /\ e.off \in Nat
  BY FloorType DEF IInv, PoolInv
<1>6. Block(right, d.off, d.size) = Block(right, e.off, e.size)
  BY <1>3, <1>4, <1>5, SameWords
<1> QED
  BY <1>3, <1>4, <1>6 DEF PoolOnce

(* Strings, arrays of scalars and tables are stored once, however the      *)
(* calls that write them interleave with those that throw: the pool and    *)
(* the left stack lose no candidate, and what they compare is what they    *)
(* stored, as long as no call truncates an offset.                         *)
THEOREM ContentStoredOnce == Spec => []StoredOnce
<1> DEFINE Unless == WInv /\ (wrapped \/ OnceInv)
<1>1. Unless => StoredOnce
  <2> SUFFICES ASSUME OnceInv PROVE StoredOnce
    BY DEF StoredOnce
  <2>1. ASSUME NEW x \in objects, NEW y \in objects, x.kind = y.kind,
               x.kind \in {"string", "scalars"}, x.body = y.body
        PROVE  x.off = y.off
    BY <2>1, SharedOnce DEF OnceInv, Shared
  <2>2. ASSUME NEW i \in DOMAIN left, NEW j \in DOMAIN left,
               left[i].is = "meta", left[j].is = "meta", left[i].maxId = left[j].maxId,
               Block(right, left[i].off, MetaSize(left[i].maxId))
               = Block(right, left[j].off, MetaSize(left[j].maxId))
        PROVE  i = j
    <3>1. ASSUME NEW k \in DOMAIN left, left[k].is = "meta"
          PROVE  k \in 1 .. TablesHeld
      <4>1. k \in Nat /\ k >= 1 /\ TablesHeld \in Nat
        BY TablesAreBelow, SeqFacts DEF OnceInv, IInv, LeftInv
      <4>2. CASE ~(k <= TablesHeld)
        BY <3>1, <4>2 DEF OnceInv, IInv, LeftInv, FieldEntry
      <4> QED
        BY <4>1, <4>2
    <3>2. i \in 1 .. TablesHeld /\ j \in 1 .. TablesHeld
      BY <2>2, <3>1
    <3> QED
      BY <2>2, <3>2 DEF OnceInv, TablesOnce, Differ
  <2> QED
    BY <2>1, <2>2 DEF StoredOnce
<1>2. Init => OnceInv
  BY InitOnce
<1>3. WInv /\ WInv' /\ (wrapped \/ OnceInv) /\ [Next]_vars => wrapped' \/ OnceInv'
  <2> SUFFICES ASSUME WInv, WInv', wrapped \/ OnceInv, [Next]_vars, ~wrapped'
               PROVE  OnceInv'
    OBVIOUS
  <2>1. Emptied \/ ~wrapped
    BY WrappedStays DEF WInv
  <2>2. CASE Emptied
    BY <2>2, EmptiedOnce DEF WInv
  <2>3. CASE ~wrapped
    BY <2>3, NextOnce
  <2> QED
    BY <2>1, <2>2, <2>3
<1> QED
  BY <1>1, <1>2, <1>3, Invariant, PTL DEF Spec
=============================================================================
