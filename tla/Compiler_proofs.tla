-------------------------- MODULE Compiler_proofs --------------------------
(***************************************************************************)
(* Proofs about the compiler, from the IR of the front end to the order of *)
(* the generated definitions, for every program that protoc accepts and    *)
(* every set of options.                                                   *)
(***************************************************************************)
EXTENDS FrontEnd_proofs, FiniteSetTheorems

-----------------------------------------------------------------------------
(* The invariant of the processor.                                         *)

Fresh(m) == \A i \in DOMAIN messages[m].fields : messages[m].fields[i].active = 0

(* Fields are where the readers look for them, up to the documented number.*)
NoOverlap(fields) ==
  Len(fields) <= FieldLimit => \A i \in DOMAIN fields : \A j \in 1 .. i - 1 :
    fields[j].offset + InlineSize(fields[j].type) <= fields[i].offset

Laid(m) ==
  /\ messages[m].layout \in {"flat", "fixed"} => ~IsGapMessage(messages[m].fields)
  /\ NoOverlap(messages[m].fields)
  /\ D(m).map =>
       /\ 1 \in DOMAIN messages[m].fields /\ messages[m].fields[1].active = 1
       /\ ~messages[m].fields[1].deprecated
       /\ messages[m].fields[1].type \in {"bool", "int32", "string"}

(* The calls are of messages that are being processed.                     *)
CallsInv ==
  /\ processed \subseteq DOMAIN messages /\ pending \subseteq DOMAIN messages
  /\ calls \in Seq([msg : processed, i : Nat \ {0}])

(* What is being generated is defined, in a schema that is.                *)
DefinedInv ==
  /\ \A file \in DOMAIN schemas : schemas[file].defined => IsTarget(file)
  /\ \A m \in DOMAIN messages :
       /\ messages[m].defined <=> IsTarget(File(m))
       /\ messages[m].defined => schemas[File(m)].defined
       /\ messages[m].defined => LiveIn(messages[m].fields, m, Len(Collected(m)))
       /\ ~messages[m].defined => messages[m].fields = <<>>

(* A message is complete once it is processed, and as the front end left   *)
(* it before.                                                              *)
ProcessedInv ==
  \A m \in DOMAIN messages :
    /\ m \in processed => messages[m].defined /\ Laid(m)
    /\ m \notin processed => Fresh(m)
    /\ m \notin processed /\ messages[m].defined => EntryIn(messages[m].fields, m, Len(Collected(m)))
    /\ m \in pending \/ m \in processed \/ ~messages[m].defined

IsPair(m) == messages[m].pair /\ Len(messages[m].fields) = 2

(* An open call has m's i-th field before it.                              *)
Ahead(m, i) == \E k \in DOMAIN calls : calls[k].msg = m /\ calls[k].i <= i

Associated(m) ==
  \E n \in DOMAIN messages : \E i \in DOMAIN messages[n].fields :
    messages[n].fields[i].assoc /\ messages[n].fields[i].to = m

PairsInv ==
  /\ \A m \in processed : \A i \in DOMAIN messages[m].fields :
       messages[m].fields[i].assoc => IsPair(messages[m].fields[i].to) \/ Ahead(m, i)
  /\ \A m \in DOMAIN messages : messages[m].pair => Associated(m)

ProcessInv ==
  phase \in {"process", "order", "generate", "done"} =>
    /\ KeptAll /\ DefinedInv /\ ProcessedInv /\ PairsInv
    /\ phase # "process" => pending = {} /\ calls = <<>>

(* Errors the processor never reports.                                     *)
Internal == {"processed more than once", "definition status", "active index", "pair layout", "pair key"}

PhaseInv ==
  /\ phase \in {"parse", "check", "process", "order", "generate", "done", "rejected"}
  /\ phase = "rejected" <=> error # None
  /\ error \notin Internal
  /\ phase \in {"parse", "check"} => processed = {} /\ pending = {} /\ calls = <<>>
  /\ phase \in {"parse", "check", "process"} => order = <<>> /\ used = {} /\ walk = <<>> /\ output = <<>>

CompilerInv == IRInv /\ ParseInv /\ CallsInv /\ ProcessInv /\ PhaseInv

-----------------------------------------------------------------------------
(* The front end.                                                          *)

(* The front end ends in the check, or for one reason only.                *)
LEMMA ParsePhases ==
  ASSUME Parse
  PROVE  /\ phase = "parse"
         /\ \/ phase' \in {"parse", "check"} /\ error' = error
            \/ phase' = "rejected" /\ error' = "two options for one slice"
<1>1. CASE TraverseNested \/ NestedReturned \/ TraverseNext \/ FinishFile
  BY <1>1 DEF TraverseNested, NestedReturned, TraverseNext, FinishFile, In
<1>2. ASSUME NEW m, Contradiction(m) \/ Drop(m) \/ Known(m) \/ Emplace(m) \/ FinishMessage(m)
      PROVE  /\ phase = "parse"
             /\ \/ phase' \in {"parse", "check"} /\ error' = error
                \/ phase' = "rejected" /\ error' = "two options for one slice"
  BY <1>2 DEF Contradiction, Drop, Known, Emplace, FinishMessage, Accepted, Ready, In, Reject
<1>3. ASSUME NEW f, TraverseType(f) \/ SkipField(f) \/ AddField(f)
      PROVE  phase = "parse" /\ phase' = "parse" /\ error' = error
  BY <1>3 DEF TraverseType, SkipField, AddField, AtField, In
<1> QED
  BY <1>1, <1>2, <1>3 DEF Parse

(* A step of the front end: the processor has not begun.                   *)
LEMMA ParsePreserves ==
  ASSUME CompilerInv, Parse, UNCHANGED <<processing, generation>>
  PROVE  CompilerInv'
<1>1. /\ phase = "parse"
      /\ \/ phase' \in {"parse", "check"} /\ error' = error
         \/ phase' = "rejected" /\ error' = "two options for one slice"
  BY ParsePhases
<1>2. IRInv' /\ ParseInv'
  BY ParseKeeps DEF CompilerInv
<1>3. /\ processed = {} /\ pending = {} /\ calls = <<>> /\ processed' = {} /\ pending' = {} /\ calls' = <<>>
      /\ order' = <<>> /\ used' = {} /\ walk' = <<>> /\ output' = <<>>
  BY <1>1 DEF CompilerInv, PhaseInv, processing, generation
<1>4. CallsInv'
  <2>1. << >> \in Seq([msg : processed', i : Nat \ {0}])
    OBVIOUS
  <2> QED
    BY <1>3, <2>1 DEF CallsInv
<1>5. ProcessInv'
  BY <1>1 DEF ProcessInv
<1>6. PhaseInv'
  <2>1. "two options for one slice" \notin Internal /\ "two options for one slice" # None
    BY DEF Internal, None
  <2>2. PhaseInv
    BY DEF CompilerInv
  <2> QED
    BY <1>1, <1>3, <2>1, <2>2 DEF PhaseInv
<1> QED
  BY <1>2, <1>4, <1>5, <1>6 DEF CompilerInv

-----------------------------------------------------------------------------
(* Schemas are checked.                                                    *)

LEMMA SchemaDefinedAs ==
  ASSUME NEW known \in SchemaDef, NEW defined \in BOOLEAN, NEW after, after = [known EXCEPT !.defined = defined]
  PROVE  /\ after \in SchemaDef /\ after.deps = known.deps /\ after.messages = known.messages
         /\ after.defined = defined
  BY DEF SchemaDef

(* ProcessSchema changes nothing but whether schemas are defined.          *)
LEMMA SchemasProcessed ==
  ASSUME IRInv, ProcessSchemas
  PROVE  /\ IRInv' /\ Given /\ messages' = messages /\ enums' = enums /\ DOMAIN schemas' = DOMAIN schemas
         /\ \A file \in DOMAIN schemas : schemas'[file].defined <=> SchemaDefined(file)
<1>1. /\ Given /\ messages' = messages /\ enums' = enums
      /\ schemas' = [file \in DOMAIN schemas |-> [schemas[file] EXCEPT !.defined = SchemaDefined(file)]]
  BY DEF ProcessSchemas, Given
<1>2. DOMAIN schemas' = DOMAIN schemas
  BY <1>1
<1>3. \A file \in DOMAIN schemas : SchemaDefined(file) \in BOOLEAN
  BY DEF SchemaDefined
<1>4. TypesInv /\ SchemasInv /\ \A m \in DOMAIN messages : MessageInv(m)
  BY DEF IRInv
<1>5. \A file \in DOMAIN schemas :
        /\ schemas'[file] \in SchemaDef /\ schemas'[file].deps = schemas[file].deps
        /\ schemas'[file].messages = schemas[file].messages
        /\ schemas'[file].defined = SchemaDefined(file)
  <2> TAKE file \in DOMAIN schemas
  <2>1. schemas'[file] = [schemas[file] EXCEPT !.defined = SchemaDefined(file)]
    BY <1>1
  <2>2. schemas[file] \in SchemaDef
    BY <1>4 DEF TypesInv
  <2> QED
    BY <1>3, <2>1, <2>2, SchemaDefinedAs
<1>6. /\ SchemaDef' = SchemaDef /\ Message' = Message
      /\ \A r : IsMessageDef(r)' <=> IsMessageDef(r)
      /\ \A t : File(t)' = File(t)
  BY <1>1, TypesStatic, Statics
<1>7. TypesInv'
  BY <1>1, <1>2, <1>4, <1>5, <1>6 DEF TypesInv, Given
<1>8. SchemasInv'
  <2>1. program' = program /\ messages' = messages /\ enums' = enums
    BY <1>1 DEF Given
  <2>2. SchemasInv
    BY <1>4
  <2>3. \A t : File(t)' = File(t)
    BY <1>6
  <2> QED
    BY ONLY <1>2, <1>5, <2>1, <2>2, <2>3 DEF SchemasInv
<1>9. Grows
  BY <1>1, <1>2, <1>5 DEF Grows
<1>10. \A m \in DOMAIN messages' : MessageInv(m)'
  BY <1>1, <1>4, <1>9, MessageKept
<1> QED
  BY <1>1, <1>2, <1>5, <1>7, <1>8, <1>10 DEF IRInv

LEMMA StaysDefined ==
  ASSUME IRInv, \A m \in DOMAIN messages : messages[m].defined => IsTarget(File(m))
  PROVE  /\ \A file \in DOMAIN schemas : SchemaDefined(file) => IsTarget(file)
         /\ \A m \in DOMAIN messages : messages[m].defined => SchemaDefined(File(m))
         /\ \A e \in enums : EnumDefined(e) <=> SchemaDefined(EnumFile[e])
<1>1. \A file \in DOMAIN schemas : \A m \in Range(schemas[file].messages) :
        m \in DOMAIN messages /\ File(m) = file
  BY DEF IRInv, SchemasInv, Range
<1>2. \A file \in DOMAIN schemas : SchemaDefined(file) => IsTarget(file)
  BY <1>1 DEF SchemaDefined, EnumDefined
<1>3. \A m \in DOMAIN messages : messages[m].defined => SchemaDefined(File(m))
  BY DEF IRInv, MessageInv, SchemaDefined, Range
<1>4. \A e \in enums : EnumFile[e] \in DOMAIN schemas
  BY DEF IRInv, SchemasInv
<1>5. \A e \in enums : EnumDefined(e) => SchemaDefined(EnumFile[e])
  BY DEF SchemaDefined
<1>6. \A e \in enums : SchemaDefined(EnumFile[e]) => EnumDefined(e)
  BY <1>2, <1>4 DEF EnumDefined
<1> QED
  BY <1>2, <1>3, <1>5, <1>6

(* That all kept messages are there depends on their names alone.          *)
LEMMA KeptAllStays ==
  ASSUME Given, DOMAIN messages' = DOMAIN messages, KeptAll
  PROVE  KeptAll'
<1>1. Message' = Message /\ program' = program
  BY Statics DEF Given
<1>2. \A m : Traversed(m)' = Traversed(m)
  BY TraversalStatic
<1>3. \A m : Kept(m)' <=> Kept(m)
  BY KeptStatic
<1>4. [m \in Message |-> Traversed(m)]' = [m \in Message |-> Traversed(m)]
  BY <1>1, <1>2
<1>5. \A start, leads : Closure(start, leads)' = Closure(start, leads)
  BY <1>1 DEF Closure
<1>6. \A leads : leads = [m \in Message |-> Traversed(m)] =>
        Closure(Range(program.roots), [m \in Message |-> Traversed(m)])' = Closure(Range(program.roots), leads)
  BY <1>1, <1>4, <1>5
<1> QED
  BY <1>3, <1>6 DEF KeptAll

(* What the front end hands over.                                          *)
LEMMA FrontEndDone ==
  ASSUME CompilerInv, phase = "check"
  PROVE  /\ IRInv /\ OpenInv /\ KeptAll
         /\ \A m \in DOMAIN messages :
              /\ messages[m].defined <=> IsTarget(File(m))
              /\ messages[m].defined => FieldsIn(m, Len(Collected(m)))
              /\ ~messages[m].defined => messages[m].fields = <<>>
<1>1. IRInv /\ StackInv /\ OpenInv /\ ReachInv /\ \E T \in SUBSET Message : Seen(T)
  BY DEF CompilerInv, ParseInv
<1>2. stack = <<>> /\ todo = <<>>
  BY <1>1 DEF StackInv
<1>3. KeptAll
  BY <1>1, <1>2, AllKept
<1> QED
  BY <1>1, <1>2, <1>3, AllComplete

LEMMA ProcessSchemasPreserves ==
  ASSUME CompilerInv, ProcessSchemas
  PROVE  CompilerInv'
<1>1. /\ phase = "check" /\ pending' = DOMAIN messages /\ processed' = processed /\ calls' = calls
      /\ order' = order /\ used' = used /\ walk' = walk /\ output' = output
      /\ IF \A e \in enums : EnumDefined(e) = SchemaDefined(EnumFile[e])
           THEN phase' = "process" /\ error' = error
           ELSE Reject("definition status")
  BY DEF ProcessSchemas, generation
<1>2. PhaseInv /\ IRInv /\ CallsInv
  BY DEF CompilerInv
<1>3. /\ processed = {} /\ calls = <<>> /\ order = <<>> /\ used = {} /\ walk = <<>> /\ output = <<>>
  BY <1>1, <1>2 DEF PhaseInv
<1>4. /\ OpenInv /\ KeptAll
      /\ \A m \in DOMAIN messages :
           /\ messages[m].defined <=> IsTarget(File(m))
           /\ messages[m].defined => FieldsIn(m, Len(Collected(m)))
           /\ ~messages[m].defined => messages[m].fields = <<>>
  BY <1>1, FrontEndDone
<1>5. /\ \A file \in DOMAIN schemas : SchemaDefined(file) => IsTarget(file)
      /\ \A m \in DOMAIN messages : messages[m].defined => SchemaDefined(File(m))
      /\ \A e \in enums : EnumDefined(e) <=> SchemaDefined(EnumFile[e])
  BY <1>2, <1>4, StaysDefined
<1>6. phase' = "process" /\ error' = error
  <2>1. \A e \in enums : EnumDefined(e) \in BOOLEAN /\ SchemaDefined(EnumFile[e]) \in BOOLEAN
    BY DEF EnumDefined, IsTarget, SchemaDefined
  <2>2. \A e \in enums : EnumDefined(e) = SchemaDefined(EnumFile[e])
    BY <1>5, <2>1
  <2> QED
    BY <1>1, <2>2
<1>7. /\ IRInv' /\ Given /\ messages' = messages /\ DOMAIN schemas' = DOMAIN schemas
      /\ \A file \in DOMAIN schemas : schemas'[file].defined <=> SchemaDefined(file)
  BY <1>2, SchemasProcessed
<1>8. /\ \A t : File(t)' = File(t)
      /\ \A g : IsTarget(g)' <=> IsTarget(g)
      /\ \A t : Collected(t)' = Collected(t)
  BY <1>7, Statics
<1>9. /\ \A fields, t, l : LiveIn(fields, t, l)' <=> LiveIn(fields, t, l)
      /\ \A fields, t, l : EntryIn(fields, t, l)' <=> EntryIn(fields, t, l)
  BY <1>7, FieldsStatic
<1>10. CallsInv'
  <2>1. << >> \in Seq([msg : processed', i : Nat \ {0}])
    OBVIOUS
  <2> QED
    BY <1>1, <1>3, <1>7, <2>1 DEF CallsInv
<1>11. KeptAll'
  BY <1>4, <1>7, KeptAllStays
<1>12. DefinedInv'
  <2>1. \A file \in DOMAIN schemas' : schemas'[file].defined => IsTarget(file)
    BY <1>5, <1>7
  <2>2. \A m \in DOMAIN messages : messages[m].defined => schemas'[File(m)].defined
    <3>1. \A m \in DOMAIN messages : File(m) \in DOMAIN schemas
      BY <1>2 DEF IRInv, MessageInv
    <3> QED
      BY <1>5, <1>7, <3>1
  <2> QED
    BY <1>4, <1>7, <1>8, <1>9, <2>1, <2>2 DEF DefinedInv, FieldsIn
<1>13. ProcessedInv'
  <2>1. \A m \in DOMAIN messages : Fresh(m)'
    BY <1>4, <1>7 DEF OpenInv, OpenMessage, Fresh
  <2> QED
    BY <1>1, <1>3, <1>4, <1>7, <1>8, <1>9, <2>1 DEF ProcessedInv, FieldsIn
<1>14. PairsInv'
  BY <1>1, <1>3, <1>4, <1>7 DEF PairsInv, OpenInv, OpenMessage
<1>15. ProcessInv'
  BY <1>6, <1>11, <1>12, <1>13, <1>14 DEF ProcessInv
<1>16. ParseInv'
  BY <1>6 DEF ParseInv
<1>17. PhaseInv'
  BY <1>1, <1>2, <1>3, <1>6 DEF PhaseInv
<1> QED
  BY <1>7, <1>10, <1>15, <1>16, <1>17 DEF CompilerInv

-----------------------------------------------------------------------------
(* Sorting and placing the fields of a message.                            *)

(* after has the fields of before, each at one place of p.                 *)
Permuted(after, before, p) ==
  /\ DOMAIN after = DOMAIN before /\ Len(after) = Len(before)
  /\ \A i \in DOMAIN before : p[i] \in DOMAIN before /\ after[i] = before[p[i]]
  /\ \A i, j \in DOMAIN before : p[i] = p[j] => i = j
  /\ \A j \in DOMAIN before : \E i \in DOMAIN before : p[i] = j

(* A sorted list is a permutation.                                         *)
LEMMA SortedIs ==
  ASSUME NEW fields \in Seq(IRField), NEW sorted \in SortedById(fields)
  PROVE  /\ sorted \in Seq(IRField) /\ \E p : Permuted(sorted, fields, p)
         /\ \A i \in 1 .. Len(fields) - 1 : sorted[i].id <= sorted[i + 1].id
<1>1. PICK p \in Bijection(DOMAIN fields, DOMAIN fields) :
        /\ sorted = [i \in DOMAIN fields |-> fields[p[i]]]
        /\ \A i \in 1 .. Len(fields) - 1 : fields[p[i]].id <= fields[p[i + 1]].id
  BY DEF SortedById
<1>2. /\ \A i \in DOMAIN fields : p[i] \in DOMAIN fields
      /\ \A i, j \in DOMAIN fields : p[i] = p[j] => i = j
      /\ \A j \in DOMAIN fields : \E i \in DOMAIN fields : p[i] = j
  BY DEF Bijection, Injection, Surjection, IsInjective
<1>3. DOMAIN fields = 1 .. Len(fields) /\ Len(fields) \in Nat
  OBVIOUS
<1>4. \A i \in 1 .. Len(fields) : fields[p[i]] \in IRField
  BY <1>2, <1>3
<1>5. sorted \in Seq(IRField) /\ DOMAIN sorted = DOMAIN fields /\ Len(sorted) = Len(fields)
  BY <1>1, <1>3, <1>4
<1>6. Permuted(sorted, fields, p)
  BY <1>1, <1>2, <1>5 DEF Permuted
<1>7. \A i \in 1 .. Len(fields) - 1 : i \in DOMAIN fields /\ i + 1 \in DOMAIN fields
  BY <1>3
<1> QED
  BY <1>1, <1>5, <1>6, <1>7

LEMMA InlineSizeTyped ==
  ASSUME NEW type
  PROVE  InlineSize(type) \in 0 .. 8
  BY DEF InlineSize

(* The end of a field of type that begins at offset, as a FieldOffset.     *)
EndOf(offset, type) == (offset + InlineSize(type)) % FieldOffsetMod

LEMMA EndTyped ==
  ASSUME NEW offset \in Nat, NEW type
  PROVE  /\ EndOf(offset, type) \in Nat
         /\ offset + InlineSize(type) < FieldOffsetMod =>
              EndOf(offset, type) = offset + InlineSize(type)
<1>1. FieldOffsetMod \in Nat /\ FieldOffsetMod > 0
  BY CompilerAssumption
<1>2. PICK sum \in Nat : sum = offset + InlineSize(type)
  BY InlineSizeTyped
<1>3. /\ sum % FieldOffsetMod \in Nat
      /\ sum < FieldOffsetMod => sum % FieldOffsetMod = sum
  BY <1>1
<1> QED
  BY <1>2, <1>3 DEF EndOf

Offsetting(fields, n, offset) ==
  offset = [i \in 0 .. n |-> IF i = 0 THEN 0 ELSE EndOf(offset[i - 1], fields[i].type)]

(* The sums of sizes exist.                                                *)
LEMMA OffsettingExists ==
  ASSUME NEW fields, NEW n \in Nat
  PROVE  \E offset : Offsetting(fields, n, offset)
<1> DEFINE S == {k \in Nat : \E offset : Offsetting(fields, k, offset)}
<1>1. 0 \in S
  <2> DEFINE f == [k \in 0 .. 0 |-> 0]
  <2>1. Offsetting(fields, 0, f)
    BY DEF Offsetting
  <2> QED
    BY <2>1
<1>2. \A k \in 1 .. n : k - 1 \in S => k \in S
  <2> SUFFICES ASSUME NEW k \in 1 .. n, k - 1 \in S PROVE k \in S
    OBVIOUS
  <2>1. PICK f : Offsetting(fields, k - 1, f)
    OBVIOUS
  <2> DEFINE g == [j \in 0 .. k |-> IF j = k THEN EndOf(f[k - 1], fields[k].type) ELSE f[j]]
  <2>2. \A j \in 0 .. k - 1 : f[j] = IF j = 0 THEN 0 ELSE EndOf(f[j - 1], fields[j].type)
    BY <2>1 DEF Offsetting
  <2>3. \A j \in 0 .. k : g[j] = IF j = 0 THEN 0 ELSE EndOf(g[j - 1], fields[j].type)
    BY <2>2
  <2>4. g = [j \in 0 .. k |-> g[j]]
    OBVIOUS
  <2> HIDE DEF g
  <2>5. g = [j \in 0 .. k |-> IF j = 0 THEN 0 ELSE EndOf(g[j - 1], fields[j].type)]
    BY <2>3, <2>4
  <2>6. Offsetting(fields, k, g)
    BY <2>5 DEF Offsetting
  <2> QED
    BY <2>6
<1> HIDE DEF S
<1>3. n \in S
  BY <1>1, <1>2, Upwards
<1> QED
  BY <1>3 DEF S

(* The field f, placed.                                                    *)
At(f, offset, active) == [f EXCEPT !.offset = offset, !.active = active]
IsAt(g, f, offset, active) == g = At(f, offset, active)

SameButPlace(g, f) ==
  /\ g.name = f.name /\ g.id = f.id /\ g.type = f.type /\ g.to = f.to
  /\ g.deprecated = f.deprecated /\ g.oneof = f.oneof /\ g.assoc = f.assoc

LEMMA AtIs ==
  ASSUME NEW f \in IRField, NEW o \in Nat, NEW a \in Nat, NEW g, IsAt(g, f, o, a)
  PROVE  g \in IRField /\ SameButPlace(g, f) /\ g.offset = o /\ g.active = a
  BY DEF IsAt, At, IRField, SameButPlace

LiveBefore(fields, i) == {j \in 1 .. i : ~fields[j].deprecated}

(* Placing changes offsets and indices, and counts live fields.            *)
LEMMA PlacedIs ==
  ASSUME NEW fields \in Seq(IRField)
  PROVE  /\ Placed(fields) \in Seq(IRField)
         /\ DOMAIN Placed(fields) = DOMAIN fields /\ Len(Placed(fields)) = Len(fields)
         /\ \A i \in DOMAIN fields : SameButPlace(Placed(fields)[i], fields[i])
         /\ \E offset :
              /\ offset[0] = 0 /\ \A i \in 0 .. Len(fields) : offset[i] \in Nat
              /\ \A i \in 1 .. Len(fields) :
                   /\ offset[i] = EndOf(offset[i - 1], fields[i].type)
                   /\ Placed(fields)[i].offset = offset[i - 1]
         /\ \A i \in DOMAIN fields :
              ~fields[i].deprecated => Placed(fields)[i].active = Cardinality(LiveBefore(fields, i))
<1> DEFINE offset == CHOOSE o : Offsetting(fields, Len(fields), o)
<1>1. Len(fields) \in Nat /\ DOMAIN fields = 1 .. Len(fields)
  OBVIOUS
<1>2. Placed(fields) =
        [i \in DOMAIN fields |->
          At(fields[i], offset[i - 1],
             IF fields[i].deprecated THEN 0 ELSE Cardinality(LiveBefore(fields, i)))]
  BY DEF Placed, Offsetting, EndOf, At, LiveBefore
<1>3. Offsetting(fields, Len(fields), offset)
  BY <1>1, OffsettingExists
<1> HIDE DEF offset
<1>4. /\ \A i \in 0 .. Len(fields) :
           offset[i] = IF i = 0 THEN 0 ELSE EndOf(offset[i - 1], fields[i].type)
  BY <1>3 DEF Offsetting
<1>5. offset[0] = 0
  BY <1>1, <1>4
<1>6. \A i \in 1 .. Len(fields) : offset[i] = EndOf(offset[i - 1], fields[i].type)
  BY <1>1, <1>4
<1>7. \A i \in 0 .. Len(fields) : offset[i] \in Nat
  <2> DEFINE S == {i \in 0 .. Len(fields) : offset[i] \in Nat}
  <2>1. 0 \in S
    BY <1>1, <1>5
  <2>2. \A k \in 1 .. Len(fields) : k - 1 \in S => k \in S
    BY <1>1, <1>6, EndTyped
  <2> HIDE DEF S
  <2>3. \A k \in 0 .. Len(fields) : k \in S
    BY <1>1, <2>1, <2>2, Upwards
  <2> QED
    BY <2>3 DEF S
<1>8. \A i \in DOMAIN fields : Cardinality(LiveBefore(fields, i)) \in Nat
  <2> TAKE i \in DOMAIN fields
  <2>1. IsFiniteSet(1 .. i)
    BY <1>1, FS_Interval
  <2>2. LiveBefore(fields, i) \subseteq 1 .. i
    BY DEF LiveBefore
  <2>3. IsFiniteSet(LiveBefore(fields, i))
    BY <2>1, <2>2, FS_Subset
  <2> QED
    BY <2>3, FS_CardinalityType
<1>9. \A i \in DOMAIN fields :
        /\ Placed(fields)[i] \in IRField /\ SameButPlace(Placed(fields)[i], fields[i])
        /\ Placed(fields)[i].offset = offset[i - 1]
        /\ ~fields[i].deprecated => Placed(fields)[i].active = Cardinality(LiveBefore(fields, i))
  <2> TAKE i \in DOMAIN fields
  <2>1. PICK a : a = IF fields[i].deprecated THEN 0 ELSE Cardinality(LiveBefore(fields, i))
    OBVIOUS
  <2>2. a \in Nat /\ offset[i - 1] \in Nat
    BY <1>1, <1>7, <1>8, <2>1
  <2>3. Placed(fields)[i] = At(fields[i], offset[i - 1], a)
    BY <1>2, <2>1
  <2>4. fields[i] \in IRField
    OBVIOUS
  <2>5. PICK f, o, g : f = fields[i] /\ o = offset[i - 1] /\ g = Placed(fields)[i]
    OBVIOUS
  <2>6. IsAt(g, f, o, a) /\ f \in IRField /\ o \in Nat /\ a \in Nat
    BY <2>2, <2>3, <2>4, <2>5 DEF IsAt
  <2>7. g \in IRField /\ SameButPlace(g, f) /\ g.offset = o /\ g.active = a
    BY ONLY <2>6, AtIs
  <2>8. ~fields[i].deprecated => a = Cardinality(LiveBefore(fields, i))
    BY <2>1
  <2> QED
    BY <2>5, <2>7, <2>8
<1>10. DOMAIN Placed(fields) = DOMAIN fields
  BY <1>2
<1>11. Placed(fields) \in Seq(IRField) /\ Len(Placed(fields)) = Len(fields)
  <2>1. Placed(fields) \in [1 .. Len(fields) -> IRField]
    BY <1>1, <1>2, <1>9
  <2> QED
    BY <1>1, <2>1
<1> QED
  BY <1>1, <1>5, <1>6, <1>7, <1>9, <1>10, <1>11

(* Placed fields do not overlap: eight bytes for each before it, a place   *)
(* has not wrapped within the limit.                                       *)
LEMMA PlacedApart ==
  ASSUME NEW fields \in Seq(IRField)
  PROVE  NoOverlap(Placed(fields))
<1> SUFFICES ASSUME Len(fields) <= FieldLimit PROVE NoOverlap(Placed(fields))
  BY PlacedIs DEF NoOverlap
<1>0. PICK offset :
        /\ offset[0] = 0 /\ \A i \in 0 .. Len(fields) : offset[i] \in Nat
        /\ \A i \in 1 .. Len(fields) :
             /\ offset[i] = EndOf(offset[i - 1], fields[i].type)
             /\ Placed(fields)[i].offset = offset[i - 1]
  BY PlacedIs
<1>2. Len(fields) \in Nat /\ DOMAIN fields = 1 .. Len(fields) /\ DOMAIN Placed(fields) = 1 .. Len(fields)
  BY PlacedIs
<1>1. \A i \in 1 .. Len(fields) : offset[i] = offset[i - 1] + InlineSize(fields[i].type)
  <2> DEFINE S == {i \in 0 .. Len(fields) : offset[i] <= 8 * i}
  <2>1. ASSUME NEW k \in 1 .. Len(fields), offset[k - 1] <= 8 * (k - 1)
        PROVE  offset[k] = offset[k - 1] + InlineSize(fields[k].type) /\ offset[k] <= 8 * k
    <3>1. PICK o, type : o = offset[k - 1] /\ type = fields[k].type
      OBVIOUS
    <3>2. o \in Nat /\ o <= 8 * (k - 1) /\ k \in Nat /\ k <= FieldLimit
      BY <1>0, <1>2, <2>1, <3>1, CompilerAssumption
    <3>3. o + InlineSize(type) <= 8 * k /\ o + InlineSize(type) < FieldOffsetMod
      BY <3>2, InlineSizeTyped, CompilerAssumption
    <3>4. offset[k] = o + InlineSize(type)
      BY <1>0, <3>1, <3>2, <3>3, EndTyped
    <3> QED
      BY <3>1, <3>3, <3>4
  <2>2. 0 \in S /\ \A k \in 1 .. Len(fields) : k - 1 \in S => k \in S
    BY <1>0, <1>2, <2>1
  <2> HIDE DEF S
  <2>3. \A i \in 0 .. Len(fields) : i \in S
    BY <1>2, <2>2, Upwards
  <2>4. \A i \in 0 .. Len(fields) : offset[i] <= 8 * i
    BY <2>3 DEF S
  <2> QED
    BY <1>2, <2>1, <2>4
<1>3. \A i \in DOMAIN fields : Placed(fields)[i].type = fields[i].type
  BY PlacedIs DEF SameButPlace
<1> DEFINE S == {i \in 0 .. Len(fields) : \A j \in 0 .. i : offset[j] <= offset[i]}
<1>4. 0 \in S
  BY <1>0, <1>1, <1>2
<1>5. \A k \in 1 .. Len(fields) : k - 1 \in S => k \in S
  <2> SUFFICES ASSUME NEW k \in 1 .. Len(fields), k - 1 \in S PROVE k \in S
    OBVIOUS
  <2>1. offset[k - 1] <= offset[k]
    <3>1. PICK o, size : o = offset[k - 1] /\ size = InlineSize(fields[k].type)
      OBVIOUS
    <3>2. offset[k] = o + size /\ o \in Nat /\ size \in 0 .. 8
      BY <1>0, <1>1, <1>2, <3>1, InlineSizeTyped
    <3> QED
      BY <3>1, <3>2
  <2>2. \A j \in 0 .. k : offset[j] <= offset[k]
    <3> TAKE j \in 0 .. k
    <3>1. CASE j = k
      BY <1>0, <1>1, <1>2, <3>1
    <3>2. CASE j # k
      <4>1. offset[j] <= offset[k - 1]
        BY <1>2, <3>2
      <4>2. offset[j] \in Nat /\ offset[k - 1] \in Nat /\ offset[k] \in Nat
        BY <1>0, <1>1, <1>2
      <4> QED
        BY <2>1, <4>1, <4>2
    <3> QED
      BY <3>1, <3>2
  <2> QED
    BY <1>2, <2>2
<1> HIDE DEF S
<1>6. \A i \in 0 .. Len(fields) : i \in S
  BY <1>2, <1>4, <1>5, Upwards
<1>7. \A i \in 0 .. Len(fields) : \A j \in 0 .. i : offset[j] <= offset[i]
  BY <1>6 DEF S
<1> SUFFICES ASSUME NEW i \in 1 .. Len(fields), NEW j \in 1 .. i - 1
             PROVE  Placed(fields)[j].offset + InlineSize(Placed(fields)[j].type) <= Placed(fields)[i].offset
  BY <1>2 DEF NoOverlap
<1>8. j \in 1 .. Len(fields) /\ j \in 0 .. i - 1 /\ i - 1 \in 0 .. Len(fields)
  BY <1>2
<1>9. offset[j] <= offset[i - 1]
  BY <1>7, <1>8
<1>10. Placed(fields)[j].offset + InlineSize(Placed(fields)[j].type) = offset[j]
  BY <1>0, <1>1, <1>2, <1>3, <1>8
<1> QED
  BY <1>0, <1>9, <1>10

(* Sorted and placed, a message has the fields it had.                     *)
Same(after, before, p) ==
  /\ DOMAIN after = DOMAIN before /\ Len(after) = Len(before)
  /\ \A i \in DOMAIN before : p[i] \in DOMAIN before /\ SameButPlace(after[i], before[p[i]])
  /\ \A i, j \in DOMAIN before : p[i] = p[j] => i = j
  /\ \A j \in DOMAIN before : \E i \in DOMAIN before : p[i] = j

LEMMA SortedAndPlaced ==
  ASSUME NEW before \in Seq(IRField), NEW sorted \in SortedById(before)
  PROVE  /\ Placed(sorted) \in Seq(IRField) /\ NoOverlap(Placed(sorted))
         /\ \E p : Same(Placed(sorted), before, p)
         /\ IsGapMessage(Placed(sorted)) <=> IsGapMessage(sorted)
<1>1. PICK p : Permuted(sorted, before, p)
  BY SortedIs
<1>2. sorted \in Seq(IRField)
  BY SortedIs
<1>3. /\ Placed(sorted) \in Seq(IRField) /\ NoOverlap(Placed(sorted))
      /\ DOMAIN Placed(sorted) = DOMAIN sorted /\ Len(Placed(sorted)) = Len(sorted)
      /\ \A i \in DOMAIN sorted : SameButPlace(Placed(sorted)[i], sorted[i])
  BY <1>2, PlacedIs, PlacedApart
<1>4. Same(Placed(sorted), before, p)
  BY <1>1, <1>3 DEF Same, Permuted
<1>5. IsGapMessage(Placed(sorted)) <=> IsGapMessage(sorted)
  BY <1>3 DEF IsGapMessage, SameButPlace
<1> QED
  BY <1>3, <1>4, <1>5

(* Order and place do not change which fields are live.                    *)
LEMMA LiveSame ==
  ASSUME NEW after, NEW before, NEW p, Same(after, before, p), NEW m, NEW n, LiveIn(before, m, n)
  PROVE  LiveIn(after, m, n)
<1>1. \A i \in DOMAIN after :
        /\ p[i] \in DOMAIN before
        /\ after[i].name = before[p[i]].name /\ after[i].deprecated = before[p[i]].deprecated
  BY DEF Same, SameButPlace
<1>2. \A j \in DOMAIN before : \E i \in DOMAIN after : p[i] = j
  BY DEF Same
<1>3. \A i \in DOMAIN after : ~after[i].deprecated =>
        \E j \in 1 .. n : after[i].name = Collected(m)[j].name /\ Wanted(Collected(m)[j])
  BY <1>1 DEF LiveIn
<1>4. \A j \in 1 .. n : Wanted(Collected(m)[j]) =>
        \E i \in DOMAIN after : ~after[i].deprecated /\ after[i].name = Collected(m)[j].name
  <2> SUFFICES ASSUME NEW j \in 1 .. n, Wanted(Collected(m)[j])
               PROVE  \E i \in DOMAIN after : ~after[i].deprecated /\ after[i].name = Collected(m)[j].name
    OBVIOUS
  <2>1. PICK k \in DOMAIN before : ~before[k].deprecated /\ before[k].name = Collected(m)[j].name
    BY DEF LiveIn
  <2>2. PICK i \in DOMAIN after : p[i] = k
    BY <1>2
  <2> QED
    BY <1>1, <2>1, <2>2
<1>5. \A i, j \in DOMAIN after :
        ~after[i].deprecated /\ ~after[j].deprecated /\ after[i].name = after[j].name => i = j
  <2> SUFFICES ASSUME NEW i \in DOMAIN after, NEW j \in DOMAIN after,
                      ~after[i].deprecated, ~after[j].deprecated, after[i].name = after[j].name
               PROVE  i = j
    OBVIOUS
  <2>1. p[i] = p[j]
    BY <1>1 DEF LiveIn
  <2> QED
    BY <2>1 DEF Same
<1> QED
  BY <1>3, <1>4, <1>5 DEF LiveIn

-----------------------------------------------------------------------------
(* A message is processed.                                                 *)

PutOneofs(known, m, oneofs, after) == after = [known EXCEPT ![m].oneofs = oneofs]
PutPair(known, m, after) == after = [known EXCEPT ![m].pair = TRUE]

LEMMA OneofsPut ==
  ASSUME NEW known, NEW m \in DOMAIN known, IsMessageDef(known[m]), NEW oneofs,
         NEW after, PutOneofs(known, m, oneofs, after)
  PROVE  IsNow(known, m, after, known[m].fields, known[m].layout, known[m].defined)
<1> DEFINE r == known[m]
<1>1. r \in [defined : BOOLEAN, layout : {"unknown", "dynamic", "sparse", "flat", "fixed"},
             nested : Seq(Message), fields : Seq(IRField), pair : BOOLEAN, oneofs : {r.oneofs}]
  BY DEF IsMessageDef
<1>2. after[m] = [r EXCEPT !.oneofs = oneofs]
  BY DEF PutOneofs
<1> HIDE DEF r
<1>3. /\ after[m].fields = r.fields /\ after[m].layout = r.layout /\ after[m].defined = r.defined
      /\ after[m].nested = r.nested /\ after[m].pair = r.pair /\ after[m].oneofs = oneofs
  BY <1>1, <1>2
<1>4. after[m] \in [defined : BOOLEAN, layout : {"unknown", "dynamic", "sparse", "flat", "fixed"},
             nested : Seq(Message), fields : Seq(IRField), pair : BOOLEAN, oneofs : {oneofs}]
  BY <1>1, <1>2
<1>5. IsMessageDef(after[m])
  BY <1>3, <1>4 DEF IsMessageDef
<1>6. /\ DOMAIN after = DOMAIN known
      /\ \A n \in DOMAIN known : n # m => after[n] = known[n]
  BY DEF PutOneofs
<1> QED
  BY <1>3, <1>5, <1>6 DEF r, IsNow

(* What EnterMessage(m) does, but for the complaint.                       *)
Processes(m, sorted) ==
  /\ calls' = Append(calls, [msg |-> m, i |-> 1]) /\ processed' = processed \cup {m}
  /\ IsNow(messages, m, messages', Placed(sorted), messages[m].layout, messages[m].defined)

(* What EnterMessage changes, for any order of equal ids.                  *)
LEMMA Entering ==
  ASSUME TypesInv, NEW m \in DOMAIN messages, EnterMessage(m)
  PROVE  /\ messages[m].fields \in Seq(IRField)
         /\ \E sorted \in SortedById(messages[m].fields) :
              /\ Processes(m, sorted)
              /\ IF Complaint(m, sorted) = None THEN UNCHANGED <<phase, error>>
                                                ELSE Reject(Complaint(m, sorted))
<1>1. PICK sorted \in SortedById(messages[m].fields) :
        /\ calls' = Append(calls, [msg |-> m, i |-> 1])
        /\ processed' = processed \cup {m}
        /\ messages' = [messages EXCEPT ![m].fields = Placed(sorted), ![m].oneofs = Grouped(@, sorted)]
        /\ IF Complaint(m, sorted) = None THEN UNCHANGED <<phase, error>>
                                          ELSE Reject(Complaint(m, sorted))
  BY DEF EnterMessage
<1>2. IsMessageDef(messages[m]) /\ messages[m].fields \in Seq(IRField)
  BY DEF TypesInv, IsMessageDef
<1>3. Placed(sorted) \in Seq(IRField)
  BY <1>2, SortedAndPlaced
<1> DEFINE fields == Placed(sorted)
           first == [messages EXCEPT ![m].fields = fields]
<1>4. PICK oneofs : oneofs = Grouped(first[m].oneofs, sorted)
  OBVIOUS
<1>5. messages' = [first EXCEPT ![m].oneofs = oneofs]
  BY <1>1, <1>4
<1> HIDE DEF fields
<1>6. PutFields(messages, m, fields, first) /\ PutOneofs(first, m, oneofs, messages')
  BY <1>5 DEF PutFields, PutOneofs
<1> HIDE DEF first
<1>7. IsNow(messages, m, first, fields, messages[m].layout, messages[m].defined)
  BY <1>2, <1>3, <1>6, FieldsPut DEF fields
<1>8. m \in DOMAIN first /\ IsMessageDef(first[m])
  BY <1>7 DEF IsNow
<1>9. IsNow(first, m, messages', first[m].fields, first[m].layout, first[m].defined)
  BY <1>6, <1>8, OneofsPut
<1>10. IsNow(messages, m, messages', fields, messages[m].layout, messages[m].defined)
  BY <1>7, <1>9 DEF IsNow
<1> QED
  BY <1>1, <1>2, <1>10 DEF fields, Processes

(* A complaint is one a user can cause.                                    *)
LEMMA ComplaintIs ==
  ASSUME NEW m, NEW fields, m \notin processed, schemas[File(m)].defined,
         \A f \in Range(fields) : f.active = 0
  PROVE  /\ Complaint(m, fields) \in {None, "gaps", "oneof in fixed"}
         /\ Complaint(m, fields) = None =>
              (messages[m].layout \in {"flat", "fixed"} => ~IsGapMessage(fields))
<1>1. ~(\E f \in Range(fields) : f.active # 0)
  OBVIOUS
<1> QED
  BY <1>1 DEF Complaint, None

(* Only a message changes, in its fields and in whether it is a pair.      *)
Alters(m, fields) ==
  /\ DOMAIN messages' = DOMAIN messages
  /\ \A n \in DOMAIN messages : n # m => messages'[n] = messages[n]
  /\ IsMessageDef(messages'[m]) /\ messages'[m].fields = fields
  /\ messages'[m].layout = messages[m].layout /\ messages'[m].defined = messages[m].defined
  /\ messages'[m].nested = messages[m].nested

(* A processed message still fits the IR.                                  *)
LEMMA IRProcessed ==
  ASSUME IRInv, Given, UNCHANGED <<schemas, enums>>, NEW m \in DOMAIN messages, NEW p, NEW fields,
         Alters(m, fields), Same(fields, messages[m].fields, p)
  PROVE  IRInv'
<1>1. Grows
  BY DEF Grows, Alters
<1>2. TypesInv /\ SchemasInv /\ \A n \in DOMAIN messages : MessageInv(n)
  BY DEF IRInv
<1>3. TypesInv'
  <2>1. \A r : IsMessageDef(r)' <=> IsMessageDef(r)
    BY TypesStatic
  <2>2. SchemaDef' = SchemaDef /\ Message' = Message
    BY TypesStatic, Statics
  <2> QED
    BY <1>2, <2>1, <2>2 DEF TypesInv, Given, Alters
<1>4. SchemasInv'
  <2>1. \A t : File(t)' = File(t)
    BY Statics
  <2> QED
    BY <1>2, <2>1 DEF SchemasInv, Given, Alters
<1>5. \A n \in DOMAIN messages : n # m => MessageInv(n)'
  <2> SUFFICES ASSUME NEW n \in DOMAIN messages, n # m PROVE MessageInv(n)'
    OBVIOUS
  <2>1. messages'[n] = messages[n]
    BY DEF Alters
  <2> QED
    BY <1>1, <1>2, <2>1, MessageKept
<1>6. MessageInv(m)'
  <2>1. /\ \A t : File(t)' = File(t) /\ D(t)' = D(t)
        /\ \A t : Kept(t)' <=> Kept(t)
        /\ \A t : KeptPlaces(t)' = KeptPlaces(t)
        /\ \A file : IsTarget(file)' <=> IsTarget(file)
    BY Statics, KeptStatic, TraversalStatic
  <2>2. DOMAIN messages' = DOMAIN messages /\ messages'[m].fields = fields
    BY DEF Alters
  <2>3. \A i \in DOMAIN fields :
          p[i] \in DOMAIN messages[m].fields /\ SameButPlace(fields[i], messages[m].fields[p[i]])
    BY DEF Same
  <2>4. \A i \in DOMAIN messages[m].fields : Fits(m, messages[m].fields[i])
    BY <1>2 DEF MessageInv
  <2>5. \A i \in DOMAIN fields : \A f : f = fields[i] => Fits(m, f)'
    <3> SUFFICES ASSUME NEW i \in DOMAIN fields, NEW f, f = fields[i] PROVE Fits(m, f)'
      OBVIOUS
    <3>1. PICK g : SameButPlace(f, g) /\ Fits(m, g)
      BY <2>3, <2>4
    <3> QED
      BY <2>1, <2>2, <3>1 DEF Fits, SameButPlace
  <2>6. (\A i \in DOMAIN messages[m].fields : Fits(m, messages[m].fields[i]))'
    BY <2>2, <2>5
  <2>7. /\ messages'[m].nested = messages[m].nested /\ messages'[m].defined = messages[m].defined
        /\ messages'[m].layout = messages[m].layout
    BY DEF Alters
  <2>8. (\E i \in DOMAIN schemas[File(m)].messages : schemas[File(m)].messages[i] = m)'
    BY <1>2, <2>1 DEF MessageInv
  <2>9. /\ Kept(m)' /\ (File(m) \in DOMAIN schemas)'
        /\ (messages[m].nested = Only(D(m).nested, KeptPlaces(m)))'
        /\ (messages[m].defined => IsTarget(File(m)))'
        /\ (~messages[m].defined => messages[m].layout = "unknown")'
        /\ (messages[m].defined /\ D(m).map => messages[m].layout = "fixed")'
    BY <1>2, <2>1, <2>7 DEF MessageInv
  <2> QED
    BY <2>6, <2>8, <2>9 DEF MessageInv
<1> QED
  BY <1>3, <1>4, <1>5, <1>6 DEF IRInv, Alters

(* The first field of the entry of a map is its key.                       *)
LEMMA EntryPlaced ==
  ASSUME TypesInv, NEW m \in Message, D(m).map,
         NEW before \in Seq(IRField), EntryIn(before, m, 2), NEW sorted \in SortedById(before),
         ~IsGapMessage(sorted), before # <<>>
  PROVE  LET fields == Placed(sorted)
         IN  /\ 1 \in DOMAIN fields /\ fields[1].active = 1 /\ ~fields[1].deprecated
             /\ fields[1].type \in {"bool", "int32", "string"}
<1>1. PICK p : Permuted(sorted, before, p)
  BY SortedIs
<1>2. sorted \in Seq(IRField)
  BY SortedIs
<1>3. /\ DOMAIN Placed(sorted) = DOMAIN sorted
      /\ \A i \in DOMAIN sorted : SameButPlace(Placed(sorted)[i], sorted[i])
      /\ \A i \in DOMAIN sorted :
           ~sorted[i].deprecated => Placed(sorted)[i].active = Cardinality(LiveBefore(sorted, i))
  BY <1>2, PlacedIs
<1>4. /\ Len(before) \in Nat /\ DOMAIN before = 1 .. Len(before) /\ Len(before) >= 1 /\ Len(before) <= 2
      /\ \A i \in DOMAIN before : before[i] = LiveField(D(m).fields[i], i)
  BY DEF EntryIn
<1>5. 1 \in DOMAIN before /\ 1 \in DOMAIN sorted
  BY <1>1, <1>4 DEF Permuted
<1>6. /\ D(m).fields \in Seq(FieldDescriptor(program)) /\ DOMAIN D(m).fields = {1, 2}
      /\ D(m).fields[1].type \in {"bool", "int32", "string"} /\ ~D(m).fields[1].repeated
  BY EntryDescriptor, DescriptorOf
<1>7. \A i \in DOMAIN before : before[i].id = i
  <2> TAKE i \in DOMAIN before
  <2>1. i \in {1, 2} /\ i \in Nat
    BY <1>4
  <2>2. D(m).fields[i] \in FieldDescriptor(program)
    BY <1>6, <2>1
  <2>3. PICK f : f = D(m).fields[i] /\ f \in FieldDescriptor(program)
    BY <2>2
  <2>4. LiveField(f, i).id = i
    BY <2>1, <2>3, LiveFieldIs
  <2> QED
    BY <1>4, <2>3, <2>4
<1>8. p[1] \in DOMAIN before /\ sorted[1] = before[p[1]] /\ sorted[1].id = 1
  BY <1>1, <1>5 DEF Permuted, IsGapMessage
<1>9. sorted[1] = before[1]
  BY <1>7, <1>8
<1>10. PICK f : f = D(m).fields[1]
  OBVIOUS
<1>11. f \in FieldDescriptor(program) /\ sorted[1] = LiveField(f, 1)
       /\ f.type \in {"bool", "int32", "string"} /\ ~f.repeated
  BY <1>4, <1>5, <1>6, <1>9, <1>10
<1>12. f.type \in BasicType
  BY <1>11 DEF BasicType
<1>13. ~sorted[1].deprecated /\ sorted[1].type = f.type
  <2>1. LiveField(f, 1).deprecated = FALSE /\ LiveField(f, 1).type = f.type
    BY <1>11, <1>12, LiveFieldIs
  <2> QED
    BY <1>11, <2>1
<1>14. LiveBefore(sorted, 1) = {1}
  BY <1>13 DEF LiveBefore
<1>15. Placed(sorted)[1].active = 1
  <2>1. Cardinality(LiveBefore(sorted, 1)) = 1
    BY <1>14, FS_Singleton
  <2>2. Placed(sorted)[1].active = Cardinality(LiveBefore(sorted, 1))
    BY <1>3, <1>5, <1>13
  <2> QED
    BY ONLY <2>1, <2>2
<1> QED
  BY <1>3, <1>5, <1>11, <1>13, <1>15 DEF SameButPlace

(* An entry of a map has its key when it is processed.                     *)
LEMMA MapHasKey ==
  ASSUME IRInv, DefinedInv, ProcessedInv, NEW m \in DOMAIN messages, D(m).map, messages[m].defined,
         m \notin processed
  PROVE  EntryIn(messages[m].fields, m, 2) /\ messages[m].fields # <<>> /\ messages[m].layout = "fixed"
<1>1. m \in Message /\ TypesInv
  BY DEF IRInv, TypesInv
<1>2. Collected(m) = D(m).fields /\ Len(D(m).fields) = 2
  BY <1>1, EntryDescriptor
<1>3. EntryIn(messages[m].fields, m, 2)
  BY <1>2 DEF ProcessedInv
<1>4. messages[m].fields # <<>>
  BY <1>3 DEF EntryIn
<1> QED
  BY <1>3, <1>4 DEF IRInv, MessageInv

(* What is processed is laid out.                                          *)
LEMMA Lays ==
  ASSUME IRInv, DefinedInv, ProcessedInv, Given, NEW m \in DOMAIN messages, messages[m].defined,
         m \notin processed, NEW sorted \in SortedById(messages[m].fields), Processes(m, sorted),
         messages[m].layout \in {"flat", "fixed"} => ~IsGapMessage(sorted)
  PROVE  Laid(m)'
<1>1. messages[m].fields \in Seq(IRField) /\ m \in Message /\ TypesInv
  BY DEF IRInv, TypesInv, IsMessageDef
<1>2. messages'[m].fields = Placed(sorted) /\ messages'[m].layout = messages[m].layout
  BY DEF Processes, IsNow
<1>3. NoOverlap(Placed(sorted)) /\ (IsGapMessage(Placed(sorted)) <=> IsGapMessage(sorted))
  BY <1>1, SortedAndPlaced
<1>4. \A t : D(t)' = D(t)
  BY Statics
<1>5. ASSUME D(m).map
      PROVE  LET fields == Placed(sorted)
             IN  /\ 1 \in DOMAIN fields /\ fields[1].active = 1 /\ ~fields[1].deprecated
                 /\ fields[1].type \in {"bool", "int32", "string"}
  <2>1. EntryIn(messages[m].fields, m, 2) /\ messages[m].fields # <<>> /\ messages[m].layout = "fixed"
    BY <1>5, MapHasKey
  <2> QED
    BY <1>1, <1>5, <2>1, EntryPlaced
<1> QED
  BY <1>2, <1>3, <1>4, <1>5 DEF Laid

(* What was laid out stays so while another message is processed.          *)
LEMMA LaidKept ==
  ASSUME Given, NEW n, messages'[n].fields = messages[n].fields, messages'[n].layout = messages[n].layout
  PROVE  (Laid(n)' <=> Laid(n)) /\ (Fresh(n)' <=> Fresh(n))
<1>1. \A t : D(t)' = D(t)
  BY Statics
<1>2. messages'[n].fields = messages[n].fields
  OBVIOUS
<1>3. Fresh(n)' <=> Fresh(n)
  BY <1>2 DEF Fresh
<1>4. (Laid(n)' <=> Laid(n))
  BY <1>1, <1>2 DEF Laid
<1> QED
  BY <1>3, <1>4

(* The calls with one more.                                                *)
LEMMA CallsPushed ==
  ASSUME NEW E, NEW c \in E, NEW before \in Seq(E), NEW after, after = Append(before, c)
  PROVE  /\ after \in Seq(E) /\ \A k \in DOMAIN before : k \in DOMAIN after /\ after[k] = before[k]
         /\ \E k \in DOMAIN after : after[k] = c
<1>1. /\ Append(before, c) \in Seq(E)
      /\ DOMAIN before = 1 .. Len(before) /\ Len(before) \in Nat
      /\ DOMAIN Append(before, c) = 1 .. Len(before) + 1
      /\ \A i \in 1 .. Len(before) : Append(before, c)[i] = before[i]
      /\ Append(before, c)[Len(before) + 1] = c
  BY Appended
<1>2. Len(before) + 1 \in DOMAIN after /\ after[Len(before) + 1] = c
  BY <1>1
<1> QED
  BY <1>1, <1>2

LEMMA CallsEntered ==
  ASSUME CallsInv, NEW m \in DOMAIN messages, NEW sorted, Processes(m, sorted)
  PROVE  /\ calls' \in Seq([msg : processed \cup {m}, i : Nat \ {0}])
         /\ \A k \in DOMAIN calls : k \in DOMAIN calls' /\ calls'[k] = calls[k]
         /\ \A i \in Nat \ {0} : Ahead(m, i)'
<1> DEFINE E == [msg : processed \cup {m}, i : Nat \ {0}]
<1>1. [msg : processed, i : Nat \ {0}] \subseteq E
  OBVIOUS
<1>2. PICK c : c = [msg |-> m, i |-> 1]
  OBVIOUS
<1>3. c \in E /\ c.msg = m /\ c.i = 1
  BY <1>2
<1> HIDE DEF E
<1>4. calls \in Seq(E) /\ calls' = Append(calls, c)
  BY <1>1, <1>2, SeqOfMore DEF CallsInv, Processes
<1>5. /\ calls' \in Seq(E) /\ \A k \in DOMAIN calls : k \in DOMAIN calls' /\ calls'[k] = calls[k]
      /\ \E k \in DOMAIN calls' : calls'[k] = c
  BY <1>3, <1>4, CallsPushed
<1>6. \A i \in Nat \ {0} : Ahead(m, i)'
  <2> TAKE i \in Nat \ {0}
  <2>1. PICK k \in DOMAIN calls' : calls'[k] = c
    BY <1>5
  <2>2. calls'[k].msg = m /\ calls'[k].i <= i
    BY <1>3, <2>1
  <2> QED
    BY <2>2 DEF Ahead
<1> QED
  BY <1>5, <1>6 DEF E

(* The fields of a message that is entered are all ahead.                  *)
LEMMA PairsEntered ==
  ASSUME IRInv, CallsInv, PairsInv, NEW m \in DOMAIN messages, NEW sorted, Processes(m, sorted),
         NEW p, Same(Placed(sorted), messages[m].fields, p), Placed(sorted) \in Seq(IRField)
  PROVE  PairsInv'
<1>1. /\ \A k \in DOMAIN calls : k \in DOMAIN calls' /\ calls'[k] = calls[k]
      /\ \A i \in Nat \ {0} : Ahead(m, i)'
  BY CallsEntered
<1>2. /\ DOMAIN messages' = DOMAIN messages /\ processed' = processed \cup {m}
      /\ \A n \in DOMAIN messages : n # m => messages'[n] = messages[n]
      /\ messages'[m].fields = Placed(sorted) /\ messages'[m].pair = messages[m].pair
  BY DEF Processes, IsNow
<1>3. Len(Placed(sorted)) = Len(messages[m].fields)
  BY DEF Same
<1>4. \A t \in DOMAIN messages : IsPair(t) => IsPair(t)'
  BY <1>2, <1>3 DEF IsPair
<1>5. \A n, i : Ahead(n, i) => Ahead(n, i)'
  <2> SUFFICES ASSUME NEW n, NEW i, Ahead(n, i) PROVE Ahead(n, i)'
    OBVIOUS
  <2>1. PICK k \in DOMAIN calls : calls[k].msg = n /\ calls[k].i <= i
    BY DEF Ahead
  <2> QED
    BY <1>1, <2>1 DEF Ahead
<1>6. ASSUME NEW n \in processed', NEW i \in DOMAIN messages'[n].fields, messages'[n].fields[i].assoc
      PROVE  IsPair(messages[n].fields[i].to)' \/ Ahead(n, i)'
  <2>1. CASE n = m
    <3>1. i \in Nat \ {0}
      BY <1>2, <2>1
    <3> QED
      BY <1>1, <2>1, <3>1
  <2>2. CASE n # m
    <3>1. n \in processed /\ n \in DOMAIN messages /\ messages'[n] = messages[n]
      BY <1>2, <2>2 DEF CallsInv
    <3>2. PICK t : t = messages[n].fields[i].to
      OBVIOUS
    <3>3. Fits(n, messages[n].fields[i])
      BY <3>1 DEF IRInv, MessageInv
    <3>4. t \in DOMAIN messages
      BY <1>6, <3>1, <3>2, <3>3 DEF Fits
    <3>5. IsPair(t) \/ Ahead(n, i)
      BY <1>6, <3>1, <3>2 DEF PairsInv
    <3>6. IsPair(t)' \/ Ahead(n, i)'
      BY <1>4, <1>5, <3>4, <3>5
    <3>7. t = messages'[n].fields[i].to
      BY <3>1, <3>2
    <3> QED
      BY <3>6, <3>7 DEF IsPair
  <2> QED
    BY <2>1, <2>2
<1>7. ASSUME NEW n \in DOMAIN messages, messages'[n].pair PROVE Associated(n)'
  <2>1. messages[n].pair
    BY <1>2, <1>7
  <2>2. PICK q \in DOMAIN messages : \E i \in DOMAIN messages[q].fields :
          messages[q].fields[i].assoc /\ messages[q].fields[i].to = n
    BY <2>1 DEF PairsInv, Associated
  <2>3. PICK i \in DOMAIN messages[q].fields : messages[q].fields[i].assoc /\ messages[q].fields[i].to = n
    BY <2>2
  <2>4. \E j \in DOMAIN messages'[q].fields : messages'[q].fields[j].assoc /\ messages'[q].fields[j].to = n
    <3>1. CASE q = m
      <4>1. PICK j \in DOMAIN messages[m].fields : p[j] = i
        BY <2>3, <3>1 DEF Same
      <4>2. SameButPlace(Placed(sorted)[j], messages[m].fields[i]) /\ j \in DOMAIN Placed(sorted)
        BY <4>1 DEF Same
      <4> QED
        BY <1>2, <2>3, <3>1, <4>2 DEF SameButPlace
    <3>2. CASE q # m
      BY <1>2, <2>3, <3>2
    <3> QED
      BY <3>1, <3>2
  <2> QED
    BY <1>2, <2>4 DEF Associated
<1>8. \A n \in processed' : \A i \in DOMAIN messages'[n].fields : messages'[n].fields[i].assoc =>
        (IsPair(messages[n].fields[i].to) \/ Ahead(n, i))'
  BY <1>6
<1> QED
  BY <1>2, <1>7, <1>8 DEF PairsInv

LEMMA DefinedEntered ==
  ASSUME DefinedInv, Given, UNCHANGED schemas, NEW m \in DOMAIN messages, messages[m].defined,
         NEW sorted, Processes(m, sorted), NEW p, Same(Placed(sorted), messages[m].fields, p)
  PROVE  DefinedInv'
<1>1. /\ \A t : File(t)' = File(t)
      /\ \A file : IsTarget(file)' <=> IsTarget(file)
      /\ \A t : Collected(t)' = Collected(t)
  BY Statics
<1>2. \A fields, t, l : LiveIn(fields, t, l)' <=> LiveIn(fields, t, l)
  BY FieldsStatic
<1>3. /\ DOMAIN messages' = DOMAIN messages
      /\ \A n \in DOMAIN messages : n # m => messages'[n] = messages[n]
      /\ messages'[m].fields = Placed(sorted) /\ messages'[m].defined = messages[m].defined
  BY DEF Processes, IsNow
<1>4. ASSUME NEW n \in DOMAIN messages, messages'[n].defined
      PROVE  LiveIn(messages[n].fields, n, Len(Collected(n)))'
  <2>1. messages[n].defined
    BY <1>3, <1>4
  <2>2. LiveIn(messages[n].fields, n, Len(Collected(n)))
    BY <2>1 DEF DefinedInv
  <2>3. LiveIn(messages'[n].fields, n, Len(Collected(n)))
    <3>1. CASE n = m
      BY <1>3, <2>2, <3>1, LiveSame
    <3>2. CASE n # m
      BY <1>3, <2>2, <3>2
    <3> QED
      BY <3>1, <3>2
  <2> QED
    BY <1>1, <1>2, <2>3
<1>5. ASSUME NEW n \in DOMAIN messages
      PROVE  /\ messages'[n].defined <=> IsTarget(File(n))
             /\ messages'[n].defined => schemas[File(n)].defined
             /\ ~messages'[n].defined => messages'[n].fields = <<>>
  <2>1. CASE n = m
    BY <1>3, <2>1 DEF DefinedInv
  <2>2. CASE n # m
    BY <1>3, <2>2 DEF DefinedInv
  <2> QED
    BY <2>1, <2>2
<1>6. \A file \in DOMAIN schemas : schemas[file].defined => IsTarget(file)
  BY DEF DefinedInv
<1> QED
  BY <1>1, <1>3, <1>4, <1>5, <1>6 DEF DefinedInv

LEMMA ProcessedEntered ==
  ASSUME IRInv, CallsInv, DefinedInv, ProcessedInv, Given, NEW m \in DOMAIN messages, m \notin processed,
         messages[m].defined, NEW sorted \in SortedById(messages[m].fields), Processes(m, sorted),
         messages[m].layout \in {"flat", "fixed"} => ~IsGapMessage(sorted),
         pending' = pending \/ pending' = pending \ {m}
  PROVE  ProcessedInv'
<1>1. Laid(m)'
  BY Lays
<1>2. \A t : Collected(t)' = Collected(t)
  BY Statics
<1>3. \A fields, t, l : EntryIn(fields, t, l)' <=> EntryIn(fields, t, l)
  BY FieldsStatic
<1>4. /\ DOMAIN messages' = DOMAIN messages /\ processed' = processed \cup {m}
      /\ \A n \in DOMAIN messages : n # m => messages'[n] = messages[n]
      /\ messages'[m].defined = messages[m].defined
  BY DEF Processes, IsNow
<1>5. ASSUME NEW n \in DOMAIN messages, n # m
      PROVE  (Laid(n)' <=> Laid(n)) /\ (Fresh(n)' <=> Fresh(n))
  BY <1>4, <1>5, LaidKept
<1>6. ASSUME NEW n \in DOMAIN messages, n # m
      PROVE  /\ n \in processed' => messages'[n].defined /\ Laid(n)'
             /\ n \notin processed' => Fresh(n)'
             /\ n \notin processed' /\ messages'[n].defined => EntryIn(messages[n].fields, n, Len(Collected(n)))'
             /\ n \in pending' \/ n \in processed' \/ ~messages'[n].defined
  <2>1. /\ n \in processed => messages[n].defined /\ Laid(n)
        /\ n \notin processed => Fresh(n)
        /\ n \notin processed /\ messages[n].defined => EntryIn(messages[n].fields, n, Len(Collected(n)))
        /\ n \in pending \/ n \in processed \/ ~messages[n].defined
    BY DEF ProcessedInv
  <2>2. messages'[n] = messages[n] /\ (n \in processed' <=> n \in processed) /\ (n \in pending' <=> n \in pending)
    BY <1>4, <1>6
  <2>3. n \notin processed' /\ messages'[n].defined => EntryIn(messages[n].fields, n, Len(Collected(n)))'
    BY <1>2, <1>3, <2>1, <2>2
  <2> QED
    BY <1>5, <1>6, <2>1, <2>2, <2>3
<1>7. m \in processed' /\ messages'[m].defined
  BY <1>4
<1> QED
  BY <1>1, <1>4, <1>6, <1>7 DEF ProcessedInv

(* Entering a message keeps every part of the invariant.                   *)
LEMMA EnterPreserves ==
  ASSUME CompilerInv, phase = "process", NEW m \in DOMAIN messages, m \notin processed,
         messages[m].defined, EnterMessage(m), Given, UNCHANGED <<schemas, enums, generation>>,
         pending' = pending \/ pending' = pending \ {m}
  PROVE  CompilerInv'
<1>1. /\ IRInv /\ CallsInv /\ PhaseInv
      /\ KeptAll /\ DefinedInv /\ ProcessedInv /\ PairsInv
  BY DEF CompilerInv, ProcessInv
<1>2. TypesInv
  BY <1>1 DEF IRInv
<1>3. messages[m].fields \in Seq(IRField)
  BY <1>2, Entering
<1>4. PICK sorted \in SortedById(messages[m].fields) :
        /\ Processes(m, sorted)
        /\ IF Complaint(m, sorted) = None THEN UNCHANGED <<phase, error>> ELSE Reject(Complaint(m, sorted))
  BY <1>2, Entering
<1>5. \A f \in Range(sorted) : f.active = 0
  <2>1. PICK p : Permuted(sorted, messages[m].fields, p)
    BY <1>3, SortedIs
  <2>2. Fresh(m)
    BY <1>1 DEF ProcessedInv
  <2>3. ASSUME NEW f \in Range(sorted) PROVE f.active = 0
    <3>1. PICK i \in DOMAIN sorted : f = sorted[i]
      BY <2>3 DEF Range
    <3>2. p[i] \in DOMAIN messages[m].fields /\ f = messages[m].fields[p[i]]
      BY <2>1, <3>1 DEF Permuted
    <3> QED
      BY <2>2, <3>2 DEF Fresh
  <2> QED
    BY <2>3
<1>6. PICK complaint : complaint = Complaint(m, sorted)
  OBVIOUS
<1>7. /\ complaint \in {None, "gaps", "oneof in fixed"}
      /\ complaint = None => (messages[m].layout \in {"flat", "fixed"} => ~IsGapMessage(sorted))
  <2>1. schemas[File(m)].defined
    BY <1>1 DEF DefinedInv
  <2> QED
    BY <1>5, <1>6, <2>1, ComplaintIs
<1>8. PICK p : Same(Placed(sorted), messages[m].fields, p)
  BY <1>3, SortedAndPlaced
<1>9. Placed(sorted) \in Seq(IRField)
  BY <1>3, SortedAndPlaced
<1>10. IRInv'
  BY <1>1, <1>4, <1>8, IRProcessed DEF Processes, IsNow, Alters
<1>11. CallsInv'
  <2>1. calls' \in Seq([msg : processed \cup {m}, i : Nat \ {0}])
    BY <1>1, <1>4, CallsEntered
  <2>2. DOMAIN messages' = DOMAIN messages /\ processed' = processed \cup {m}
    BY <1>4 DEF Processes, IsNow
  <2> QED
    BY <1>1, <2>1, <2>2 DEF CallsInv
<1>12. CASE complaint = None
  <2>1. phase' = "process" /\ error' = error
    BY <1>4, <1>6, <1>12
  <2>2. KeptAll'
    <3>1. DOMAIN messages' = DOMAIN messages
      BY <1>4 DEF Processes, IsNow
    <3> QED
      BY <1>1, <3>1, KeptAllStays
  <2>3. DefinedInv'
    BY <1>1, <1>4, <1>8, DefinedEntered
  <2>4. ProcessedInv'
    BY <1>1, <1>4, <1>7, <1>12, ProcessedEntered
  <2>5. PairsInv'
    BY <1>1, <1>4, <1>8, <1>9, PairsEntered
  <2>6. ProcessInv'
    BY <2>1, <2>2, <2>3, <2>4, <2>5 DEF ProcessInv
  <2>7. ParseInv'
    BY <2>1 DEF ParseInv
  <2>8. PhaseInv'
    BY <1>1, <2>1 DEF PhaseInv, generation
  <2> QED
    BY <1>10, <1>11, <2>6, <2>7, <2>8 DEF CompilerInv
<1>13. CASE complaint # None
  <2>1. phase' = "rejected" /\ error' \in {"gaps", "oneof in fixed"}
    BY <1>4, <1>6, <1>7, <1>13 DEF Reject
  <2>2. \A x \in {"gaps", "oneof in fixed"} : x \notin Internal /\ x # None
    BY DEF Internal, None
  <2>3. PhaseInv'
    BY <2>1, <2>2 DEF PhaseInv
  <2>4. ProcessInv' /\ ParseInv'
    BY <2>1 DEF ProcessInv, ParseInv
  <2> QED
    BY <1>10, <1>11, <2>3, <2>4 DEF CompilerInv
<1> QED
  BY <1>12, <1>13

(* The processor leaves the IR alone.                                      *)
LEMMA IRStands ==
  ASSUME IRInv, KeptAll, DefinedInv, Given, UNCHANGED ir
  PROVE  /\ IRInv' /\ KeptAll' /\ DefinedInv'
         /\ \A n : (Laid(n)' <=> Laid(n)) /\ (Fresh(n)' <=> Fresh(n))
         /\ \A n : (IsPair(n)' <=> IsPair(n)) /\ (Associated(n)' <=> Associated(n))
<1>1. messages' = messages /\ schemas' = schemas /\ enums' = enums
  BY DEF ir
<1>2. IRInv'
  BY IRKept
<1>3. KeptAll'
  BY <1>1, KeptAllStays
<1>4. DefinedInv'
  <2>1. /\ \A t : File(t)' = File(t)
        /\ \A file : IsTarget(file)' <=> IsTarget(file)
        /\ \A t : Collected(t)' = Collected(t)
    BY Statics
  <2>2. \A fields, t, l : LiveIn(fields, t, l)' <=> LiveIn(fields, t, l)
    BY FieldsStatic
  <2> QED
    BY <1>1, <2>1, <2>2 DEF DefinedInv
<1>5. \A n : (Laid(n)' <=> Laid(n)) /\ (Fresh(n)' <=> Fresh(n))
  BY <1>1, LaidKept
<1>6. \A n : (IsPair(n)' <=> IsPair(n)) /\ (Associated(n)' <=> Associated(n))
  BY <1>1 DEF IsPair, Associated
<1> QED
  BY <1>2, <1>3, <1>4, <1>5, <1>6

LEMMA ProcessedKept ==
  ASSUME Given, UNCHANGED ir, ProcessedInv, processed' = processed,
         \A n : (Laid(n)' <=> Laid(n)) /\ (Fresh(n)' <=> Fresh(n)),
         \A n \in DOMAIN messages : n \in pending => n \in pending' \/ n \in processed \/ ~messages[n].defined
  PROVE  ProcessedInv'
<1>1. messages' = messages
  BY DEF ir
<1>2. \A t : Collected(t)' = Collected(t)
  BY Statics
<1>3. \A fields, t, l : EntryIn(fields, t, l)' <=> EntryIn(fields, t, l)
  BY FieldsStatic
<1> QED
  BY <1>1, <1>2, <1>3 DEF ProcessedInv

LEMMA ProcessNextPreserves ==
  ASSUME CompilerInv, NEW m \in Message, ProcessNext(m)
  PROVE  CompilerInv'
<1>1. /\ phase = "process" /\ calls = <<>> /\ m \in pending /\ pending' = pending \ {m}
      /\ Given /\ schemas' = schemas /\ enums' = enums /\ generation' = generation
  BY DEF ProcessNext, Given
<1>2. /\ IRInv /\ CallsInv /\ PhaseInv
      /\ KeptAll /\ DefinedInv /\ ProcessedInv /\ PairsInv
  BY <1>1 DEF CompilerInv, ProcessInv
<1>3. m \in DOMAIN messages
  BY <1>1, <1>2 DEF CallsInv
<1>4. CASE m \in processed \/ ~messages[m].defined
  <2>1. processed' = processed /\ calls' = calls /\ messages' = messages /\ phase' = phase /\ error' = error
    BY <1>4 DEF ProcessNext
  <2>2. UNCHANGED ir
    BY <1>1, <2>1 DEF ir
  <2>3. /\ IRInv' /\ KeptAll' /\ DefinedInv'
        /\ \A n : (Laid(n)' <=> Laid(n)) /\ (Fresh(n)' <=> Fresh(n))
        /\ \A n : (IsPair(n)' <=> IsPair(n)) /\ (Associated(n)' <=> Associated(n))
    BY <1>1, <1>2, <2>2, IRStands
  <2>4. ProcessedInv'
    BY <1>1, <1>2, <1>4, <2>1, <2>2, <2>3, ProcessedKept
  <2>5. PairsInv'
    <3>1. \A n, i : Ahead(n, i)' <=> Ahead(n, i)
      BY <2>1 DEF Ahead
    <3> QED
      BY <1>2, <2>1, <2>3, <3>1 DEF PairsInv
  <2>6. CallsInv'
    BY <1>1, <1>2, <2>1 DEF CallsInv
  <2>7. ProcessInv' /\ ParseInv'
    BY <1>1, <2>1, <2>3, <2>4, <2>5 DEF ProcessInv, ParseInv
  <2>8. PhaseInv'
    BY <1>1, <1>2, <2>1 DEF PhaseInv, generation
  <2> QED
    BY <2>3, <2>6, <2>7, <2>8 DEF CompilerInv
<1>5. CASE ~(m \in processed \/ ~messages[m].defined)
  <2>1. EnterMessage(m)
    BY <1>5 DEF ProcessNext
  <2> QED
    BY <1>1, <1>3, <1>5, <2>1, EnterPreserves
<1> QED
  BY <1>4, <1>5

LEMMA LastCall ==
  ASSUME NEW E, NEW s \in Seq(E), s # <<>>
  PROVE  /\ Last(s) \in E /\ Len(s) \in Nat /\ Len(s) >= 1 /\ Last(s) = s[Len(s)]
         /\ DOMAIN s = 1 .. Len(s) /\ Len(s) \in DOMAIN s
  BY DEF Last

(* The field the topmost call is at is a field of the IR.                  *)
LEMMA ProcessingIs ==
  ASSUME IRInv, CallsInv, NEW f, Processing(f)
  PROVE  /\ phase = "process" /\ calls # <<>> /\ Last(calls) \in [msg : processed, i : Nat \ {0}]
         /\ Last(calls).msg \in DOMAIN messages
         /\ Last(calls).i \in DOMAIN messages[Last(calls).msg].fields
         /\ f = messages[Last(calls).msg].fields[Last(calls).i]
         /\ Fits(Last(calls).msg, f)
<1>1. /\ phase = "process" /\ calls # <<>>
      /\ Last(calls).i <= Len(messages[Last(calls).msg].fields)
      /\ f = messages[Last(calls).msg].fields[Last(calls).i]
  BY DEF Processing
<1>2. Last(calls) \in [msg : processed, i : Nat \ {0}]
  BY <1>1, LastCall DEF CallsInv
<1>3. PICK m, i : m = Last(calls).msg /\ i = Last(calls).i
  OBVIOUS
<1>4. m \in DOMAIN messages /\ i \in Nat /\ i >= 1
  BY <1>2, <1>3 DEF CallsInv
<1>5. messages[m].fields \in Seq(IRField)
  BY <1>4 DEF IRInv, TypesInv, IsMessageDef
<1>6. i \in DOMAIN messages[m].fields
  BY <1>1, <1>3, <1>4, <1>5
<1>7. Fits(m, f)
  BY <1>1, <1>3, <1>4, <1>6 DEF IRInv, MessageInv
<1> QED
  BY <1>1, <1>2, <1>3, <1>4, <1>6, <1>7

LEMMA ProcessTypePreserves ==
  ASSUME CompilerInv, NEW f, ProcessType(f)
  PROVE  CompilerInv'
<1>1. /\ Processing(f) /\ MustProcess(f.to) /\ EnterMessage(f.to) /\ pending' = pending
      /\ Given /\ schemas' = schemas /\ enums' = enums /\ generation' = generation
  BY DEF ProcessType, Given
<1>2. IRInv /\ CallsInv
  BY DEF CompilerInv
<1>3. phase = "process" /\ f.to \in DOMAIN messages \cup {Null}
  BY <1>1, <1>2, ProcessingIs DEF Fits
<1>4. PICK m : m = f.to
  OBVIOUS
<1>5. m \in DOMAIN messages /\ m \notin processed /\ messages[m].defined /\ EnterMessage(m)
  BY <1>1, <1>3, <1>4 DEF MustProcess
<1> QED
  BY <1>1, <1>3, <1>5, EnterPreserves

(* A pair has a key and the layout of an entry, so that only its size is   *)
(* complained about.                                                       *)
LEMMA PairComplaintIs ==
  ASSUME NEW fields, ~fields[1].deprecated, fields[1].type \in {"bool", "int32", "string"}
  PROVE  /\ PairComplaint(fields, "fixed") \in {None, "pair size"}
         /\ PairComplaint(fields, "fixed") = None => Len(fields) = 2
  BY DEF PairComplaint, IsScalar, None

IsPairNow(known, m, after) ==
  /\ DOMAIN after = DOMAIN known
  /\ \A n \in DOMAIN known : n # m => after[n] = known[n]
  /\ IsMessageDef(after[m]) /\ after[m].fields = known[m].fields
  /\ after[m].layout = known[m].layout /\ after[m].defined = known[m].defined
  /\ after[m].nested = known[m].nested /\ after[m].pair = TRUE

(* Marking a pair changes nothing else.                                    *)
LEMMA PairPut ==
  ASSUME NEW known, NEW m \in DOMAIN known, IsMessageDef(known[m]), NEW after, PutPair(known, m, after)
  PROVE  IsPairNow(known, m, after)
<1> DEFINE r == known[m]
<1>1. r \in [defined : BOOLEAN, layout : {"unknown", "dynamic", "sparse", "flat", "fixed"},
             nested : Seq(Message), fields : Seq(IRField), pair : BOOLEAN, oneofs : {r.oneofs}]
  BY DEF IsMessageDef
<1>2. after[m] = [r EXCEPT !.pair = TRUE]
  BY DEF PutPair
<1> HIDE DEF r
<1>3. /\ after[m].fields = r.fields /\ after[m].layout = r.layout /\ after[m].defined = r.defined
      /\ after[m].nested = r.nested /\ after[m].pair = TRUE /\ after[m].oneofs = r.oneofs
  BY <1>1, <1>2
<1>4. after[m] \in [defined : BOOLEAN, layout : {"unknown", "dynamic", "sparse", "flat", "fixed"},
             nested : Seq(Message), fields : Seq(IRField), pair : BOOLEAN, oneofs : {r.oneofs}]
  BY <1>1, <1>2
<1>5. IsMessageDef(after[m])
  BY <1>3, <1>4 DEF IsMessageDef
<1>6. /\ DOMAIN after = DOMAIN known
      /\ \A n \in DOMAIN known : n # m => after[n] = known[n]
  BY DEF PutPair
<1> QED
  BY <1>3, <1>5, <1>6 DEF r, IsPairNow

(* The topmost call is at its next field.                                  *)
Steps(before, after) ==
  /\ DOMAIN after = DOMAIN before
  /\ \A k \in DOMAIN before : k # Len(before) => after[k] = before[k]
  /\ after[Len(before)].msg = before[Len(before)].msg
  /\ after[Len(before)].i = before[Len(before)].i + 1

LEMMA CallStepped ==
  ASSUME NEW M, NEW before \in Seq([msg : M, i : Nat \ {0}]), before # <<>>,
         NEW after, after = [before EXCEPT ![Len(before)].i = @ + 1]
  PROVE  after \in Seq([msg : M, i : Nat \ {0}]) /\ Steps(before, after)
<1> DEFINE E == [msg : M, i : Nat \ {0}]
<1>1. /\ Len(before) \in Nat /\ DOMAIN before = 1 .. Len(before) /\ Len(before) \in DOMAIN before
      /\ before[Len(before)] \in E
  BY LastCall
<1>2. PICK c : c = before[Len(before)]
  OBVIOUS
<1>3. PICK d : d = [c EXCEPT !.i = c.i + 1]
  OBVIOUS
<1>4. d \in E /\ d.msg = c.msg /\ d.i = c.i + 1
  <2>1. c \in E
    BY <1>1, <1>2
  <2> QED
    BY ONLY <1>3, <2>1
<1>5. after = [before EXCEPT ![Len(before)] = d]
  BY <1>2, <1>3
<1> HIDE DEF E
<1>6. \A k \in DOMAIN before : after[k] = IF k = Len(before) THEN d ELSE before[k]
  BY <1>1, <1>5
<1>7. \A k \in 1 .. Len(before) : after[k] \in E
  <2>1. before \in Seq(E)
    BY DEF E
  <2>2. \A k \in 1 .. Len(before) : before[k] \in E
    BY ONLY <2>1
  <2> QED
    BY ONLY <1>1, <1>4, <1>6, <2>2
<1>8. after \in [1 .. Len(before) -> E]
  BY <1>1, <1>5, <1>7
<1>9. after \in Seq(E)
  BY <1>1, <1>8
<1>10. Steps(before, after)
  BY <1>1, <1>2, <1>4, <1>5, <1>6 DEF Steps
<1> QED
  BY <1>9, <1>10 DEF E

(* A call that had a field before it has passed it at most if it was       *)
(* completed.                                                              *)
LEMMA AheadStepped ==
  ASSUME CallsInv, calls # <<>>, Steps(calls, calls'), NEW n, NEW i \in Nat, Ahead(n, i)
  PROVE  Ahead(n, i)' \/ (n = Last(calls).msg /\ i = Last(calls).i)
<1>1. PICK k \in DOMAIN calls : calls[k].msg = n /\ calls[k].i <= i
  BY DEF Ahead
<1>2. calls \in Seq([msg : processed, i : Nat \ {0}])
  BY DEF CallsInv
<1>3. /\ Last(calls) = calls[Len(calls)] /\ Last(calls) \in [msg : processed, i : Nat \ {0}]
      /\ Len(calls) \in DOMAIN calls
  BY <1>2, LastCall
<1>4. CASE k # Len(calls)
  <2>1. k \in DOMAIN calls' /\ calls'[k] = calls[k]
    BY <1>4 DEF Steps
  <2> QED
    BY <1>1, <2>1 DEF Ahead
<1>5. CASE k = Len(calls)
  <2>1. /\ k \in DOMAIN calls' /\ calls'[k].msg = n /\ calls'[k].i = calls[k].i + 1
        /\ calls[k].i \in Nat
    BY <1>1, <1>3, <1>5 DEF Steps
  <2>2. CASE calls[k].i < i
    <3>1. calls'[k].i <= i
      BY <2>1, <2>2
    <3> QED
      BY <2>1, <3>1 DEF Ahead
  <2>3. CASE ~(calls[k].i < i)
    <3>1. calls[k].i = i
      BY <1>1, <2>1, <2>3
    <3> QED
      BY <1>1, <1>3, <1>5, <3>1
  <2> QED
    BY <2>2, <2>3
<1> QED
  BY <1>4, <1>5

(* A message becomes a pair.                                               *)
LEMMA PairStands ==
  ASSUME IRInv, KeptAll, DefinedInv, ProcessedInv, Given, UNCHANGED <<schemas, enums, processed, pending>>,
         NEW t \in DOMAIN messages, Alters(t, messages[t].fields)
  PROVE  IRInv' /\ KeptAll' /\ DefinedInv' /\ ProcessedInv'
<1>1. /\ DOMAIN messages' = DOMAIN messages
      /\ \A n \in DOMAIN messages : n # t => messages'[n] = messages[n]
      /\ messages'[t].fields = messages[t].fields
      /\ messages'[t].layout = messages[t].layout /\ messages'[t].defined = messages[t].defined
  BY DEF Alters
<1>2. \A n \in DOMAIN messages :
        /\ messages'[n].fields = messages[n].fields /\ messages'[n].layout = messages[n].layout
        /\ messages'[n].defined = messages[n].defined
  BY <1>1
<1>3. IRInv'
  <2> DEFINE fields == messages[t].fields
             p == [j \in DOMAIN fields |-> j]
  <2>1. fields \in Seq(IRField)
    BY DEF IRInv, TypesInv, IsMessageDef
  <2>2. Same(fields, fields, p)
    BY DEF Same, SameButPlace
  <2> HIDE DEF p
  <2> QED
    BY <2>2, IRProcessed
<1>4. KeptAll'
  BY <1>1, KeptAllStays
<1>5. /\ \A n : File(n)' = File(n)
      /\ \A file : IsTarget(file)' <=> IsTarget(file)
      /\ \A n : Collected(n)' = Collected(n)
  BY Statics
<1>6. /\ \A fields, n, l : LiveIn(fields, n, l)' <=> LiveIn(fields, n, l)
      /\ \A fields, n, l : EntryIn(fields, n, l)' <=> EntryIn(fields, n, l)
  BY FieldsStatic
<1>7. DefinedInv'
  <2>1. \A n \in DOMAIN messages : messages'[n].defined => LiveIn(messages[n].fields, n, Len(Collected(n)))'
    BY <1>2, <1>5, <1>6 DEF DefinedInv
  <2> QED
    BY <1>1, <1>2, <1>5, <2>1 DEF DefinedInv
<1>8. ProcessedInv'
  <2>1. \A n \in DOMAIN messages : (Laid(n)' <=> Laid(n)) /\ (Fresh(n)' <=> Fresh(n))
    BY <1>2, LaidKept
  <2>2. \A n \in DOMAIN messages : n \notin processed /\ messages'[n].defined =>
          EntryIn(messages[n].fields, n, Len(Collected(n)))'
    BY <1>2, <1>5, <1>6 DEF ProcessedInv
  <2> QED
    BY <1>1, <1>2, <2>1, <2>2 DEF ProcessedInv
<1> QED
  BY <1>3, <1>4, <1>7, <1>8

(* The type of a map's field is processed when the field is completed.     *)
LEMMA EntryProcessed ==
  ASSUME IRInv, DefinedInv, ProcessedInv, NEW m \in processed, m \in DOMAIN messages,
         NEW f, Fits(m, f), f.assoc, ~MustProcess(f.to)
  PROVE  /\ f.to \in DOMAIN messages /\ f.to \in processed /\ messages[f.to].layout = "fixed"
         /\ ~messages[f.to].fields[1].deprecated
         /\ messages[f.to].fields[1].type \in {"bool", "int32", "string"}
<1>1. f.to \in DOMAIN messages /\ f.to # Null /\ D(f.to).map /\ File(f.to) = File(m)
  BY DEF Fits
<1>2. messages[f.to].defined
  BY <1>1 DEF DefinedInv, ProcessedInv
<1>3. f.to \in processed /\ Laid(f.to)
  BY <1>1, <1>2 DEF MustProcess, ProcessedInv
<1>4. messages[f.to].layout = "fixed"
  BY <1>1, <1>2 DEF IRInv, MessageInv
<1> QED
  BY <1>1, <1>3, <1>4 DEF Laid

(* Completing a field, and marking its type if it is a map's.              *)
LEMMA CompleteFieldPreserves ==
  ASSUME CompilerInv, NEW f, CompleteField(f)
  PROVE  CompilerInv'
<1>1. /\ Processing(f) /\ ~MustProcess(f.to)
      /\ Given /\ schemas' = schemas /\ enums' = enums /\ generation' = generation
      /\ pending' = pending /\ processed' = processed
  BY DEF CompleteField, Given
<1>2. /\ IRInv /\ CallsInv /\ PhaseInv /\ phase = "process"
      /\ KeptAll /\ DefinedInv /\ ProcessedInv /\ PairsInv
  BY <1>1, ProcessingIs DEF CompilerInv, ProcessInv
<1>3. PICK m, i : m = Last(calls).msg /\ i = Last(calls).i
  OBVIOUS
<1>4. /\ calls # <<>> /\ m \in processed /\ m \in DOMAIN messages /\ i \in DOMAIN messages[m].fields
      /\ f = messages[m].fields[i] /\ Fits(m, f)
  BY <1>1, <1>2, <1>3, ProcessingIs
<1>5. calls' \in Seq([msg : processed, i : Nat \ {0}]) /\ Steps(calls, calls')
  <2>1. calls' = [calls EXCEPT ![Len(calls)].i = @ + 1]
    BY DEF CompleteField
  <2>2. calls \in Seq([msg : processed, i : Nat \ {0}])
    BY <1>2 DEF CallsInv
  <2> QED
    BY <1>4, <2>1, <2>2, CallStepped
<1>6. ASSUME NEW n \in DOMAIN messages, NEW j \in DOMAIN messages[n].fields, Ahead(n, j)
      PROVE  Ahead(n, j)' \/ (n = m /\ j = i)
  <2>1. messages[n].fields \in Seq(IRField)
    BY <1>2 DEF IRInv, TypesInv, IsMessageDef
  <2>2. j \in Nat
    BY <2>1
  <2> QED
    BY <1>2, <1>3, <1>4, <1>5, <1>6, <2>2, AheadStepped
<1>7. ASSUME NEW n \in processed, NEW j \in DOMAIN messages[n].fields, messages[n].fields[j].assoc
      PROVE  IsPair(messages[n].fields[j].to) \/ Ahead(n, j)' \/ (n = m /\ j = i)
  BY <1>2, <1>6, <1>7 DEF PairsInv, CallsInv
<1>8. CASE ~f.assoc
  <2>1. messages' = messages /\ phase' = phase /\ error' = error
    BY <1>8 DEF CompleteField
  <2>2. UNCHANGED ir
    BY <1>1, <2>1 DEF ir
  <2>3. /\ IRInv' /\ KeptAll' /\ DefinedInv'
        /\ \A n : (Laid(n)' <=> Laid(n)) /\ (Fresh(n)' <=> Fresh(n))
        /\ \A n : (IsPair(n)' <=> IsPair(n)) /\ (Associated(n)' <=> Associated(n))
    BY <1>1, <1>2, <2>2, IRStands
  <2>4. ProcessedInv'
    BY <1>1, <1>2, <2>2, <2>3, ProcessedKept
  <2>5. PairsInv'
    BY <1>1, <1>2, <1>4, <1>7, <1>8, <2>1, <2>3 DEF PairsInv
  <2>6. CallsInv'
    BY <1>1, <1>2, <1>5, <2>1 DEF CallsInv
  <2>7. ProcessInv' /\ ParseInv'
    BY <1>2, <2>1, <2>3, <2>4, <2>5 DEF ProcessInv, ParseInv
  <2>8. PhaseInv'
    BY <1>1, <1>2, <2>1 DEF PhaseInv, generation
  <2> QED
    BY <2>3, <2>6, <2>7, <2>8 DEF CompilerInv
<1>9. CASE f.assoc
  <2>1. PICK t : t = f.to
    OBVIOUS
  <2>2. /\ t \in DOMAIN messages /\ messages[t].layout = "fixed" /\ ~messages[t].fields[1].deprecated
        /\ messages[t].fields[1].type \in {"bool", "int32", "string"}
    BY <1>1, <1>2, <1>4, <1>9, <2>1, EntryProcessed
  <2>3. PICK complaint : complaint = PairComplaint(messages[t].fields, "fixed")
    OBVIOUS
  <2>4. /\ messages' = [messages EXCEPT ![t].pair = TRUE]
        /\ IF complaint = None THEN UNCHANGED <<phase, error>> ELSE Reject(complaint)
    BY <1>9, <2>1, <2>2, <2>3 DEF CompleteField
  <2>5. complaint \in {None, "pair size"} /\ (complaint = None => Len(messages[t].fields) = 2)
    BY <2>2, <2>3, PairComplaintIs
  <2>6. PutPair(messages, t, messages') /\ IsMessageDef(messages[t])
    BY <1>2, <2>2, <2>4 DEF PutPair, IRInv, TypesInv
  <2>7. Alters(t, messages[t].fields) /\ messages'[t].pair = TRUE
    <3>1. IsPairNow(messages, t, messages')
      BY <2>2, <2>6, PairPut
    <3> QED
      BY <3>1 DEF IsPairNow, Alters
  <2>8. IRInv' /\ KeptAll' /\ DefinedInv' /\ ProcessedInv'
    BY <1>1, <1>2, <2>2, <2>7, PairStands
  <2>9. /\ DOMAIN messages' = DOMAIN messages
        /\ \A n \in DOMAIN messages : messages'[n].fields = messages[n].fields
        /\ \A n \in DOMAIN messages : n # t => messages'[n] = messages[n]
    BY <2>7 DEF Alters
  <2>10. CallsInv'
    BY <1>1, <1>2, <1>5, <2>9 DEF CallsInv
  <2>11. CASE complaint = None
    <3>1. phase' = phase /\ error' = error
      BY <2>4, <2>11
    <3>2. Len(messages[t].fields) = 2
      BY <2>5, <2>11
    <3>3. \A n \in DOMAIN messages : IsPair(n) \/ n = t => IsPair(n)'
      BY <2>7, <2>9, <3>2 DEF IsPair
    <3>4. ASSUME NEW n \in processed, NEW j \in DOMAIN messages[n].fields, messages[n].fields[j].assoc
          PROVE  IsPair(messages[n].fields[j].to)' \/ Ahead(n, j)'
      <4>1. PICK g, s : g = messages[n].fields[j] /\ s = messages[n].fields[j].to
        OBVIOUS
      <4>2. n \in DOMAIN messages
        BY <1>2 DEF CallsInv
      <4>3. Fits(n, messages[n].fields[j])
        BY <1>2, <4>2 DEF IRInv, MessageInv
      <4>4. s \in DOMAIN messages
        BY <3>4, <4>1, <4>3 DEF Fits
      <4>5. IsPair(s) \/ Ahead(n, j)' \/ (n = m /\ j = i)
        BY <1>7, <3>4, <4>1
      <4>6. n = m /\ j = i => s = t
        BY <1>4, <2>1, <4>1
      <4>7. IsPair(s)' \/ Ahead(n, j)'
        BY <3>3, <4>4, <4>5, <4>6
      <4>8. s = messages'[n].fields[j].to
        BY <2>9, <4>1, <4>2
      <4> QED
        BY <4>7, <4>8 DEF IsPair
    <3>5. \A n : Associated(n)' <=> Associated(n)
      BY <2>9 DEF Associated
    <3>6. Associated(t)
      BY <1>4, <1>9, <2>1 DEF Associated
    <3>7. PairsInv'
      <4>1. \A n \in DOMAIN messages' : messages'[n].pair => Associated(n)'
        BY <1>2, <2>9, <3>5, <3>6 DEF PairsInv
      <4>2. \A n \in processed' : \A j \in DOMAIN messages'[n].fields :
              messages'[n].fields[j].assoc => (IsPair(messages[n].fields[j].to) \/ Ahead(n, j))'
        BY <1>1, <1>2, <2>9, <3>4 DEF CallsInv
      <4> QED
        BY <4>1, <4>2 DEF PairsInv
    <3>8. ProcessInv' /\ ParseInv'
      BY <1>2, <2>8, <3>1, <3>7 DEF ProcessInv, ParseInv
    <3>9. PhaseInv'
      BY <1>1, <1>2, <3>1 DEF PhaseInv, generation
    <3> QED
      BY <2>8, <2>10, <3>8, <3>9 DEF CompilerInv
  <2>12. CASE complaint # None
    <3>1. phase' = "rejected" /\ error' = "pair size"
      BY <2>4, <2>5, <2>12 DEF Reject
    <3>2. "pair size" \notin Internal /\ "pair size" # None
      BY DEF Internal, None
    <3>3. PhaseInv'
      BY <3>1, <3>2 DEF PhaseInv
    <3>4. ProcessInv' /\ ParseInv'
      BY <3>1 DEF ProcessInv, ParseInv
    <3> QED
      BY <2>8, <2>10, <3>3, <3>4 DEF CompilerInv
  <2> QED
    BY <2>11, <2>12
<1> QED
  BY <1>8, <1>9

LEMMA CallPopped ==
  ASSUME NEW E, NEW before \in Seq(E), before # <<>>, NEW after, after = Front(before)
  PROVE  /\ after \in Seq(E)
         /\ \A k \in DOMAIN before : k # Len(before) => k \in DOMAIN after /\ after[k] = before[k]
  BY DEF Front

LEMMA ProcessReturnPreserves ==
  ASSUME CompilerInv, ProcessReturn
  PROVE  CompilerInv'
<1>1. /\ phase = "process" /\ calls # <<>> /\ calls' = Front(calls)
      /\ Last(calls).i > Len(messages[Last(calls).msg].fields)
      /\ Given /\ UNCHANGED ir /\ phase' = phase /\ error' = error
      /\ pending' = pending /\ processed' = processed /\ generation' = generation
  BY DEF ProcessReturn, Given
<1>2. /\ IRInv /\ CallsInv /\ PhaseInv
      /\ KeptAll /\ DefinedInv /\ ProcessedInv /\ PairsInv
  BY <1>1 DEF CompilerInv, ProcessInv
<1>3. /\ IRInv' /\ KeptAll' /\ DefinedInv'
      /\ \A n : (Laid(n)' <=> Laid(n)) /\ (Fresh(n)' <=> Fresh(n))
      /\ \A n : (IsPair(n)' <=> IsPair(n)) /\ (Associated(n)' <=> Associated(n))
  BY <1>1, <1>2, IRStands
<1>4. ProcessedInv'
  BY <1>1, <1>2, <1>3, ProcessedKept
<1>5. messages' = messages
  BY <1>1 DEF ir
<1> DEFINE E == [msg : processed, i : Nat \ {0}]
<1>6. calls \in Seq(E)
  BY <1>2 DEF CallsInv
<1> HIDE DEF E
<1>7. /\ calls' \in Seq(E)
      /\ \A k \in DOMAIN calls : k # Len(calls) => k \in DOMAIN calls' /\ calls'[k] = calls[k]
  BY <1>1, <1>6, CallPopped
<1>8. Last(calls) \in E /\ Last(calls) = calls[Len(calls)]
  BY <1>1, <1>6, LastCall
<1>9. ASSUME NEW n \in DOMAIN messages, NEW j \in DOMAIN messages[n].fields, Ahead(n, j)
      PROVE  Ahead(n, j)'
  <2>1. PICK k \in DOMAIN calls : calls[k].msg = n /\ calls[k].i <= j
    BY <1>9 DEF Ahead
  <2>2. messages[n].fields \in Seq(IRField)
    BY <1>2 DEF IRInv, TypesInv, IsMessageDef
  <2>3. j \in Nat /\ j <= Len(messages[n].fields) /\ Len(messages[n].fields) \in Nat
    BY <2>2
  <2>4. k # Len(calls)
    <3>1. SUFFICES ASSUME k = Len(calls) PROVE FALSE
      OBVIOUS
    <3>2. PICK i, l : i = Last(calls).i /\ l = Len(messages[n].fields)
      OBVIOUS
    <3>3. i > l /\ i <= j /\ j <= l /\ i \in Nat /\ l \in Nat /\ j \in Nat
      BY <1>1, <1>8, <2>1, <2>3, <3>1, <3>2 DEF E
    <3> QED
      BY ONLY <3>3
  <2> QED
    BY <1>7, <2>1, <2>4 DEF Ahead
<1>10. PairsInv'
  <2>1. \A n \in processed : n \in DOMAIN messages
    BY <1>2 DEF CallsInv
  <2>2. ASSUME NEW n \in processed', NEW j \in DOMAIN messages'[n].fields, messages'[n].fields[j].assoc
        PROVE  IsPair(messages[n].fields[j].to)' \/ Ahead(n, j)'
    <3>1. PICK s : s = messages[n].fields[j].to
      OBVIOUS
    <3>2. IsPair(s) \/ Ahead(n, j)
      BY <1>1, <1>2, <1>5, <2>2, <3>1 DEF PairsInv
    <3>3. IsPair(s)' \/ Ahead(n, j)'
      BY <1>1, <1>3, <1>5, <1>9, <2>1, <2>2, <3>2
    <3> QED
      BY <1>5, <3>1, <3>3 DEF IsPair
  <2>3. \A n \in DOMAIN messages' : messages'[n].pair => Associated(n)'
    BY <1>2, <1>3, <1>5 DEF PairsInv
  <2>4. \A n \in processed' : \A j \in DOMAIN messages'[n].fields :
          messages'[n].fields[j].assoc => (IsPair(messages[n].fields[j].to) \/ Ahead(n, j))'
    BY <2>2
  <2> QED
    BY <2>3, <2>4 DEF PairsInv
<1>11. CallsInv'
  BY <1>1, <1>2, <1>5, <1>7 DEF CallsInv, E
<1>12. ProcessInv' /\ ParseInv'
  BY <1>1, <1>3, <1>4, <1>10 DEF ProcessInv, ParseInv
<1>13. PhaseInv'
  BY <1>1, <1>2 DEF PhaseInv, generation
<1> QED
  BY <1>3, <1>11, <1>12, <1>13 DEF CompilerInv

-----------------------------------------------------------------------------
(* Generation keeps the IR.                                            *)

(* What does not touch the IR keeps the invariant of the processor.        *)
LEMMA IRStays ==
  ASSUME CompilerInv, Given, UNCHANGED <<ir, error, processing>>,
         phase \in {"process", "order", "generate", "done"}, phase' \in {"order", "generate", "done"},
         phase = "process" => pending = {} /\ calls = <<>>
  PROVE  CompilerInv'
<1>1. messages' = messages /\ pending' = pending /\ processed' = processed /\ calls' = calls
  BY DEF ir, processing
<1>2. /\ IRInv /\ CallsInv /\ PhaseInv
      /\ KeptAll /\ DefinedInv /\ ProcessedInv /\ PairsInv
      /\ pending = {} /\ calls = <<>>
  BY DEF CompilerInv, ProcessInv
<1>3. /\ IRInv' /\ KeptAll' /\ DefinedInv'
      /\ \A n : (Laid(n)' <=> Laid(n)) /\ (Fresh(n)' <=> Fresh(n))
      /\ \A n : (IsPair(n)' <=> IsPair(n)) /\ (Associated(n)' <=> Associated(n))
  BY <1>2, IRStands
<1>4. ProcessedInv'
  BY <1>1, <1>2, <1>3, ProcessedKept
<1>5. PairsInv'
  <2>1. \A n, i : Ahead(n, i)' <=> Ahead(n, i)
    BY <1>1 DEF Ahead
  <2> QED
    BY <1>1, <1>2, <1>3, <2>1 DEF PairsInv
<1>6. CallsInv'
  BY <1>1, <1>2 DEF CallsInv
<1>7. ProcessInv' /\ ParseInv'
  BY <1>1, <1>2, <1>3, <1>4, <1>5 DEF ProcessInv, ParseInv
<1>8. PhaseInv'
  BY <1>2 DEF PhaseInv
<1> QED
  BY <1>3, <1>6, <1>7, <1>8 DEF CompilerInv

(* Refused, the compiler keeps what it has; nothing else is said of it.     *)
LEMMA RefusalStays ==
  ASSUME CompilerInv, GenerationThrows
  PROVE  CompilerInv'
<1>1. /\ phase = "generate" /\ phase' = "rejected" /\ error' = "unknown message layout" /\ Given
      /\ messages' = messages /\ pending' = pending /\ processed' = processed /\ calls' = calls
      /\ UNCHANGED ir
  BY DEF GenerationThrows, MessagesOrdered, Generating, Reject, Given, ir, processing
<1>2. IRInv /\ CallsInv /\ PhaseInv /\ ProcessedInv /\ KeptAll /\ DefinedInv
  BY <1>1 DEF CompilerInv, ProcessInv
<1>3. IRInv'
  BY <1>1, <1>2, IRStands
<1>4. CallsInv'
  BY <1>1, <1>2 DEF CallsInv
<1>5. ProcessInv' /\ ParseInv'
  BY <1>1 DEF ProcessInv, ParseInv
<1>6. PhaseInv'
  <2>1. "unknown message layout" \notin Internal /\ "unknown message layout" # None
    BY DEF Internal, None
  <2> QED
    BY <1>1, <2>1 DEF PhaseInv
<1> QED
  BY <1>3, <1>4, <1>5, <1>6 DEF CompilerInv

Generates ==
  \/ OrderSchemas \/ SchemaVisited \/ SchemasOrdered
  \/ \E file \in DOMAIN schemas : VisitSchema(file)
  \/ \E m \in DOMAIN messages : VisitMessage(m)
  \/ MessageVisited \/ GenerationThrows \/ SchemaGenerated \/ Finish

LEMMA GeneratesPreserves ==
  ASSUME CompilerInv, Generates
  PROVE  CompilerInv'
<1>1. CASE OrderSchemas
  BY <1>1, IRStays DEF OrderSchemas, Given
<1>2. CASE SchemaVisited
  BY <1>2, IRStays DEF SchemaVisited, Given
<1>3. CASE SchemasOrdered
  BY <1>3, IRStays DEF SchemasOrdered, Given
<1>4. ASSUME NEW file \in DOMAIN schemas, VisitSchema(file) PROVE CompilerInv'
  BY <1>4, IRStays DEF VisitSchema, Given
<1>5. ASSUME NEW m \in DOMAIN messages, VisitMessage(m) PROVE CompilerInv'
  BY <1>5, IRStays DEF VisitMessage, Generating, Given
<1>6. CASE MessageVisited
  BY <1>6, IRStays DEF MessageVisited, Generating, Given
<1>7. CASE SchemaGenerated
  BY <1>7, IRStays DEF SchemaGenerated, Generating, Given
<1>8. CASE Finish
  <2>1. phase = "generate" /\ phase' = "done" /\ Given /\ UNCHANGED <<ir, error, processing>>
    BY <1>8 DEF Finish, Given
  <2> QED
    BY <2>1, IRStays
<1>9. CASE GenerationThrows
  BY <1>9, RefusalStays
<1> QED
  BY <1>1, <1>2, <1>3, <1>4, <1>5, <1>6, <1>7, <1>8, <1>9 DEF Generates

-----------------------------------------------------------------------------
(* The invariant.                                                          *)

(* The invariant holds before anything has been read,                      *)
LEMMA Starts ==
  ASSUME Init
  PROVE  CompilerInv
<1>1. IRInv /\ ParseInv /\ phase = "parse" /\ error = None
  BY StartsEmpty DEF Init, FrontEndInit
<1>2. /\ pending = {} /\ processed = {} /\ calls = <<>>
      /\ order = <<>> /\ used = {} /\ walk = <<>> /\ output = <<>>
  BY DEF Init
<1>3. CallsInv
  <2>1. << >> \in Seq([msg : processed, i : Nat \ {0}])
    OBVIOUS
  <2> QED
    BY <1>2, <2>1 DEF CallsInv
<1>4. ProcessInv
  BY <1>1 DEF ProcessInv
<1>5. PhaseInv
  BY <1>1, <1>2 DEF PhaseInv, Internal, None
<1> QED
  BY <1>1, <1>3, <1>4, <1>5 DEF CompilerInv

(* and the front end's part of it survives a stutter;                      *)
LEMMA ParseStutters ==
  ASSUME ParseInv, Given, UNCHANGED <<parsing, ir, phase>>
  PROVE  ParseInv'
<1> SUFFICES ASSUME phase \in {"parse", "check"}
             PROVE  StackInv' /\ OpenInv' /\ ReachInv' /\ (\E T \in SUBSET Message : Seen(T))'
  BY DEF ParseInv
<1>1. PICK T \in SUBSET Message : Seen(T)
  BY DEF ParseInv
<1>2. StackInv /\ OpenInv /\ ReachInv
  BY DEF ParseInv
<1>3. /\ stack' = stack /\ todo' = todo /\ result' = result /\ messages' = messages /\ phase' = phase
      /\ program' = program
  BY DEF parsing, ir, Given
<1>4. StackInv'
  <2>1. /\ \A c, n : Awaits(c, n)' <=> Awaits(c, n)
        /\ \A c : NestedCall(c)' <=> NestedCall(c)
        /\ OpenCall' = OpenCall /\ Message' = Message
    BY AwaitsStatic
  <2>2. \A k \in DOMAIN stack : \A c : c = stack[k] => FieldsCall(c)'
    BY <1>2, <1>3, CallsSame DEF StackInv
  <2>3. (\A k \in DOMAIN stack : NestedCall(stack[k]) /\ FieldsCall(stack[k]))'
    BY <1>2, <1>3, <2>1, <2>2 DEF StackInv
  <2>4. (\A k \in DOMAIN stack : k < Len(stack) => Awaits(stack[k], stack[k + 1].msg))'
    BY <1>2, <1>3, <2>1 DEF StackInv
  <2> QED
    BY <1>2, <1>3, <2>1, <2>3, <2>4 DEF StackInv
<1>5. Follows({}, {})
  BY <1>3 DEF Follows, IsOpen
<1>6. ReachInv' /\ OpenInv'
  BY <1>2, <1>3, <1>5, ReachSame, OpenSame
<1>7. Seen(T)'
  <2>1. SeenMessages(T)'
    BY <1>1, <1>3, SeenMessagesSame DEF Seen
  <2>2. SeenNested(T)'
    BY <1>1, <1>3, SeenNestedStep DEF Seen
  <2>3. SeenTypes(T)'
    <3>1. \A t : \A j : FieldAhead(t, j) => FieldAhead(t, j)'
      BY <1>3 DEF FieldAhead
    <3> QED
      BY <1>1, <1>3, <3>1, SeenTypesStep DEF Seen
  <2>4. SeenRoots(T)'
    BY <1>1, <1>3, SeenRootsStep DEF Seen
  <2>5. SeenResult(T)'
    <3>1. \A c, n : Awaits(c, n)' <=> Awaits(c, n)
      BY AwaitsStatic
    <3>2. \A n : Kept(n)' <=> Kept(n)
      BY KeptStatic
    <3> QED
      BY <1>1, <1>3, <3>1, <3>2 DEF Seen, SeenResult, Top
  <2> QED
    BY <2>1, <2>2, <2>3, <2>4, <2>5 DEF Seen
<1>8. Message' = Message
  BY Statics
<1> QED
  BY <1>4, <1>6, <1>7, <1>8

(* every step keeps it,                                                    *)
LEMMA Preserves ==
  ASSUME CompilerInv, [Next]_vars
  PROVE  CompilerInv'
<1>1. CASE Parse /\ UNCHANGED <<processing, generation>>
  BY <1>1, ParsePreserves
<1>2. CASE ProcessSchemas
  BY <1>2, ProcessSchemasPreserves
<1>3. ASSUME NEW m \in Message, ProcessNext(m) PROVE CompilerInv'
  BY <1>3, ProcessNextPreserves
<1>4. ASSUME NEW f, ProcessType(f) \/ CompleteField(f) PROVE CompilerInv'
  BY <1>4, ProcessTypePreserves, CompleteFieldPreserves
<1>5. CASE ProcessReturn
  BY <1>5, ProcessReturnPreserves
<1>6. CASE Generates
  BY <1>6, GeneratesPreserves
<1>7. CASE UNCHANGED vars
  <2>1. Given /\ UNCHANGED <<parsing, ir, phase, error, processing, generation>>
    BY <1>7 DEF vars, Given
  <2>2. CASE phase \in {"order", "generate", "done"}
    BY <2>1, <2>2, IRStays
  <2>3. CASE phase \notin {"order", "generate", "done"}
    <3>1. IRInv' /\ CallsInv' /\ PhaseInv'
      <4>1. IRInv'
        BY <2>1, IRKept DEF CompilerInv
      <4>2. CallsInv'
        BY <2>1 DEF CompilerInv, CallsInv, ir, processing
      <4>3. PhaseInv'
        BY <2>1 DEF CompilerInv, PhaseInv, processing, generation
      <4> QED
        BY <4>1, <4>2, <4>3
    <3>2. ParseInv'
      BY <2>1, <2>3, ParseStutters DEF CompilerInv
    <3>3. ProcessInv'
      <4>1. CASE phase = "process"
        <5>1. /\ IRInv /\ KeptAll /\ DefinedInv /\ ProcessedInv /\ PairsInv
          BY <4>1 DEF CompilerInv, ProcessInv
        <5>2. /\ IRInv' /\ KeptAll' /\ DefinedInv'
              /\ \A n : (Laid(n)' <=> Laid(n)) /\ (Fresh(n)' <=> Fresh(n))
              /\ \A n : (IsPair(n)' <=> IsPair(n)) /\ (Associated(n)' <=> Associated(n))
          BY <2>1, <5>1, IRStands
        <5>3. messages' = messages /\ processed' = processed /\ pending' = pending /\ calls' = calls
          BY <2>1 DEF ir, processing
        <5>4. ProcessedInv'
          BY <2>1, <5>1, <5>2, <5>3, ProcessedKept
        <5>5. PairsInv'
          <6>1. \A n, i : Ahead(n, i)' <=> Ahead(n, i)
            BY <5>3 DEF Ahead
          <6> QED
            BY <5>1, <5>2, <5>3, <6>1 DEF PairsInv
        <5> QED
          BY <2>1, <4>1, <5>2, <5>4, <5>5 DEF ProcessInv
      <4>2. CASE phase # "process"
        BY <2>1, <2>3, <4>2 DEF ProcessInv
      <4> QED
        BY <4>1, <4>2
    <3> QED
      BY <3>1, <3>2, <3>3 DEF CompilerInv
  <2> QED
    BY <2>2, <2>3
<1> QED
  BY <1>1, <1>2, <1>3, <1>4, <1>5, <1>6, <1>7 DEF Next, Generates

(* so that it always holds.                                                *)
LEMMA Invariance ==
  Spec => []CompilerInv
<1>1. Init => CompilerInv
  BY Starts
<1>2. CompilerInv /\ [Next]_vars => CompilerInv'
  BY Preserves
<1> QED
  BY <1>1, <1>2, PTL DEF Spec

-----------------------------------------------------------------------------
(* What the invariant implies.                                             *)

(* It implies that the IR is well formed,                                  *)
LEMMA TypesFollow ==
  ASSUME CompilerInv
  PROVE  TypeOK
<1>1. TypesInv /\ SchemasInv /\ (\A m \in DOMAIN messages : MessageInv(m)) /\ CallsInv /\ PhaseInv
  BY DEF CompilerInv, IRInv
<1>2. \A file \in DOMAIN schemas : schemas[file].deps \subseteq DOMAIN schemas \ {file}
  BY <1>1 DEF SchemasInv, Imports
<1>3. \A e \in enums : EnumFile[e] \in DOMAIN schemas
  BY <1>1 DEF SchemasInv
<1>4. ASSUME NEW m \in DOMAIN messages
      PROVE  /\ m \in Range(schemas[File(m)].messages)
             /\ \A f \in Range(messages[m].fields) :
                  /\ f.to \in DOMAIN messages \cup {Null}
                  /\ f.deprecated <=> f.name = None
                  /\ f.deprecated => f.to = Null /\ f.type # "enum"
                  /\ f.type = "message" /\ ~f.deprecated => f.to # Null
  <2>1. m \in Range(schemas[File(m)].messages)
    BY <1>1 DEF MessageInv, Range
  <2>2. \A f \in Range(messages[m].fields) : Fits(m, f)
    BY <1>1 DEF MessageInv, Range
  <2> QED
    BY <2>1, <2>2 DEF Fits
<1> QED
  BY <1>1, <1>2, <1>3, <1>4 DEF TypeOK, CallsInv, PhaseInv

(* When all is processed, what is not is not defined.                      *)
LEMMA AllProcessed ==
  ASSUME CompilerInv, phase \in {"order", "generate", "done"}, NEW m \in DOMAIN messages
  PROVE  /\ messages[m].defined => m \in processed /\ Laid(m)
         /\ ~messages[m].defined => messages[m].fields = <<>> /\ messages[m].layout = "unknown"
         /\ messages[m].defined <=> IsTarget(File(m))
         /\ \A i : ~Ahead(m, i)
<1>1. IRInv /\ DefinedInv /\ ProcessedInv /\ pending = {} /\ calls = <<>>
  BY DEF CompilerInv, ProcessInv
<1>2. \A i : ~Ahead(m, i)
  BY <1>1 DEF Ahead
<1> QED
  BY <1>1, <1>2 DEF ProcessedInv, DefinedInv, IRInv, MessageInv

(* that layouts are dense when everything has been processed,              *)
LEMMA LayoutsFollow ==
  ASSUME CompilerInv
  PROVE  StaticLayoutsDense
<1> SUFFICES ASSUME phase = "done", NEW m \in DOMAIN messages, messages[m].layout \in {"flat", "fixed"},
                    NEW i \in DOMAIN messages[m].fields
             PROVE  /\ messages[m].fields[i].id = i
                    /\ Len(messages[m].fields) <= FieldLimit => \A j \in 1 .. i - 1 :
                         messages[m].fields[j].offset + InlineSize(messages[m].fields[j].type)
                           <= messages[m].fields[i].offset
  BY DEF StaticLayoutsDense
<1>1. Laid(m)
  BY AllProcessed
<1> QED
  BY <1>1 DEF Laid, NoOverlap, IsGapMessage

(* that no pair is left unmarked when no call is open,                     *)
LEMMA PairsFollow ==
  ASSUME CompilerInv
  PROVE  PairsWellFormed
<1> SUFFICES ASSUME phase = "done", NEW m \in DOMAIN messages
             PROVE  LET associated == \E n \in DOMAIN messages : \E f \in Range(messages[n].fields) :
                                        f.assoc /\ f.to = m
                    IN  /\ messages[m].pair <=> associated
                        /\ associated => D(m).map /\ Len(messages[m].fields) = 2
                                           /\ messages[m].fields[1].active = 1
  BY DEF PairsWellFormed
<1>1. IRInv /\ PairsInv
  BY DEF CompilerInv, ProcessInv
<1>2. Associated(m) <=> \E n \in DOMAIN messages : \E f \in Range(messages[n].fields) : f.assoc /\ f.to = m
  BY DEF Associated, Range
<1>3. messages[m].pair => Associated(m)
  BY <1>1 DEF PairsInv
<1>4. ASSUME Associated(m)
      PROVE  messages[m].pair /\ D(m).map /\ Len(messages[m].fields) = 2 /\ messages[m].fields[1].active = 1
  <2>1. PICK n \in DOMAIN messages : \E i \in DOMAIN messages[n].fields :
          messages[n].fields[i].assoc /\ messages[n].fields[i].to = m
    BY <1>4 DEF Associated
  <2>2. PICK i \in DOMAIN messages[n].fields : messages[n].fields[i].assoc /\ messages[n].fields[i].to = m
    BY <2>1
  <2>3. Fits(n, messages[n].fields[i])
    BY <1>1 DEF IRInv, MessageInv
  <2>4. D(m).map /\ File(m) = File(n)
    BY <2>2, <2>3 DEF Fits
  <2>5. messages[n].defined
    BY AllProcessed
  <2>6. n \in processed /\ messages[m].defined /\ Laid(m) /\ ~Ahead(n, i)
    BY <2>4, <2>5, AllProcessed
  <2>7. IsPair(m)
    BY <1>1, <2>2, <2>6 DEF PairsInv
  <2> QED
    BY <2>4, <2>6, <2>7 DEF IsPair, Laid
<1> QED
  BY <1>2, <1>3, <1>4

(* The live fields have the names of the wanted fields.                    *)
LEMMA LiveNames ==
  ASSUME TypesInv, NEW m \in Message, NEW fields, LiveIn(fields, m, Len(Collected(m)))
  PROVE  LET live == {i \in DOMAIN fields : ~fields[i].deprecated}
         IN  {fields[i].name : i \in live} = {f.name : f \in {g \in Range(Collected(m)) : Wanted(g)}}
<1> DEFINE live == {i \in DOMAIN fields : ~fields[i].deprecated}
           kept == {g \in Range(Collected(m)) : Wanted(g)}
<1>1. DOMAIN Collected(m) = 1 .. Len(Collected(m))
  BY CollectedTyped
<1>2. \A i \in live : \E f \in kept : fields[i].name = f.name
  BY <1>1 DEF LiveIn, Range
<1>3. \A f \in kept : \E i \in live : fields[i].name = f.name
  BY <1>1 DEF LiveIn, Range
<1> HIDE DEF live, kept
<1>4. {fields[i].name : i \in live} = {f.name : f \in kept}
  BY <1>2, <1>3
<1> QED
  BY <1>4 DEF live, kept

(* and that every message is there once.                                   *)
LEMMA MessagesFollow ==
  ASSUME CompilerInv
  PROVE  EveryMessageOnce
<1> SUFFICES ASSUME phase \in {"check", "done"} PROVE EveryMessageOnce
  BY DEF EveryMessageOnce
<1>1. TypesInv /\ SchemasInv /\ \A m \in DOMAIN messages : MessageInv(m)
  BY DEF CompilerInv, IRInv
<1>2. /\ KeptAll
      /\ \A m \in DOMAIN messages :
           /\ messages[m].defined <=> IsTarget(File(m))
           /\ messages[m].defined => LiveIn(messages[m].fields, m, Len(Collected(m)))
           /\ ~messages[m].defined => messages[m].fields = <<>>
  <2>1. CASE phase = "check"
    BY <2>1, FrontEndDone DEF FieldsIn
  <2>2. CASE phase = "done"
    BY <2>2 DEF CompilerInv, ProcessInv, DefinedInv
  <2> QED
    BY <2>1, <2>2
<1>3. ASSUME NEW m \in DOMAIN messages
      PROVE  LET fields == messages[m].fields
                 live == {i \in DOMAIN fields : ~fields[i].deprecated}
                 kept == {f \in Range(Collected(m)) : f.type \in Message => Kept(f.type)}
                 registered == schemas[File(m)].messages
             IN  /\ \E i \in DOMAIN registered : \A j \in DOMAIN registered : registered[j] = m <=> j = i
                 /\ messages[m].defined = IsTarget(File(m))
                 /\ messages[m].nested =
                      Only(D(m).nested, {i \in DOMAIN D(m).nested : LET n == D(m).nested[i] IN ~D(n).map /\ Kept(n)})
                 /\ {fields[i].name : i \in live} = IF messages[m].defined THEN {f.name : f \in kept} ELSE {}
                 /\ \A i, j \in live : fields[i].name = fields[j].name => i = j
  <2> DEFINE fields == messages[m].fields
             live == {i \in DOMAIN fields : ~fields[i].deprecated}
             kept == {f \in Range(Collected(m)) : Wanted(f)}
             registered == schemas[File(m)].messages
  <2>1. m \in Message /\ MessageInv(m) /\ messages[m].defined \in BOOLEAN
    BY <1>1 DEF TypesInv, IsMessageDef
  <2>2. \E i \in DOMAIN registered : \A j \in DOMAIN registered : registered[j] = m <=> j = i
    <3>1. PICK i \in DOMAIN registered : registered[i] = m
      BY <2>1 DEF MessageInv
    <3>2. File(m) \in DOMAIN schemas
      BY <2>1 DEF MessageInv
    <3> QED
      BY <1>1, <3>1, <3>2 DEF SchemasInv
  <2>3. messages[m].defined = IsTarget(File(m))
    BY <1>2, <2>1 DEF IsTarget
  <2>4. messages[m].nested = Only(D(m).nested, KeptPlaces(m))
    BY <2>1 DEF MessageInv
  <2>5. {fields[i].name : i \in live} = IF messages[m].defined THEN {f.name : f \in kept} ELSE {}
    <3>1. CASE messages[m].defined
      BY <1>1, <1>2, <2>1, <3>1, LiveNames
    <3>2. CASE ~messages[m].defined
      <4>1. live = {}
        BY <1>2, <3>2
      <4> QED
        BY <3>2, <4>1
    <3> QED
      BY <3>1, <3>2
  <2>6. \A i, j \in live : fields[i].name = fields[j].name => i = j
    <3>1. CASE messages[m].defined
      BY <1>2, <3>1 DEF LiveIn
    <3>2. CASE ~messages[m].defined
      BY <1>2, <3>2
    <3> QED
      BY <3>1, <3>2
  <2> QED
    BY <2>2, <2>3, <2>4, <2>5, <2>6 DEF KeptPlaces, Wanted
<1> QED
  BY <1>2, <1>3 DEF EveryMessageOnce, KeptAll


-----------------------------------------------------------------------------
(* A walk, depth first: what is done, and the path to what is open.        *)

Walking(E, leads, done, open) ==
  /\ done \in Seq(E) /\ open \in Seq(E)
  /\ \A i, j \in DOMAIN done : done[i] = done[j] => i = j
  /\ \A i, j \in DOMAIN open : open[i] = open[j] => i = j
  /\ \A i \in DOMAIN done : \A j \in DOMAIN open : done[i] # open[j]
  /\ \A k \in 1 .. Len(open) - 1 : open[k + 1] \in leads[open[k]]

(* after is before, then e.                                                *)
Ends(after, before, e) ==
  /\ DOMAIN before = 1 .. Len(before) /\ Len(before) \in Nat
  /\ Len(after) = Len(before) + 1 /\ DOMAIN after = 1 .. Len(before) + 1
  /\ \A i \in 1 .. Len(before) : after[i] = before[i]
  /\ after[Len(before) + 1] = e

LEMMA AppendEnds ==
  ASSUME NEW E, NEW s \in Seq(E), NEW e \in E
  PROVE  /\ Append(s, e) \in Seq(E) /\ Ends(Append(s, e), s, e)
         /\ Range(Append(s, e)) = Range(s) \cup {e}
<1>1. Append(s, e) \in Seq(E) /\ Ends(Append(s, e), s, e)
  BY Appended DEF Ends
<1>2. Range(Append(s, e)) = Range(s) \cup {e}
  BY <1>1 DEF Ends, Range
<1> QED
  BY <1>1, <1>2

LEMMA FrontEnds ==
  ASSUME NEW E, NEW s \in Seq(E), s # <<>>
  PROVE  Front(s) \in Seq(E) /\ Ends(s, Front(s), Last(s)) /\ Last(s) \in E
<1>1. Len(s) \in Nat /\ Len(s) >= 1 /\ DOMAIN s = 1 .. Len(s) /\ Last(s) \in E /\ Last(s) = s[Len(s)]
  BY LastCall
<1>2. /\ Front(s) \in Seq(E) /\ Len(Front(s)) = Len(s) - 1 /\ DOMAIN Front(s) = 1 .. Len(s) - 1
      /\ \A k \in 1 .. Len(s) - 1 : Front(s)[k] = s[k]
  BY FrontIs
<1>3. Len(Front(s)) \in Nat /\ Len(s) = Len(Front(s)) + 1
  BY <1>1, <1>2
<1> QED
  BY <1>1, <1>2, <1>3 DEF Ends

(* A walk goes on to what its last element leads to.                       *)
LEMMA WalkEntered ==
  ASSUME NEW E, NEW leads, NEW done, NEW open, Walking(E, leads, done, open), NEW e \in E,
         \A i \in DOMAIN done : done[i] # e, \A j \in DOMAIN open : open[j] # e,
         open # <<>> => e \in leads[Last(open)]
  PROVE  Walking(E, leads, done, Append(open, e)) /\ Range(Append(open, e)) = Range(open) \cup {e}
<1>1. PICK after : after = Append(open, e)
  OBVIOUS
<1>2. after \in Seq(E) /\ Ends(after, open, e) /\ Range(after) = Range(open) \cup {e}
  BY <1>1, AppendEnds DEF Walking
<1>3. \A j \in DOMAIN after : (j \in DOMAIN open /\ after[j] = open[j]) \/ (j = Len(open) + 1 /\ after[j] = e)
  BY <1>2 DEF Ends
<1>4. \A i, j \in DOMAIN after : after[i] = after[j] => i = j
  BY <1>3 DEF Walking
<1>5. \A i \in DOMAIN done : \A j \in DOMAIN after : done[i] # after[j]
  BY <1>3 DEF Walking
<1>6. ASSUME NEW k \in 1 .. Len(after) - 1 PROVE after[k + 1] \in leads[after[k]]
  <2>1. k \in 1 .. Len(open) /\ Len(open) \in Nat
    BY <1>2 DEF Ends
  <2>2. CASE k = Len(open)
    <3>1. open # <<>> /\ open \in Seq(E)
      BY <2>1, <2>2 DEF Walking
    <3>2. Last(open) = open[k] /\ after[k] = open[k] /\ after[k + 1] = e
      BY <1>2, <2>1, <2>2, <3>1, LastCall DEF Ends
    <3> QED
      BY <3>1, <3>2
  <2>3. CASE k # Len(open)
    <3>1. k \in 1 .. Len(open) - 1 /\ k + 1 \in 1 .. Len(open)
      BY <2>1, <2>3
    <3>2. after[k] = open[k] /\ after[k + 1] = open[k + 1]
      BY <1>2, <2>1, <3>1 DEF Ends
    <3> QED
      BY <3>1, <3>2 DEF Walking
  <2> QED
    BY <2>2, <2>3
<1> QED
  BY <1>1, <1>2, <1>4, <1>5, <1>6 DEF Walking

(* The last element of a walk is done.                                     *)
LEMMA WalkLeft ==
  ASSUME NEW E, NEW leads, NEW done, NEW open, Walking(E, leads, done, open), open # <<>>
  PROVE  /\ Walking(E, leads, Append(done, Last(open)), Front(open)) /\ Last(open) \in E
         /\ Range(Append(done, Last(open))) = Range(done) \cup {Last(open)}
         /\ Range(open) = Range(Front(open)) \cup {Last(open)}
<1>1. PICK e, rest : e = Last(open) /\ rest = Front(open)
  OBVIOUS
<1>2. rest \in Seq(E) /\ Ends(open, rest, e) /\ e \in E
  BY <1>1, FrontEnds DEF Walking
<1>3. PICK after : after = Append(done, e)
  OBVIOUS
<1>4. after \in Seq(E) /\ Ends(after, done, e) /\ Range(after) = Range(done) \cup {e}
  BY <1>2, <1>3, AppendEnds DEF Walking
<1>5. Range(open) = Range(rest) \cup {e}
  BY <1>2 DEF Ends, Range
<1>6. \A j \in DOMAIN rest : j \in DOMAIN open /\ rest[j] = open[j] /\ rest[j] # e
  BY <1>2 DEF Ends, Walking
<1>7. \A i \in DOMAIN after : (i \in DOMAIN done /\ after[i] = done[i]) \/ (i = Len(done) + 1 /\ after[i] = e)
  BY <1>4 DEF Ends
<1>8. Len(open) \in DOMAIN open /\ open[Len(open)] = e
  BY <1>2 DEF Ends
<1>9. \A i \in DOMAIN done : done[i] # e
  BY <1>8 DEF Walking
<1>10. \A i, j \in DOMAIN after : after[i] = after[j] => i = j
  BY <1>7, <1>9 DEF Walking
<1>11. \A i, j \in DOMAIN rest : rest[i] = rest[j] => i = j
  BY <1>6 DEF Walking
<1>12. \A i \in DOMAIN after : \A j \in DOMAIN rest : after[i] # rest[j]
  BY <1>6, <1>7 DEF Walking
<1>13. ASSUME NEW k \in 1 .. Len(rest) - 1 PROVE rest[k + 1] \in leads[rest[k]]
  <2>1. k \in 1 .. Len(open) - 1 /\ k \in 1 .. Len(rest) /\ k + 1 \in 1 .. Len(rest)
    BY <1>2 DEF Ends
  <2>2. rest[k] = open[k] /\ rest[k + 1] = open[k + 1]
    BY <1>2, <2>1 DEF Ends
  <2> QED
    BY <2>1, <2>2 DEF Walking
<1> QED
  BY <1>1, <1>2, <1>3, <1>4, <1>5, <1>10, <1>11, <1>12, <1>13 DEF Walking

(* What is open leads to the last of it.                                   *)
LEMMA OpenLeads ==
  ASSUME NEW E, NEW leads, NEW done, NEW open, Walking(E, leads, done, open), NEW k \in DOMAIN open,
         NEW S, open[k] \in S, \A x \in S : leads[x] \subseteq S
  PROVE  Last(open) \in S
<1>1. /\ open \in Seq(E) /\ Len(open) \in Nat /\ DOMAIN open = 1 .. Len(open)
      /\ k \in Nat /\ k >= 1 /\ k <= Len(open) /\ open # <<>>
  BY DEF Walking
<1>2. PICK n : n = Len(open) - k
  OBVIOUS
<1>3. n \in Nat /\ Len(open) = k + n
  BY <1>1, <1>2
<1> DEFINE T == {l \in Nat : l <= n => open[k + l] \in S}
<1>4. 0 \in T
  BY <1>1, <1>3
<1>5. \A l \in 1 .. n : l - 1 \in T => l \in T
  <2> SUFFICES ASSUME NEW l \in 1 .. n, l - 1 \in T PROVE l \in T
    OBVIOUS
  <2>1. PICK j : j = k + (l - 1)
    OBVIOUS
  <2>2. j \in 1 .. Len(open) - 1 /\ j + 1 = k + l /\ l \in Nat
    BY <1>1, <1>3, <2>1
  <2>3. open[j] \in S
    BY <1>3, <2>1
  <2>4. open[j + 1] \in leads[open[j]]
    BY <2>2 DEF Walking
  <2> QED
    BY <2>2, <2>3, <2>4
<1> HIDE DEF T
<1>6. n \in T
  <2>1. \A l \in 0 .. n : l \in T
    BY <1>3, <1>4, <1>5, Upwards
  <2> QED
    BY <1>3, <2>1
<1>7. open[Len(open)] \in S
  BY <1>3, <1>6 DEF T
<1> QED
  BY <1>1, <1>7, LastCall

(* A way back to what is open is a cycle.                                  *)
LEMMA OpenCycle ==
  ASSUME NEW E, NEW leads, NEW done, NEW open, Walking(E, leads, done, open), NEW k \in DOMAIN open,
         open[k] \in leads[Last(open)]
  PROVE  \E S \in SUBSET E : S # {} /\ \A a \in S : \E b \in S : b \in leads[a]
<1>1. /\ open \in Seq(E) /\ Len(open) \in Nat /\ DOMAIN open = 1 .. Len(open)
      /\ k \in Nat /\ k >= 1 /\ k <= Len(open) /\ open # <<>> /\ Last(open) = open[Len(open)]
  <2>1. open \in Seq(E) /\ Len(open) \in Nat /\ DOMAIN open = 1 .. Len(open) /\ open # <<>>
    BY DEF Walking
  <2> QED
    BY <2>1, LastCall
<1> DEFINE S == {open[j] : j \in k .. Len(open)}
<1>2. S \in SUBSET E
  BY <1>1
<1>3. open[k] \in S
  BY <1>1
<1>4. ASSUME NEW a \in S PROVE \E b \in S : b \in leads[a]
  <2>1. PICK j \in k .. Len(open) : a = open[j]
    BY <1>4
  <2>2. CASE j = Len(open)
    BY <1>1, <1>3, <2>1, <2>2
  <2>3. CASE j # Len(open)
    <3>1. j + 1 \in k .. Len(open) /\ j \in 1 .. Len(open) - 1
      <4>1. PICK l : l = Len(open)
        OBVIOUS
      <4>2. k \in Nat /\ k >= 1 /\ l \in Nat /\ j \in k .. l /\ j # l
        BY ONLY <1>1, <2>1, <2>3, <4>1
      <4>3. j + 1 \in k .. l /\ j \in 1 .. l - 1
        BY ONLY <4>2
      <4> QED
        BY ONLY <4>1, <4>3
    <3>2. open[j + 1] \in leads[open[j]] /\ open[j + 1] \in S
      BY <3>1 DEF Walking
    <3> QED
      BY <2>1, <3>2
  <2> QED
    BY <2>2, <2>3
<1> QED
  BY <1>2, <1>3, <1>4

LEMMA TailIs ==
  ASSUME NEW E, NEW s \in Seq(E), s # <<>>
  PROVE  /\ Tail(s) \in Seq(E) /\ Len(s) \in Nat /\ Len(s) >= 1 /\ DOMAIN s = 1 .. Len(s)
         /\ DOMAIN Tail(s) = 1 .. Len(s) - 1
         /\ \A i \in 1 .. Len(s) - 1 : Tail(s)[i] = s[i + 1]
         /\ Head(s) = s[1] /\ Head(s) \in E
  OBVIOUS

-----------------------------------------------------------------------------
(* The invariant of the generation.                                        *)

Deps == [file \in DOMAIN schemas |-> schemas[file].deps]

Refers(m) == {f.to : f \in Range(messages[m].fields)} \ {Null}

(* What m refers to in its own file.                                       *)
Leads ==
  [m \in Message |-> IF m \in DOMAIN messages THEN {n \in Refers(m) : File(n) = File(m)} ELSE {}]

(* Each of s comes after what it leads to.                                 *)
LedFirst(leads, s) ==
  \A i \in DOMAIN s : \A d \in leads[s[i]] : \E j \in DOMAIN s : j < i /\ s[j] = d

(* The same, but for what is not in s and has been generated already.      *)
LedOrDone(leads, s) ==
  \A i \in DOMAIN s : \A d \in leads[s[i]] : d \in Range(s) => \E j \in DOMAIN s : j < i /\ s[j] = d

(* What is at i in done may refer to n.                                    *)
Justified(done, i, n) ==
  \/ \E j \in DOMAIN done : j < i /\ done[j] = n
  \/ File(n) = File(done[i]) /\ done[i] \in Closure({n}, Leads)
  \/ File(n) \in schemas[File(done[i])].deps /\ ~schemas[File(n)].defined

JustifiedAt(done, i) == messages[done[i]].defined /\ \A n \in Refers(done[i]) : Justified(done, i, n)

OrderInv ==
  phase = "order" =>
    /\ Walking(DOMAIN schemas, Deps, order, walk)
    /\ used = Range(order) \cup Range(walk)
    /\ LedFirst(Deps, order)
    /\ output = <<>>

(* The walk is in the first schema of the order; what has been generated   *)
(* is in the schemas that are not in the order any more, and in the first. *)
Remaining(o) ==
  /\ o \in Seq(DOMAIN schemas) /\ LedOrDone(Deps, o)
  /\ \A i, j \in DOMAIN o : o[i] = o[j] => i = j

WalkIn(o, u, w, out) ==
  /\ o = <<>> => w = <<>>
  /\ o # <<>> => /\ \A k \in DOMAIN w : File(w[k]) = Head(o) /\ messages[w[k]].defined
                 /\ u = Range(w) \cup {m \in Range(out) : File(m) = Head(o)}

OutputIn(o, out) ==
  /\ \A i \in DOMAIN out : JustifiedAt(out, i)
  /\ \A i \in DOMAIN out : File(out[i]) \in Range(o) => File(out[i]) = Head(o)
  /\ \A m \in DOMAIN messages : messages[m].defined /\ File(m) \notin Range(o) => m \in Range(out)

SoFar(o, u, w, out) ==
  /\ Remaining(o) /\ WalkIn(o, u, w, out) /\ OutputIn(o, out)
  /\ Walking(DOMAIN messages, Leads, out, w)

GenerateInv ==
  phase \in {"generate", "done"} =>
    /\ phase = "done" => order = <<>>
    /\ SoFar(order, used, walk, output)

GenerationInv == OrderInv /\ GenerateInv

(* The dependencies of schemas have no cycle.                              *)
LEMMA DepsEnd ==
  ASSUME CompilerInv, NEW S \in SUBSET DOMAIN schemas, S # {}, \A a \in S : \E b \in S : b \in Deps[a]
  PROVE  FALSE
<1>1. ImportsEnd(program) /\ SchemasInv
  BY DEF CompilerInv, IRInv, TypesInv, WellFormed
<1>2. \A a \in S : \E b \in S : Imports(program, a, b)
  BY <1>1 DEF SchemasInv, Deps
<1>3. S \in SUBSET {program.messages[m].file : m \in DOMAIN program.messages}
  BY <1>2 DEF Imports
<1> QED
  BY <1>1, <1>2, <1>3 DEF ImportsEnd

(* Nothing has been visited before the order is made.                      *)
LEMMA OrderStarts ==
  ASSUME CompilerInv, phase = "process"
  PROVE  /\ Walking(DOMAIN schemas, Deps, order, walk) /\ used = Range(order) \cup Range(walk)
         /\ LedFirst(Deps, order) /\ output = <<>>
<1>1. order = <<>> /\ used = {} /\ walk = <<>> /\ output = <<>>
  BY DEF CompilerInv, PhaseInv
<1>2. DOMAIN << >> = {} /\ Range(<< >>) = {} /\ Len(<< >>) = 0 /\ << >> \in Seq(DOMAIN schemas)
  BY DEF Range
<1>3. Walking(DOMAIN schemas, Deps, << >>, << >>)
  BY <1>2 DEF Walking
<1>4. LedFirst(Deps, << >>)
  BY <1>2 DEF LedFirst
<1> QED
  BY <1>1, <1>2, <1>3, <1>4

(* A schema is visited that the last one on the path depends on.           *)
LEMMA SchemaEntered ==
  ASSUME CompilerInv, OrderInv, NEW file \in DOMAIN schemas, VisitSchema(file)
  PROVE  OrderInv'
<1>1. /\ phase = "order" /\ file \notin used
      /\ file \in (IF walk = <<>> THEN DOMAIN schemas ELSE schemas[Last(walk)].deps)
      /\ used' = used \cup {file} /\ walk' = Append(walk, file)
      /\ phase' = phase /\ order' = order /\ output' = output /\ schemas' = schemas
  BY DEF VisitSchema, Enter, ir
<1>2. /\ Walking(DOMAIN schemas, Deps, order, walk) /\ used = Range(order) \cup Range(walk)
      /\ LedFirst(Deps, order) /\ output = <<>>
  BY <1>1 DEF OrderInv
<1>3. (\A i \in DOMAIN order : order[i] # file) /\ (\A j \in DOMAIN walk : walk[j] # file)
  BY <1>1, <1>2 DEF Range
<1>4. walk # <<>> => file \in Deps[Last(walk)]
  <2> SUFFICES ASSUME walk # <<>> PROVE file \in Deps[Last(walk)]
    OBVIOUS
  <2>1. Last(walk) \in DOMAIN schemas
    BY <1>2, LastCall DEF Walking
  <2> QED
    BY <1>1, <2>1 DEF Deps
<1>5. Walking(DOMAIN schemas, Deps, order, Append(walk, file)) /\ Range(Append(walk, file)) = Range(walk) \cup {file}
  <2>1. PICK deps : deps = Deps
    OBVIOUS
  <2> QED
    BY <1>2, <1>3, <1>4, <2>1, WalkEntered
<1>6. Deps' = Deps
  BY <1>1 DEF Deps
<1> QED
  BY <1>1, <1>2, <1>5, <1>6 DEF OrderInv

LEMMA LedAppended ==
  ASSUME NEW E, NEW leads, NEW s \in Seq(E), NEW e \in E, LedFirst(leads, s), leads[e] \subseteq Range(s)
  PROVE  LedFirst(leads, Append(s, e))
<1>1. PICK after : after = Append(s, e)
  OBVIOUS
<1>2. Ends(after, s, e)
  BY <1>1, AppendEnds
<1>3. \A i \in DOMAIN s : i \in DOMAIN after /\ after[i] = s[i] /\ i < Len(s) + 1
  BY <1>2 DEF Ends
<1>4. ASSUME NEW i \in DOMAIN after, NEW d \in leads[after[i]]
      PROVE  \E j \in DOMAIN after : j < i /\ after[j] = d
  <2>1. CASE i \in DOMAIN s
    <3>1. \E j \in DOMAIN s : j < i /\ s[j] = d
      BY <1>3, <1>4, <2>1 DEF LedFirst
    <3> QED
      BY <1>3, <3>1
  <2>2. CASE i \notin DOMAIN s
    <3>1. i = Len(s) + 1 /\ after[i] = e
      BY <1>2, <2>2 DEF Ends
    <3>2. PICK j \in DOMAIN s : s[j] = d
      BY <1>4, <3>1 DEF Range
    <3> QED
      BY <1>3, <3>1, <3>2
  <2> QED
    BY <2>1, <2>2
<1>5. LedFirst(leads, after)
  BY <1>4 DEF LedFirst
<1> QED
  BY <1>1, <1>5

(* A visited dependency is done, as it would close a cycle if it were      *)
(* open.                                                                   *)
LEMMA SchemaLeft ==
  ASSUME CompilerInv, OrderInv, SchemaVisited
  PROVE  OrderInv'
<1>1. /\ phase = "order" /\ walk # <<>> /\ schemas[Last(walk)].deps \subseteq used
      /\ order' = Append(order, Last(walk)) /\ walk' = Front(walk)
      /\ phase' = phase /\ used' = used /\ output' = output /\ schemas' = schemas
  BY DEF SchemaVisited, ir
<1>2. /\ Walking(DOMAIN schemas, Deps, order, walk) /\ used = Range(order) \cup Range(walk)
      /\ LedFirst(Deps, order) /\ output = <<>>
  BY <1>1 DEF OrderInv
<1>3. PICK deps, last : deps = Deps /\ last = Last(walk)
  OBVIOUS
<1>4. /\ Walking(DOMAIN schemas, deps, Append(order, last), Front(walk)) /\ last \in DOMAIN schemas
      /\ Range(Append(order, last)) = Range(order) \cup {last}
      /\ Range(walk) = Range(Front(walk)) \cup {last}
  BY <1>1, <1>2, <1>3, WalkLeft
<1>5. deps[last] \subseteq Range(order)
  <2> SUFFICES ASSUME NEW d \in deps[last], d \notin Range(order) PROVE FALSE
    OBVIOUS
  <2>1. d \in Range(walk)
    BY <1>1, <1>2, <1>3, <1>4 DEF Deps
  <2>2. PICK k \in DOMAIN walk : walk[k] = d
    BY <2>1 DEF Range
  <2>3. \E S \in SUBSET DOMAIN schemas : S # {} /\ \A a \in S : \E b \in S : b \in deps[a]
    BY <1>2, <1>3, <2>2, OpenCycle
  <2> QED
    BY <1>3, <2>3, DepsEnd
<1>6. LedFirst(deps, Append(order, last))
  BY <1>2, <1>3, <1>4, <1>5, LedAppended DEF Walking
<1>7. Deps' = deps
  BY <1>1, <1>3 DEF Deps
<1> QED
  BY <1>1, <1>2, <1>3, <1>4, <1>6, <1>7 DEF OrderInv

(* Everything is still to be generated when the order is complete.         *)
LEMMA OrderMade ==
  ASSUME CompilerInv, OrderInv, SchemasOrdered
  PROVE  GenerateInv'
<1>1. /\ phase = "order" /\ walk = <<>> /\ DOMAIN schemas \subseteq used
      /\ phase' = "generate" /\ used' = {} /\ order' = order /\ walk' = walk /\ output' = output
      /\ schemas' = schemas /\ messages' = messages /\ program' = program
  BY DEF SchemasOrdered, ir
<1>2. /\ Walking(DOMAIN schemas, Deps, order, walk) /\ used = Range(order) \cup Range(walk)
      /\ LedFirst(Deps, order) /\ output = <<>>
  BY <1>1 DEF OrderInv
<1>3. DOMAIN << >> = {} /\ Range(<< >>) = {} /\ Len(<< >>) = 0 /\ << >> \in Seq(DOMAIN messages)
  BY DEF Range
<1>4. DOMAIN schemas \subseteq Range(order)
  BY <1>1, <1>2, <1>3
<1>5. Remaining(order)
  BY <1>2 DEF Walking, Remaining, LedFirst, LedOrDone
<1>6. Remaining(order)'
  <2>1. Deps' = Deps
    BY <1>1 DEF Deps
  <2> QED
    BY <1>1, <1>5, <2>1 DEF Remaining
<1>7. WalkIn(order, used, walk, output)'
  BY <1>1, <1>2, <1>3 DEF WalkIn
<1>8. OutputIn(order, output)'
  <2>1. \A m \in DOMAIN messages : File(m) \in DOMAIN schemas
    BY DEF CompilerInv, IRInv, MessageInv
  <2>2. \A m : File(m)' = File(m)
    BY <1>1 DEF File, D
  <2> QED
    BY <1>1, <1>2, <1>3, <1>4, <2>1, <2>2 DEF OutputIn
<1>9. Walking(DOMAIN messages, Leads, output, walk)'
  BY <1>1, <1>2, <1>3 DEF Walking
<1> QED
  BY <1>1, <1>6, <1>7, <1>8, <1>9 DEF GenerateInv, SoFar

(* While definitions are generated the IR stands.                          *)
LEMMA GenerationStands ==
  ASSUME Given, UNCHANGED ir
  PROVE  /\ Deps' = Deps
         /\ \A o, u, w, out : SoFar(o, u, w, out)' <=> SoFar(o, u, w, out)
<1>1. schemas' = schemas /\ messages' = messages /\ program' = program
  BY DEF Given, ir
<1>2. \A m : File(m)' = File(m)
  BY <1>1 DEF File, D
<1>3. Leads' = Leads /\ Deps' = Deps /\ \A m : Refers(m)' = Refers(m)
  BY <1>1, <1>2 DEF Leads, Deps, Refers, Message
<1>4. \A done, i, n : Justified(done, i, n)' <=> Justified(done, i, n)
  <2>1. \A start, leads : Closure(start, leads)' = Closure(start, leads)
    BY <1>1 DEF Closure, Message
  <2> QED
    BY <1>1, <1>2, <1>3, <2>1 DEF Justified
<1>5. \A done, i : JustifiedAt(done, i)' <=> JustifiedAt(done, i)
  BY <1>1, <1>3, <1>4 DEF JustifiedAt
<1>6. \A o : Remaining(o)' <=> Remaining(o)
  BY <1>1, <1>3 DEF Remaining
<1>7. \A o, u, w, out : WalkIn(o, u, w, out)' <=> WalkIn(o, u, w, out)
  BY <1>1, <1>2 DEF WalkIn
<1>8. \A o, out : OutputIn(o, out)' <=> OutputIn(o, out)
  BY <1>1, <1>2, <1>5 DEF OutputIn
<1>9. \A w, out : Walking(DOMAIN messages, Leads, out, w)' <=> Walking(DOMAIN messages, Leads, out, w)
  BY <1>1, <1>3
<1> QED
  BY <1>3, <1>6, <1>7, <1>8, <1>9 DEF SoFar

(* References lists what a message refers to in its own file.              *)
LEMMA ReferencesAre ==
  ASSUME CompilerInv, NEW m \in DOMAIN messages
  PROVE  Range(References(m)) = Leads[m]
<1> DEFINE fields == messages[m].fields
           to == [i \in DOMAIN fields |-> fields[i].to]
           I == {i \in DOMAIN to : to[i] # Null /\ File(to[i]) = File(m)}
<1>1. m \in Message /\ fields \in Seq(IRField) /\ DOMAIN fields = 1 .. Len(fields) /\ Len(fields) \in Nat
  BY DEF CompilerInv, IRInv, TypesInv, IsMessageDef
<1>2. PICK E : \A i \in DOMAIN fields : fields[i].to \in E
  <2>1. \A i \in DOMAIN fields : fields[i].to \in {fields[j].to : j \in DOMAIN fields}
    OBVIOUS
  <2> QED
    BY <2>1
<1>3. to \in Seq(E) /\ DOMAIN to = DOMAIN fields /\ Len(to) = Len(fields)
  BY <1>1, <1>2
<1>4. References(m) = Only(to, I)
  BY DEF References
<1> HIDE DEF to, I
<1>5. Selection(E, Only(to, I), to, I, Len(to))
  BY <1>3, OnlySelects
<1>6. I \cap (1 .. Len(to)) = I
  BY <1>1, <1>3 DEF I
<1>7. PICK r : r = Only(to, I)
  OBVIOUS
<1>8. (\A i \in DOMAIN r : \E j \in I : r[i] = to[j]) /\ (\A j \in I : \E i \in DOMAIN r : r[i] = to[j])
  BY <1>5, <1>6, <1>7 DEF Selection
<1>9. Range(r) = {to[j] : j \in I}
  BY <1>8 DEF Range
<1>10. {to[j] : j \in I} = {n \in Refers(m) : File(n) = File(m)}
  <2>1. \A j \in DOMAIN fields : to[j] = fields[j].to
    BY DEF to
  <2>2. \A n : n \in Refers(m) <=> (n # Null /\ \E j \in DOMAIN fields : n = to[j])
    BY <2>1 DEF Refers, Range
  <2>3. \A n : n \in {to[j] : j \in I} <=> (n # Null /\ File(n) = File(m) /\ \E j \in DOMAIN fields : n = to[j])
    BY <1>3 DEF I
  <2> QED
    BY <2>2, <2>3
<1> QED
  BY <1>1, <1>4, <1>7, <1>9, <1>10 DEF Leads

(* How what is generated changes while the IR stands.                      *)
LEMMA Generated ==
  ASSUME Given, UNCHANGED ir, phase' \in {"generate", "done"}, phase' = "done" => order' = <<>>,
         NEW o, NEW u, NEW w, NEW out, SoFar(o, u, w, out),
         order' = o, used' = u, walk' = w, output' = out
  PROVE  GenerateInv'
<1>1. SoFar(o, u, w, out)'
  BY GenerationStands
<1>2. \A a, b, c, d : (a = order' /\ b = used' /\ c = walk' /\ d = output' /\ SoFar(a, b, c, d)')
                        => SoFar(order, used, walk, output)'
  OBVIOUS
<1>3. SoFar(order, used, walk, output)'
  BY <1>1, <1>2
<1> QED
  BY <1>3 DEF GenerateInv

(* A message is visited: it is of the schema that is first.                *)
LEMMA MessageEntered ==
  ASSUME CompilerInv, GenerateInv, NEW m \in DOMAIN messages, VisitMessage(m)
  PROVE  GenerateInv'
<1>1. /\ phase = "generate" /\ order # <<>> /\ schemas[Head(order)].defined
      /\ IsNext(m, IF walk = <<>> THEN schemas[Head(order)].messages ELSE References(Last(walk)))
      /\ used' = used \cup {m} /\ walk' = Append(walk, m)
      /\ Given /\ UNCHANGED ir /\ phase' = phase /\ order' = order /\ output' = output
  BY DEF VisitMessage, Generating, Enter, Given
<1>2. /\ Remaining(order) /\ WalkIn(order, used, walk, output) /\ OutputIn(order, output)
      /\ Walking(DOMAIN messages, Leads, output, walk)
  BY <1>1 DEF GenerateInv, SoFar
<1>3. PICK first : first = Head(order)
  OBVIOUS
<1>4. first \in DOMAIN schemas
  BY <1>1, <1>2, <1>3, TailIs DEF Remaining
<1>5. /\ \A k \in DOMAIN walk : File(walk[k]) = first /\ messages[walk[k]].defined
      /\ used = Range(walk) \cup {n \in Range(output) : File(n) = first}
  BY <1>1, <1>2, <1>3 DEF WalkIn
<1>6. /\ SchemasInv /\ DefinedInv
      /\ \A i \in DOMAIN schemas[first].messages : File(schemas[first].messages[i]) = first
  BY <1>1, <1>4 DEF CompilerInv, ProcessInv, IRInv, SchemasInv
<1>7. m \notin used /\ File(m) = first /\ (walk # <<>> => m \in Leads[Last(walk)])
  <2>1. CASE walk = <<>>
    BY <1>1, <1>3, <1>6, <2>1 DEF IsNext
  <2>2. CASE walk # <<>>
    <3>1. Last(walk) \in DOMAIN messages /\ File(Last(walk)) = first
      BY <1>2, <1>5, <2>2, LastCall DEF Walking
    <3>2. m \notin used /\ m \in Range(References(Last(walk)))
      BY <1>1, <2>2 DEF IsNext, Range
    <3>3. m \in Leads[Last(walk)]
      BY <3>1, <3>2, ReferencesAre
    <3>4. Last(walk) \in Message
      BY <3>1 DEF CompilerInv, IRInv, TypesInv
    <3>5. File(m) = File(Last(walk))
      BY <3>1, <3>3, <3>4 DEF Leads
    <3> QED
      BY <3>1, <3>2, <3>3, <3>5
  <2> QED
    BY <2>1, <2>2
<1>8. messages[m].defined
  BY <1>1, <1>3, <1>4, <1>6, <1>7 DEF DefinedInv
<1>9. (\A i \in DOMAIN output : output[i] # m) /\ (\A j \in DOMAIN walk : walk[j] # m)
  BY <1>5, <1>7 DEF Range
<1>10. PICK leads, w : leads = Leads /\ w = Append(walk, m)
  OBVIOUS
<1>11. Walking(DOMAIN messages, leads, output, w) /\ Range(w) = Range(walk) \cup {m}
  BY <1>2, <1>7, <1>9, <1>10, WalkEntered
<1>12. Ends(w, walk, m)
  BY <1>2, <1>10, AppendEnds DEF Walking
<1>13. \A k \in DOMAIN w : File(w[k]) = first /\ messages[w[k]].defined
  BY <1>5, <1>7, <1>8, <1>12 DEF Ends
<1>14. used \cup {m} = Range(w) \cup {n \in Range(output) : File(n) = first}
  BY <1>5, <1>11
<1>15. WalkIn(order, used \cup {m}, w, output)
  BY <1>1, <1>3, <1>13, <1>14 DEF WalkIn
<1>16. SoFar(order, used \cup {m}, w, output)
  BY <1>2, <1>10, <1>11, <1>15 DEF SoFar
<1>17. PICK o, u, out : o = order /\ u = used \cup {m} /\ out = output
  OBVIOUS
<1> QED
  BY <1>1, <1>10, <1>16, <1>17, Generated

(* When a schema is complete the next one is first, and nothing of that    *)
(* one is generated yet.                                                   *)
LEMMA SchemaPassed ==
  ASSUME CompilerInv, GenerateInv, SchemaGenerated
  PROVE  GenerateInv'
<1>1. /\ phase = "generate" /\ order # <<>> /\ walk = <<>>
      /\ schemas[Head(order)].defined => Range(schemas[Head(order)].messages) \subseteq used
      /\ order' = Tail(order) /\ used' = {} /\ walk' = walk /\ output' = output
      /\ Given /\ UNCHANGED ir /\ phase' = phase
  BY DEF SchemaGenerated, MessagesOrdered, Generating, Given
<1>2. /\ Remaining(order) /\ WalkIn(order, used, walk, output) /\ OutputIn(order, output)
      /\ Walking(DOMAIN messages, Leads, output, walk)
  BY <1>1 DEF GenerateInv, SoFar
<1>3. PICK first, rest, n : first = Head(order) /\ rest = Tail(order) /\ n = Len(order)
  OBVIOUS
<1>4. /\ rest \in Seq(DOMAIN schemas) /\ n \in Nat /\ n >= 1 /\ DOMAIN order = 1 .. n
      /\ DOMAIN rest = 1 .. n - 1 /\ (\A i \in 1 .. n - 1 : rest[i] = order[i + 1])
      /\ first = order[1] /\ first \in DOMAIN schemas
  BY <1>1, <1>2, <1>3, TailIs DEF Remaining
<1>5. first \notin Range(rest) /\ Range(order) = Range(rest) \cup {first}
  <2>1. \A i \in 1 .. n - 1 : i + 1 \in 1 .. n /\ i + 1 # 1
    BY <1>4
  <2>2. \A i \in 1 .. n : i = 1 \/ (i - 1 \in 1 .. n - 1 /\ (i - 1) + 1 = i)
    BY <1>4
  <2>3. first \notin Range(rest)
    BY <1>2, <1>4, <2>1 DEF Range, Remaining
  <2>4. \A d : d \in Range(rest) => d \in Range(order)
    BY <1>4, <2>1 DEF Range
  <2>5. ASSUME NEW i \in 1 .. n PROVE order[i] = first \/ order[i] \in Range(rest)
    <3>1. CASE i = 1
      BY <1>4, <3>1
    <3>2. CASE i # 1
      <4>1. PICK j \in 1 .. n - 1 : j + 1 = i
        BY <2>2, <3>2
      <4>2. rest[j] = order[i]
        BY <1>4, <4>1
      <4> QED
        BY <1>4, <4>2 DEF Range
    <3> QED
      BY <3>1, <3>2
  <2>6. first \in Range(order)
    BY <1>4 DEF Range
  <2>7. \A d : d \in Range(order) => d \in Range(rest) \cup {first}
    BY <1>4, <2>5 DEF Range
  <2> QED
    BY <2>3, <2>4, <2>6, <2>7
<1>6. Remaining(rest)
  <2>1. PICK leads : leads = Deps
    OBVIOUS
  <2>2. ASSUME NEW i \in DOMAIN rest, NEW d \in leads[rest[i]], d \in Range(rest)
        PROVE  \E j \in DOMAIN rest : j < i /\ rest[j] = d
    <3>1. i + 1 \in DOMAIN order /\ d \in leads[order[i + 1]] /\ d \in Range(order) /\ i \in Nat
      BY <1>4, <1>5, <2>2
    <3>2. PICK j \in DOMAIN order : j < i + 1 /\ order[j] = d
      BY <1>2, <2>1, <3>1 DEF Remaining, LedOrDone
    <3>3. j # 1 /\ j \in 1 .. n
      BY <1>4, <1>5, <2>2, <3>2
    <3>4. j - 1 \in 1 .. n - 1 /\ j - 1 < i /\ (j - 1) + 1 = j
      BY <1>4, <3>1, <3>2, <3>3
    <3>5. rest[j - 1] = d
      BY <1>4, <3>2, <3>4
    <3> QED
      BY <1>4, <3>4, <3>5
  <2>3. \A i, j \in DOMAIN rest : rest[i] = rest[j] => i = j
    <3>1. \A i, j \in 1 .. n - 1 : i + 1 \in 1 .. n /\ (i + 1 = j + 1 => i = j)
      BY <1>4
    <3> QED
      BY <1>2, <1>4, <3>1 DEF Remaining
  <2> QED
    BY <1>4, <2>1, <2>2, <2>3 DEF Remaining, LedOrDone
<1>7. \A i \in DOMAIN output : File(output[i]) \notin Range(rest)
  BY <1>2, <1>3, <1>5 DEF OutputIn
<1>8. WalkIn(rest, {}, walk, output)
  <2>1. Range(walk) = {} /\ DOMAIN walk = {}
    BY <1>1 DEF Range
  <2>2. rest # <<>> => {m \in Range(output) : File(m) = Head(rest)} = {}
    <3>1. rest # <<>> => Head(rest) \in Range(rest)
      BY <1>4 DEF Range
    <3> QED
      BY <1>7, <3>1 DEF Range
  <2> QED
    BY <1>1, <2>1, <2>2 DEF WalkIn
<1>9. OutputIn(rest, output)
  <2>1. ASSUME NEW m \in DOMAIN messages, messages[m].defined, File(m) \notin Range(rest)
        PROVE  m \in Range(output)
    <3>1. CASE File(m) \notin Range(order)
      BY <1>2, <2>1, <3>1 DEF OutputIn
    <3>2. CASE File(m) \in Range(order)
      <4>1. File(m) = first
        BY <1>5, <2>1, <3>2
      <4>2. DefinedInv /\ MessageInv(m)
        BY <1>1 DEF CompilerInv, ProcessInv, IRInv
      <4>3. schemas[first].defined /\ m \in Range(schemas[first].messages)
        BY <2>1, <4>1, <4>2 DEF DefinedInv, MessageInv, Range
      <4>4. m \in used
        BY <1>1, <1>3, <4>3
      <4>5. used = {k \in Range(output) : File(k) = first}
        <5>1. Range(walk) = {}
          BY <1>1 DEF Range
        <5> QED
          BY <1>1, <1>2, <1>3, <5>1 DEF WalkIn
      <4> QED
        BY <4>4, <4>5
    <3> QED
      BY <3>1, <3>2
  <2> QED
    BY <1>2, <1>7, <2>1 DEF OutputIn
<1>10. PICK u, w, out : u = {} /\ w = walk /\ out = output
  OBVIOUS
<1>11. SoFar(rest, u, w, out)
  BY <1>2, <1>6, <1>8, <1>9, <1>10 DEF SoFar
<1> QED
  BY <1>1, <1>3, <1>10, <1>11, Generated

(* What is generated next comes after what it refers to.                   *)
LEMMA LastJustified ==
  ASSUME CompilerInv, phase = "generate", order # <<>>, walk # <<>>, Range(References(Last(walk))) \subseteq used,
         Remaining(order), WalkIn(order, used, walk, output), OutputIn(order, output),
         Walking(DOMAIN messages, Leads, output, walk),
         NEW m, m = Last(walk), NEW out, Ends(out, output, m)
  PROVE  /\ JustifiedAt(out, Len(output) + 1) /\ File(m) = Head(order)
<1>1. PICK first, leads, n : first = Head(order) /\ leads = Leads /\ n = Len(output) + 1
  OBVIOUS
<1>2. /\ m \in DOMAIN messages /\ m \in Message /\ File(m) = first /\ messages[m].defined /\ m = walk[Len(walk)]
      /\ used = Range(walk) \cup {k \in Range(output) : File(k) = first}
  <2>1. m \in DOMAIN messages /\ m = walk[Len(walk)] /\ Len(walk) \in DOMAIN walk
    BY LastCall DEF Walking
  <2>2. m \in Message
    BY <2>1 DEF CompilerInv, IRInv, TypesInv
  <2> QED
    BY <1>1, <2>1, <2>2 DEF WalkIn
<1>3. IRInv /\ DefinedInv /\ MessageInv(m)
  BY <1>2 DEF CompilerInv, ProcessInv, IRInv
<1>4. /\ out[n] = m /\ n \in DOMAIN out /\ n \in Nat
      /\ \A i \in DOMAIN output : i \in DOMAIN out /\ out[i] = output[i] /\ i < n
  BY <1>1 DEF Ends
<1>5. ASSUME NEW t \in Range(output) PROVE \E j \in DOMAIN out : j < n /\ out[j] = t
  BY <1>4 DEF Range
<1>6. ASSUME NEW t \in Refers(m) PROVE Justified(out, n, t)
  <2>1. PICK i \in DOMAIN messages[m].fields : t = messages[m].fields[i].to /\ t # Null
    BY <1>6 DEF Refers, Range
  <2>2. Fits(m, messages[m].fields[i])
    BY <1>3, <2>1 DEF MessageInv
  <2>3. t \in DOMAIN messages /\ t \in Message /\ File(t) \in schemas[first].deps \cup {first}
    <3>1. t \in DOMAIN messages /\ File(t) \in schemas[first].deps \cup {first}
      BY <1>2, <2>1, <2>2 DEF Fits
    <3> QED
      BY <1>3, <3>1 DEF IRInv, TypesInv
  <2>4. CASE t \in Range(output)
    BY <1>5, <2>4 DEF Justified
  <2>5. CASE t \notin Range(output) /\ File(t) = first
    <3>1. t \in leads[m]
      BY <1>1, <1>2, <1>6, <2>5 DEF Leads
    <3>2. t \in used
      BY <1>1, <1>2, <3>1, ReferencesAre
    <3>3. PICK k \in DOMAIN walk : walk[k] = t
      BY <1>2, <2>5, <3>2 DEF Range
    <3>4. ASSUME NEW S \in SUBSET Message, {t} \subseteq S, \A a \in S : leads[a] \subseteq S
          PROVE  m \in S
      <4>1. walk[k] \in S
        BY <3>3, <3>4
      <4>2. Walking(DOMAIN messages, leads, output, walk)
        BY <1>1
      <4>3. Last(walk) \in S
        BY <3>4, <4>1, <4>2, OpenLeads
      <4> QED
        BY <4>3
    <3>5. m \in Closure({t}, leads)
      BY <1>2, <3>4, InClosure
    <3> QED
      BY <1>1, <1>2, <1>4, <2>5, <3>5 DEF Justified
  <2>6. CASE t \notin Range(output) /\ File(t) # first
    <3>1. File(t) \in schemas[first].deps /\ first \in DOMAIN schemas
      BY <1>2, <1>3, <2>3, <2>6 DEF MessageInv
    <3>2. File(t) \notin Range(order)
      <4>1. order[1] = first /\ 1 \in DOMAIN order /\ \A j \in DOMAIN order : ~(j < 1)
        BY <1>1, TailIs DEF Remaining
      <4>2. File(t) \in Deps[order[1]]
        BY <3>1, <4>1 DEF Deps
      <4> QED
        BY <4>1, <4>2 DEF Remaining, LedOrDone
    <3>3. ~messages[t].defined
      BY <2>3, <2>6, <3>2 DEF OutputIn
    <3>4. File(t) \in DOMAIN schemas
      BY <1>3, <2>3 DEF IRInv, MessageInv
    <3>5. ~schemas[File(t)].defined
      BY <1>3, <2>3, <3>3, <3>4 DEF DefinedInv
    <3> QED
      BY <1>2, <1>4, <3>1, <3>5 DEF Justified
  <2> QED
    BY <2>3, <2>4, <2>5, <2>6
<1> QED
  BY <1>1, <1>2, <1>4, <1>6 DEF JustifiedAt

(* A message is generated when what it refers to has been visited.         *)
LEMMA MessageLeft ==
  ASSUME CompilerInv, GenerateInv, MessageVisited
  PROVE  GenerateInv'
<1>1. /\ phase = "generate" /\ order # <<>> /\ walk # <<>> /\ Range(References(Last(walk))) \subseteq used
      /\ output' = Append(output, Last(walk)) /\ walk' = Front(walk)
      /\ used' = used /\ order' = order /\ Given /\ UNCHANGED ir /\ phase' = phase
  BY DEF MessageVisited, Generating, Given
<1>2. /\ Remaining(order) /\ WalkIn(order, used, walk, output) /\ OutputIn(order, output)
      /\ Walking(DOMAIN messages, Leads, output, walk)
  BY <1>1 DEF GenerateInv, SoFar
<1>3. PICK m, w, out, leads : m = Last(walk) /\ w = Front(walk) /\ out = Append(output, m) /\ leads = Leads
  OBVIOUS
<1>4. /\ Walking(DOMAIN messages, leads, out, w) /\ m \in DOMAIN messages
      /\ Range(out) = Range(output) \cup {m} /\ Range(walk) = Range(w) \cup {m}
  BY <1>1, <1>2, <1>3, WalkLeft
<1>5. Ends(out, output, m) /\ Ends(walk, w, m)
  BY <1>1, <1>2, <1>3, <1>4, AppendEnds, FrontEnds DEF Walking
<1>6. JustifiedAt(out, Len(output) + 1) /\ File(m) = Head(order)
  BY <1>1, <1>2, <1>3, <1>5, LastJustified
<1>7. \A i \in DOMAIN out : (i \in DOMAIN output /\ out[i] = output[i]) \/ (i = Len(output) + 1 /\ out[i] = m)
  BY <1>5 DEF Ends
<1>8. ASSUME NEW i \in DOMAIN output PROVE JustifiedAt(out, i)
  <2>1. \A j \in DOMAIN output : j \in DOMAIN out /\ out[j] = output[j]
    BY <1>5 DEF Ends
  <2>2. JustifiedAt(output, i)
    BY <1>2 DEF OutputIn
  <2>3. ASSUME NEW n, Justified(output, i, n) PROVE Justified(out, i, n)
    <3>1. CASE \E j \in DOMAIN output : j < i /\ output[j] = n
      BY <2>1, <3>1 DEF Justified
    <3>2. CASE ~\E j \in DOMAIN output : j < i /\ output[j] = n
      BY <2>1, <2>3, <3>2 DEF Justified
    <3> QED
      BY <3>1, <3>2
  <2> QED
    BY <2>1, <2>2, <2>3 DEF JustifiedAt
<1>9. OutputIn(order, out)
  <2>1. \A i \in DOMAIN out : JustifiedAt(out, i)
    BY <1>6, <1>7, <1>8
  <2>2. \A i \in DOMAIN out : File(out[i]) \in Range(order) => File(out[i]) = Head(order)
    BY <1>2, <1>6, <1>7 DEF OutputIn
  <2> QED
    BY <1>2, <1>4, <2>1, <2>2 DEF OutputIn
<1>10. WalkIn(order, used, w, out)
  <2>1. \A k \in DOMAIN w : k \in DOMAIN walk /\ w[k] = walk[k]
    BY <1>5 DEF Ends
  <2>2. \A k \in DOMAIN w : File(w[k]) = Head(order) /\ messages[w[k]].defined
    BY <1>1, <1>2, <2>1 DEF WalkIn
  <2>3. used = Range(walk) \cup {n \in Range(output) : File(n) = Head(order)}
    BY <1>1, <1>2 DEF WalkIn
  <2>4. used = Range(w) \cup {n \in Range(out) : File(n) = Head(order)}
    BY <1>4, <1>6, <2>3
  <2> QED
    BY <1>1, <2>2, <2>4 DEF WalkIn
<1>11. PICK o, u : o = order /\ u = used
  OBVIOUS
<1>12. SoFar(o, u, w, out)
  BY <1>2, <1>3, <1>4, <1>9, <1>10, <1>11 DEF SoFar
<1> QED
  BY <1>1, <1>3, <1>11, <1>12, Generated

(* Nothing else is a step of the generation.                               *)
LEMMA OthersBefore ==
  ASSUME CompilerInv,
         \/ Parse \/ ProcessSchemas \/ ProcessReturn
         \/ \E m \in Message : ProcessNext(m)
         \/ \E m \in DOMAIN messages : \E f \in Range(messages[m].fields) : ProcessType(f) \/ CompleteField(f)
  PROVE  phase' \notin {"order", "generate", "done"}
<1>1. CASE Parse
  BY <1>1, ParsePhases
<1>2. CASE ProcessSchemas
  BY <1>2 DEF ProcessSchemas, Reject
<1>3. CASE ProcessReturn
  BY <1>3 DEF ProcessReturn
<1>4. ASSUME NEW m, EnterMessage(m), phase = "process" PROVE phase' \notin {"order", "generate", "done"}
  BY <1>4 DEF EnterMessage, Reject
<1>5. ASSUME NEW m \in Message, ProcessNext(m) PROVE phase' \notin {"order", "generate", "done"}
  BY <1>4, <1>5 DEF ProcessNext
<1>6. ASSUME NEW f, ProcessType(f) \/ CompleteField(f) PROVE phase' \notin {"order", "generate", "done"}
  <2>1. CASE ProcessType(f)
    BY <1>4, <2>1 DEF ProcessType, Processing
  <2>2. CASE CompleteField(f)
    BY <2>2 DEF CompleteField, Processing, Reject
  <2> QED
    BY <1>6, <2>1, <2>2
<1> QED
  BY <1>1, <1>2, <1>3, <1>5, <1>6

(* Every step keeps the invariant of the generation,                       *)
LEMMA GenerationPreserved ==
  ASSUME CompilerInv, GenerationInv, [Next]_vars
  PROVE  GenerationInv'
<1>1. CASE OrderSchemas
  <2>1. /\ phase = "process" /\ phase' = "order" /\ schemas' = schemas
        /\ order' = order /\ used' = used /\ walk' = walk /\ output' = output
    BY <1>1 DEF OrderSchemas, generation, ir
  <2>2. Deps' = Deps
    BY <2>1 DEF Deps
  <2>3. OrderInv'
    BY <2>1, <2>2, OrderStarts DEF OrderInv
  <2> QED
    BY <2>1, <2>3 DEF GenerationInv, GenerateInv
<1>2. ASSUME NEW file \in DOMAIN schemas, VisitSchema(file) PROVE GenerationInv'
  <2>1. phase' = "order"
    BY <1>2 DEF VisitSchema
  <2> QED
    BY <1>2, <2>1, SchemaEntered DEF GenerationInv, GenerateInv
<1>3. CASE SchemaVisited
  <2>1. phase' = "order"
    BY <1>3 DEF SchemaVisited
  <2> QED
    BY <1>3, <2>1, SchemaLeft DEF GenerationInv, GenerateInv
<1>4. CASE SchemasOrdered
  <2>1. phase' = "generate"
    BY <1>4 DEF SchemasOrdered
  <2> QED
    BY <1>4, <2>1, OrderMade DEF GenerationInv, OrderInv
<1>5. ASSUME NEW m \in DOMAIN messages, VisitMessage(m) PROVE GenerationInv'
  <2>1. phase' = "generate"
    BY <1>5 DEF VisitMessage, Generating
  <2> QED
    BY <1>5, <2>1, MessageEntered DEF GenerationInv, OrderInv
<1>6. CASE MessageVisited
  <2>1. phase' = "generate"
    BY <1>6 DEF MessageVisited, Generating
  <2> QED
    BY <1>6, <2>1, MessageLeft DEF GenerationInv, OrderInv
<1>7. CASE SchemaGenerated
  <2>1. phase' = "generate"
    BY <1>7 DEF SchemaGenerated, Generating
  <2> QED
    BY <1>7, <2>1, SchemaPassed DEF GenerationInv, OrderInv
<1>8. CASE Finish
  <2>1. /\ phase = "generate" /\ order = <<>> /\ phase' = "done" /\ Given /\ UNCHANGED ir
        /\ order' = order /\ used' = used /\ walk' = walk /\ output' = output
    BY <1>8 DEF Finish, Given, generation
  <2>2. PICK o, u, w, out : o = order /\ u = used /\ w = walk /\ out = output
    OBVIOUS
  <2>3. SoFar(o, u, w, out)
    BY <2>1, <2>2 DEF GenerationInv, GenerateInv
  <2>4. GenerateInv'
    BY <2>1, <2>2, <2>3, Generated
  <2> QED
    BY <2>1, <2>4 DEF GenerationInv, OrderInv
<1>9. CASE UNCHANGED vars
  <2>1. /\ Given /\ UNCHANGED ir /\ phase' = phase /\ schemas' = schemas
        /\ order' = order /\ used' = used /\ walk' = walk /\ output' = output
    BY <1>9 DEF vars, Given, generation, ir
  <2>2. OrderInv'
    <3>1. Deps' = Deps
      BY <2>1 DEF Deps
    <3> QED
      BY <2>1, <3>1 DEF GenerationInv, OrderInv
  <2>3. GenerateInv'
    <3> SUFFICES ASSUME phase \in {"generate", "done"} PROVE GenerateInv'
      BY <2>1 DEF GenerateInv
    <3>1. PICK o, u, w, out : o = order /\ u = used /\ w = walk /\ out = output
      OBVIOUS
    <3>2. SoFar(o, u, w, out) /\ (phase = "done" => order = <<>>)
      BY <3>1 DEF GenerationInv, GenerateInv
    <3> QED
      BY <2>1, <3>1, <3>2, Generated
  <2> QED
    BY <2>2, <2>3 DEF GenerationInv
<1>10. CASE phase' \notin {"order", "generate", "done"}
  BY <1>10 DEF GenerationInv, OrderInv, GenerateInv
<1>11. CASE GenerationThrows
  <2>1. phase' = "rejected"
    BY <1>11 DEF GenerationThrows, Reject
  <2> QED
    BY <2>1 DEF GenerationInv, OrderInv, GenerateInv
<1> QED
  BY <1>1, <1>2, <1>3, <1>4, <1>5, <1>6, <1>7, <1>8, <1>9, <1>10, <1>11, OthersBefore DEF Next

(* so that it holds with that of the processor,                            *)
LEMMA GenerationInvariance ==
  Spec => [](CompilerInv /\ GenerationInv)
<1>1. Init => CompilerInv /\ GenerationInv
  <2> SUFFICES ASSUME Init PROVE CompilerInv /\ GenerationInv
    OBVIOUS
  <2>1. phase = "parse"
    BY DEF Init, FrontEndInit
  <2> QED
    BY <2>1, Starts DEF GenerationInv, OrderInv, GenerateInv
<1>2. (CompilerInv /\ GenerationInv) /\ [Next]_vars => (CompilerInv /\ GenerationInv)'
  BY Preserves, GenerationPreserved
<1> QED
  BY <1>1, <1>2, PTL DEF Spec

(* and implies the order of the definitions.                               *)
LEMMA DefinitionsFollow ==
  ASSUME CompilerInv, GenerationInv
  PROVE  DefinedBeforeUse
<1> DEFINE refers(m) == {f.to : f \in Range(messages[m].fields)} \ {Null}
           near(m) == {n \in refers(m) : File(n) = File(m)}
           place(m) == CHOOSE i \in DOMAIN output : output[i] = m
<1> SUFFICES ASSUME phase = "done"
             PROVE  /\ IsInjective(output)
                    /\ Range(output) = {m \in DOMAIN messages : messages[m].defined}
                    /\ \A m \in Range(output) : \A n \in refers(m) :
                         \/ n \in Range(output) /\ place(n) < place(m)
                         \/ File(n) = File(m) /\ m \in Closure({n}, [x \in Message |-> IF x \in DOMAIN messages THEN near(x) ELSE {}])
                         \/ File(n) \in schemas[File(m)].deps /\ ~schemas[File(n)].defined
  BY DEF DefinedBeforeUse
<1>1. order = <<>> /\ OutputIn(order, output) /\ Walking(DOMAIN messages, Leads, output, walk)
  BY DEF GenerationInv, GenerateInv, SoFar
<1>2. \A m : refers(m) = Refers(m)
  BY DEF Refers
<1>3. [x \in Message |-> IF x \in DOMAIN messages THEN near(x) ELSE {}] = Leads
  BY DEF Leads, Refers
<1>4. IsInjective(output)
  BY <1>1 DEF Walking, IsInjective
<1>5. Range(output) = {m \in DOMAIN messages : messages[m].defined}
  <2>1. Range(order) = {}
    BY <1>1 DEF Range
  <2>2. \A m \in DOMAIN messages : messages[m].defined => m \in Range(output)
    BY <1>1, <2>1 DEF OutputIn
  <2>3. \A i \in DOMAIN output : output[i] \in DOMAIN messages /\ messages[output[i]].defined
    BY <1>1 DEF OutputIn, JustifiedAt, Walking
  <2> QED
    BY <2>2, <2>3 DEF Range
<1>6. \A i \in DOMAIN output : place(output[i]) = i
  BY <1>4 DEF IsInjective
<1> HIDE DEF place, near, refers
<1>7. ASSUME NEW m \in Range(output), NEW n \in refers(m)
      PROVE  \/ n \in Range(output) /\ place(n) < place(m)
             \/ File(n) = File(m) /\ m \in Closure({n}, Leads)
             \/ File(n) \in schemas[File(m)].deps /\ ~schemas[File(n)].defined
  <2>1. PICK i \in DOMAIN output : m = output[i]
    BY <1>7 DEF Range
  <2>2. Justified(output, i, n)
    BY <1>1, <1>2, <1>7, <2>1 DEF OutputIn, JustifiedAt
  <2>3. CASE \E j \in DOMAIN output : j < i /\ output[j] = n
    BY <1>6, <2>1, <2>3 DEF Range
  <2>4. CASE ~\E j \in DOMAIN output : j < i /\ output[j] = n
    BY <2>1, <2>2, <2>4 DEF Justified
  <2> QED
    BY <2>3, <2>4
<1> QED
  BY <1>3, <1>4, <1>5, <1>7

-----------------------------------------------------------------------------
(* The theorems.                                                           *)

(* At every step of the compiler the IR is well formed: schemas depend on  *)
(* other registered schemas, every message is listed by its own, fields    *)
(* refer to registered messages, and what is deprecated refers to nothing  *)
(* (proto_front.cpp:309-388, 475-493, ir_processor.cpp).                   *)
THEOREM TypeCorrect == Spec => []TypeOK
  BY Invariance, TypesFollow, PTL

(* However messages nest and refer to each other, when the front end is    *)
(* done, and still when compilation is, every message the program leads to *)
(* and the markup keeps is there once, in its schema, with all its wanted  *)
(* fields and all its kept nested messages, each once                      *)
(* (proto_front.cpp:276-388).                                              *)
THEOREM MessagesOnce == Spec => []EveryMessageOnce
  BY Invariance, MessagesFollow, PTL

(* The processor never meets an IR it asserts it cannot meet, whatever     *)
(* program and options the front end was given: nothing is processed       *)
(* twice, everything defined is in a schema that is, nothing has an index  *)
(* before it is placed, and a map's entry is fixed and has a key           *)
(* (ir_processor.cpp:46-79, 106-108, 165-170).                             *)
THEOREM AssertionsNeverFail == Spec => []AssertionsHold
<1>1. CompilerInv => AssertionsHold
  BY DEF CompilerInv, PhaseInv, Internal, AssertionsHold
<1> QED
  BY <1>1, Invariance, PTL

(* In a flat or fixed layout the fields have the ids 1, 2, ..., in order,  *)
(* whatever ids, overrides, deprecated and reserved numbers they come      *)
(* from; and up to the documented number of fields none begins before      *)
(* those below it end although the offset is a 16-bit sum                  *)
(* (ir_processor.cpp:72-79, 83, 128-138, ir.cpp:240-247, limits.md:13).    *)
THEOREM LayoutsDense == Spec => []StaticLayoutsDense
  BY Invariance, LayoutsFollow, PTL

(* Exactly the types of maps' fields are marked as pairs, and every pair   *)
(* has a key and a value, although fields of an ignored type are taken     *)
(* away (ir_processor.cpp:156-173, proto_front.cpp:331-334).               *)
THEOREM PairsComplete == Spec => []PairsWellFormed
  BY Invariance, PairsFollow, PTL

(* A generated definition comes after those its fields refer to in its own *)
(* schema and in generated ones, unless it and what it refers to lead to   *)
(* each other; the rest is in schemas its own includes that are not        *)
(* generated; all that is defined is generated, and once (util.cpp:5-62,   *)
(* cpp_gen.cpp:318-325, 397-402).                                          *)
THEOREM DefinitionsInOrder == Spec => []DefinedBeforeUse
  BY GenerationInvariance, DefinitionsFollow, PTL
=============================================================================
