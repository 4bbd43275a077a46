-------------------------- MODULE FrontEnd_proofs --------------------------
(***************************************************************************)
(* Proofs that the IR the front end builds is well formed at every step    *)
(* and complete when a file is finished, for every program that protoc     *)
(* accepts and every set of options.                                       *)
(***************************************************************************)
EXTENDS Compiler, TLAPS, WellFoundedInduction, NaturalsInduction, SequenceTheorems

-----------------------------------------------------------------------------
(* Numbers.                                                                *)

(* A set of numbers has a least element.                                   *)
LEMMA LeastExists ==
  ASSUME NEW S \in SUBSET Nat, S # {}
  PROVE  \E x \in S : \A y \in S : x <= y
<1> DEFINE R == OpToRel(<, Nat)
<1>1. IsWellFoundedOn(R, Nat)
  BY NatLessThanWellFounded
<1>2. \A x, y \in Nat : <<x, y>> \in R <=> x < y
  BY DEF OpToRel
<1> HIDE DEF R
<1>3. PICK x \in S : \A y \in S : <<y, x>> \notin R
  BY <1>1, WFMin
<1>4. \A y \in S : ~(y < x) /\ y \in Nat /\ x \in Nat
  BY <1>2, <1>3
<1> QED
  BY <1>4

(* Induction up to n.                                                      *)
LEMMA Upwards ==
  ASSUME NEW n \in Nat, NEW S, 0 \in S, \A k \in 1 .. n : k - 1 \in S => k \in S
  PROVE  \A k \in 0 .. n : k \in S
<1> DEFINE Failing == {k \in 0 .. n : k \notin S}
<1>1. SUFFICES ASSUME Failing # {} PROVE FALSE
  OBVIOUS
<1>2. Failing \in SUBSET Nat
  OBVIOUS
<1>3. PICK k \in Failing : \A y \in Failing : k <= y
  BY <1>1, <1>2, LeastExists
<1>4. k \in 1 .. n /\ k - 1 \in 0 .. n /\ ~(k <= k - 1)
  BY <1>3
<1>5. k - 1 \in S
  BY <1>3, <1>4
<1> QED
  BY <1>3, <1>4, <1>5

LEMMA GreatestExists ==
  ASSUME NEW n \in Nat, NEW S \in SUBSET (0 .. n), S # {}
  PROVE  Max(S) \in S /\ \A y \in S : Max(S) >= y
<1> DEFINE T == {k \in Nat : n - k \in S}
<1>1. PICK y \in S : TRUE
  OBVIOUS
<1>2. n - y \in T
  BY <1>1
<1>3. PICK t \in T : \A z \in T : t <= z
  BY <1>2, LeastExists
<1>4. \A z \in S : n - z \in T /\ z \in Int
  OBVIOUS
<1>5. \A z \in S : n - t >= z
  BY <1>3, <1>4
<1> QED
  BY <1>3, <1>5 DEF Max

-----------------------------------------------------------------------------
(* Selections from a sequence.                                             *)

(* The function OnlyTo is defined by, up to n.                             *)
Selecting(s, I, n, upTo) ==
  upTo = [k \in 0 .. n |->
            IF k = 0 THEN <<>> ELSE IF k \in I THEN Append(upTo[k - 1], s[k]) ELSE upTo[k - 1]]

(* The function OnlyTo selects with exists.                                *)
LEMMA SelectingExists ==
  ASSUME NEW s, NEW I, NEW n \in Nat
  PROVE  \E upTo : Selecting(s, I, n, upTo)
<1> DEFINE S == {k \in Nat : \E upTo : Selecting(s, I, k, upTo)}
<1>1. 0 \in S
  <2> DEFINE f == [k \in 0 .. 0 |-> <<>>]
  <2>1. Selecting(s, I, 0, f)
    BY DEF Selecting
  <2> QED
    BY <2>1
<1>2. \A k \in 1 .. n : k - 1 \in S => k \in S
  <2> SUFFICES ASSUME NEW k \in 1 .. n, k - 1 \in S PROVE k \in S
    OBVIOUS
  <2>1. PICK f : Selecting(s, I, k - 1, f)
    OBVIOUS
  <2> DEFINE g == [j \in 0 .. k |-> IF j = k THEN IF k \in I THEN Append(f[k - 1], s[k]) ELSE f[k - 1]
                                             ELSE f[j]]
  <2>2. \A j \in 0 .. k - 1 :
          f[j] = IF j = 0 THEN <<>> ELSE IF j \in I THEN Append(f[j - 1], s[j]) ELSE f[j - 1]
    BY <2>1 DEF Selecting
  <2>3. \A j \in 0 .. k :
          g[j] = IF j = 0 THEN <<>> ELSE IF j \in I THEN Append(g[j - 1], s[j]) ELSE g[j - 1]
    BY <2>2
  <2>4. g = [j \in 0 .. k |-> g[j]]
    OBVIOUS
  <2> HIDE DEF g
  <2>5. g = [j \in 0 .. k |->
               IF j = 0 THEN <<>> ELSE IF j \in I THEN Append(g[j - 1], s[j]) ELSE g[j - 1]]
    BY <2>3, <2>4
  <2>6. Selecting(s, I, k, g)
    BY <2>5 DEF Selecting
  <2> QED
    BY <2>6
<1> HIDE DEF S
<1>3. n \in S
  BY <1>1, <1>2, Upwards
<1> QED
  BY <1>3 DEF S

LEMMA OnlyToSteps ==
  ASSUME NEW s, NEW I, Len(s) \in Nat
  PROVE  /\ OnlyTo(s, I, 0) = <<>>
         /\ \A k \in 1 .. Len(s) :
              OnlyTo(s, I, k) = IF k \in I THEN Append(OnlyTo(s, I, k - 1), s[k])
                                           ELSE OnlyTo(s, I, k - 1)
<1> DEFINE f == CHOOSE upTo : Selecting(s, I, Len(s), upTo)
<1>1. Len(s) \in Nat
  OBVIOUS
<1>2. \A k : OnlyTo(s, I, k) = f[k]
  BY DEF OnlyTo, Selecting
<1>3. Selecting(s, I, Len(s), f)
  BY <1>1, SelectingExists
<1> HIDE DEF f
<1>4. \A k \in 0 .. Len(s) :
        f[k] = IF k = 0 THEN <<>> ELSE IF k \in I THEN Append(f[k - 1], s[k]) ELSE f[k - 1]
  BY <1>3 DEF Selecting
<1>5. 0 \in 0 .. Len(s) /\ \A k \in 1 .. Len(s) : k \in 0 .. Len(s) /\ k # 0
  BY <1>1
<1>6. f[0] = <<>>
  BY <1>4, <1>5
<1>7. \A k \in 1 .. Len(s) : f[k] = IF k \in I THEN Append(f[k - 1], s[k]) ELSE f[k - 1]
  BY <1>4, <1>5
<1> QED
  BY <1>2, <1>6, <1>7

LEMMA OnlyToStep ==
  ASSUME NEW s, NEW I, Len(s) \in Nat, NEW n \in 1 .. Len(s)
  PROVE  /\ n \in I => OnlyTo(s, I, n) = Append(OnlyTo(s, I, n - 1), s[n])
         /\ n \notin I => OnlyTo(s, I, n) = OnlyTo(s, I, n - 1)
<1> DEFINE F(k) == OnlyTo(s, I, k)
<1>1. \A k \in 1 .. Len(s) : F(k) = IF k \in I THEN Append(F(k - 1), s[k]) ELSE F(k - 1)
  BY OnlyToSteps
<1> HIDE DEF F
<1>2. F(n) = IF n \in I THEN Append(F(n - 1), s[n]) ELSE F(n - 1)
  BY ONLY <1>1, n \in 1 .. Len(s)
<1> QED
  BY <1>2 DEF F

(* What r has of the first n elements of s.                                *)
Selection(E, r, s, I, n) ==
  /\ r \in Seq(E)
  /\ \A i \in DOMAIN r : \E j \in I \cap (1 .. n) : r[i] = s[j]
  /\ \A j \in I \cap (1 .. n) : \E i \in DOMAIN r : r[i] = s[j]
  /\ (\A i, j \in 1 .. n : s[i] = s[j] => i = j) => \A i, j \in DOMAIN r : r[i] = r[j] => i = j

LEMMA Appended ==
  ASSUME NEW E, NEW s \in Seq(E), NEW e \in E
  PROVE  /\ Append(s, e) \in Seq(E)
         /\ DOMAIN s = 1 .. Len(s) /\ Len(s) \in Nat /\ Len(Append(s, e)) = Len(s) + 1
         /\ DOMAIN Append(s, e) = 1 .. Len(s) + 1
         /\ \A i \in 1 .. Len(s) : Append(s, e)[i] = s[i]
         /\ Append(s, e)[Len(s) + 1] = e
  OBVIOUS

LEMMA SelectionAppended ==
  ASSUME NEW E, NEW s \in Seq(E), NEW I, NEW n \in 1 .. Len(s), NEW r,
         Selection(E, r, s, I, n - 1)
  PROVE  /\ n \in I => Selection(E, Append(r, s[n]), s, I, n)
         /\ n \notin I => Selection(E, r, s, I, n)
<1>1. r \in Seq(E) /\ s[n] \in E /\ n \in Nat /\ n >= 1
  BY DEF Selection
<1>2. I \cap (1 .. n) = (I \cap (1 .. n - 1)) \cup (I \cap {n})
  BY <1>1
<1>3. 1 .. n - 1 \subseteq 1 .. n
  BY <1>1
<1>4. ASSUME n \notin I PROVE Selection(E, r, s, I, n)
  BY <1>2, <1>3, <1>4 DEF Selection
<1>5. ASSUME n \in I PROVE Selection(E, Append(r, s[n]), s, I, n)
  <2> DEFINE a == Append(r, s[n])
  <2>1. /\ a \in Seq(E) /\ DOMAIN r = 1 .. Len(r) /\ DOMAIN a = 1 .. Len(r) + 1 /\ Len(r) \in Nat
        /\ \A i \in 1 .. Len(r) : a[i] = r[i]
        /\ a[Len(r) + 1] = s[n]
    BY <1>1, Appended
  <2> HIDE DEF a
  <2>2. \A i \in DOMAIN a : i \in DOMAIN r \/ i = Len(r) + 1
    BY <2>1
  <2>3. \A i \in DOMAIN a : \E j \in I \cap (1 .. n) : a[i] = s[j]
    <3> TAKE i \in DOMAIN a
    <3>1. CASE i = Len(r) + 1
      BY <1>1, <1>5, <2>1, <3>1
    <3>2. CASE i \in DOMAIN r
      <4>1. PICK j \in I \cap (1 .. n - 1) : r[i] = s[j]
        BY <3>2 DEF Selection
      <4> QED
        BY <1>2, <2>1, <3>2, <4>1
    <3> QED
      BY <2>2, <3>1, <3>2
  <2>4. \A j \in I \cap (1 .. n) : \E i \in DOMAIN a : a[i] = s[j]
    <3> TAKE j \in I \cap (1 .. n)
    <3>1. CASE j = n
      BY <2>1, <3>1
    <3>2. CASE j # n
      <4>1. PICK i \in DOMAIN r : r[i] = s[j]
        BY <1>2, <3>2 DEF Selection
      <4> QED
        BY <2>1, <4>1
    <3> QED
      BY <3>1, <3>2
  <2>5. ASSUME \A i, j \in 1 .. n : s[i] = s[j] => i = j
        PROVE  \A i, j \in DOMAIN a : a[i] = a[j] => i = j
    <3>1. \A i, j \in DOMAIN r : r[i] = r[j] => i = j
      BY <1>3, <2>5 DEF Selection
    <3>2. \A i \in DOMAIN r : r[i] # s[n]
      <4> TAKE i \in DOMAIN r
      <4>1. PICK j \in 1 .. n - 1 : r[i] = s[j]
        BY DEF Selection
      <4>2. j # n /\ j \in 1 .. n /\ n \in 1 .. n
        BY <1>1
      <4> QED
        BY <2>5, <4>1, <4>2
    <3> QED
      BY <2>1, <2>2, <3>1, <3>2
  <2> QED
    BY <2>1, <2>3, <2>4, <2>5 DEF Selection, a
<1> QED
  BY <1>4, <1>5

LEMMA OnlyToSelects ==
  ASSUME NEW E, NEW s \in Seq(E), NEW I
  PROVE  \A n \in 0 .. Len(s) : Selection(E, OnlyTo(s, I, n), s, I, n)
<1> DEFINE S == {n \in 0 .. Len(s) : Selection(E, OnlyTo(s, I, n), s, I, n)}
<1>1. Len(s) \in Nat
  OBVIOUS
<1>2. 0 \in S
  <2>1. OnlyTo(s, I, 0) = <<>>
    BY <1>1, OnlyToSteps
  <2>2. Selection(E, <<>>, s, I, 0)
    BY DEF Selection
  <2> QED
    BY <1>1, <2>1, <2>2
<1>3. \A n \in 1 .. Len(s) : n - 1 \in S => n \in S
  <2> SUFFICES ASSUME NEW n \in 1 .. Len(s), n - 1 \in S PROVE n \in S
    OBVIOUS
  <2>1. Selection(E, OnlyTo(s, I, n - 1), s, I, n - 1)
    OBVIOUS
  <2>2. /\ n \in I => OnlyTo(s, I, n) = Append(OnlyTo(s, I, n - 1), s[n])
        /\ n \notin I => OnlyTo(s, I, n) = OnlyTo(s, I, n - 1)
    BY <1>1, OnlyToStep
  <2>3. Selection(E, OnlyTo(s, I, n), s, I, n)
    BY <2>1, <2>2, SelectionAppended
  <2> QED
    BY <1>1, <2>3
<1> HIDE DEF S
<1>4. \A n \in 0 .. Len(s) : n \in S
  BY <1>1, <1>2, <1>3, Upwards
<1> QED
  BY <1>4 DEF S

(* Only selects, in order and without repetition.                          *)
LEMMA OnlySelects ==
  ASSUME NEW E, NEW s \in Seq(E), NEW I
  PROVE  Selection(E, Only(s, I), s, I, Len(s))
  BY OnlyToSelects DEF Only

LEMMA OnlyAll ==
  ASSUME NEW E, NEW s \in Seq(E), NEW I, DOMAIN s \subseteq I
  PROVE  Only(s, I) = s
<1> DEFINE S == {n \in 0 .. Len(s) : OnlyTo(s, I, n) = SubSeq(s, 1, n)}
<1>1. Len(s) \in Nat /\ DOMAIN s = 1 .. Len(s)
  OBVIOUS
<1>2. 0 \in S
  <2>1. OnlyTo(s, I, 0) = <<>>
    BY <1>1, OnlyToSteps
  <2>2. SubSeq(s, 1, 0) = <<>>
    BY <1>1
  <2>3. 0 \in 0 .. Len(s)
    BY <1>1
  <2> QED
    BY <2>1, <2>2, <2>3
<1>3. \A n \in 1 .. Len(s) : n - 1 \in S => n \in S
  <2> SUFFICES ASSUME NEW n \in 1 .. Len(s), n - 1 \in S PROVE n \in S
    OBVIOUS
  <2>1. OnlyTo(s, I, n) = Append(OnlyTo(s, I, n - 1), s[n])
    BY <1>1, OnlyToStep
  <2>2. Append(SubSeq(s, 1, n - 1), s[n]) = SubSeq(s, 1, n)
    BY <1>1
  <2> QED
    BY <1>1, <2>1, <2>2
<1> HIDE DEF S
<1>4. Len(s) \in S
  <2>1. \A n \in 0 .. Len(s) : n \in S
    BY <1>1, <1>2, <1>3, Upwards
  <2> QED
    BY <1>1, <2>1
<1>5. SubSeq(s, 1, Len(s)) = s
  BY <1>1
<1> QED
  BY <1>4, <1>5 DEF S, Only

LEMMA OnlyNone ==
  ASSUME NEW E, NEW s \in Seq(E), NEW I, \A i \in DOMAIN s : i \notin I
  PROVE  Only(s, I) = <<>>
<1>1. Selection(E, Only(s, I), s, I, Len(s))
  BY OnlySelects
<1>2. Only(s, I) \in Seq(E) /\ DOMAIN Only(s, I) = {}
  BY <1>1 DEF Selection
<1> QED
  BY <1>2

-----------------------------------------------------------------------------
(* The invariant: what the IR is made of.                                  *)

(* The strings, and some that the provers do not know to be strings.       *)
Word == STRING \cup BasicType \cup {"array", "message", "enum", None}

IRField ==
  [name : Word, id : Nat, type : Word, to : Message \cup {Null}, deprecated : BOOLEAN,
   oneof : Word, assoc : BOOLEAN, active : Nat, offset : Nat]

SchemaDef == [deps : SUBSET STRING, messages : Seq(Message), defined : BOOLEAN]

IsMessageDef(r) ==
  r \in [defined : BOOLEAN, layout : {"unknown", "dynamic", "sparse", "flat", "fixed"}, 
         nested : Seq(Message), fields : Seq(IRField), pair : BOOLEAN, oneofs : {r.oneofs}]

TypesInv ==
  /\ WellFormed(program) /\ options \in ParseOptions
  /\ enums \subseteq Enum /\ DOMAIN messages \subseteq Message
  /\ \A file \in DOMAIN schemas : schemas[file] \in SchemaDef
  /\ \A m \in DOMAIN messages : IsMessageDef(messages[m])

(* A file depends on files it imports, and lists its messages once.        *)
SchemasInv ==
  /\ \A e \in enums : EnumFile[e] \in DOMAIN schemas
  /\ \A file \in DOMAIN schemas :
       /\ \A b \in schemas[file].deps : b \in DOMAIN schemas /\ Imports(program, file, b)
       /\ \A i \in DOMAIN schemas[file].messages :
            /\ schemas[file].messages[i] \in DOMAIN messages
            /\ File(schemas[file].messages[i]) = file
       /\ \A i, j \in DOMAIN schemas[file].messages :
            schemas[file].messages[i] = schemas[file].messages[j] => i = j

(* A field of m refers to a message of the IR, in m's file or in one it    *)
(* depends on.                                                             *)
Fits(m, f) ==
  /\ f.to \in DOMAIN messages \cup {Null}
  /\ f.deprecated <=> f.name = None
  /\ f.deprecated => f.to = Null /\ f.type # "enum"
  /\ f.type = "message" /\ ~f.deprecated => f.to # Null
  /\ f.to # Null => File(f.to) \in schemas[File(m)].deps \cup {File(m)}
  /\ f.assoc => f.to # Null /\ D(f.to).map /\ File(f.to) = File(m)

KeptPlaces(m) == {i \in DOMAIN D(m).nested : LET n == D(m).nested[i] IN ~D(n).map /\ Kept(n)}

MessageInv(m) ==
  /\ Kept(m)
  /\ File(m) \in DOMAIN schemas
  /\ \E i \in DOMAIN schemas[File(m)].messages : schemas[File(m)].messages[i] = m
  /\ \A i \in DOMAIN messages[m].fields : Fits(m, messages[m].fields[i])
  /\ messages[m].nested = Only(D(m).nested, KeptPlaces(m))
  /\ messages[m].defined => IsTarget(File(m))
  /\ ~messages[m].defined => messages[m].layout = "unknown"
  /\ messages[m].defined /\ D(m).map => messages[m].layout = "fixed"

IRInv == TypesInv /\ SchemasInv /\ \A m \in DOMAIN messages : MessageInv(m)

-----------------------------------------------------------------------------
(* The invariant: how far the open calls are.                              *)

(* The types of fields that are ignored take the fields away.              *)
Wanted(f) == f.type \in Message => Kept(f.type)

(* The live fields are the wanted ones of the first n, each once.          *)
LiveIn(fields, m, n) ==
  /\ \A i \in DOMAIN fields : ~fields[i].deprecated =>
       \E j \in 1 .. n : fields[i].name = Collected(m)[j].name /\ Wanted(Collected(m)[j])
  /\ \A j \in 1 .. n : Wanted(Collected(m)[j]) =>
       \E i \in DOMAIN fields : ~fields[i].deprecated /\ fields[i].name = Collected(m)[j].name
  /\ \A i, j \in DOMAIN fields :
       ~fields[i].deprecated /\ ~fields[j].deprecated /\ fields[i].name = fields[j].name => i = j

(* The entry of a map has the key, then the value, and nothing else.       *)
EntryIn(fields, m, n) ==
  D(m).map =>
    /\ Len(fields) <= n /\ (n >= 1 => Len(fields) >= 1)
    /\ \A i \in DOMAIN fields : fields[i] = LiveField(D(m).fields[i], i)

FieldsIn(m, n) ==
  LiveIn(messages[m].fields, m, n) /\ EntryIn(messages[m].fields, m, n)

OpenCall == [msg : Message, at : {"nested", "fields"}, i : Nat \ {0}, nested : Seq(Message)]

(* The call c waits for what TraverseMessage of n returns.                 *)
Awaits(c, n) ==
  \/ c.at = "nested" /\ c.i <= Len(D(c.msg).nested) /\ n = D(c.msg).nested[c.i] /\ ~D(n).map
  \/ c.at = "fields" /\ c.i <= Len(Collected(c.msg)) /\ n = Collected(c.msg)[c.i].type

NestedCall(c) ==
  c.at = "nested" =>
    /\ c.i <= Len(D(c.msg).nested) + 1
    /\ c.nested = OnlyTo(D(c.msg).nested, KeptPlaces(c.msg), c.i - 1)

FieldsCall(c) ==
  c.at = "fields" =>
    /\ c.i <= Len(Collected(c.msg)) + 1
    /\ c.msg \in DOMAIN messages /\ ~messages[c.msg].defined /\ IsTarget(File(c.msg))
    /\ FieldsIn(c.msg, c.i - 1)

StackInv ==
  /\ todo \in Seq(Message) /\ stack \in Seq(OpenCall) /\ result \in Message \cup {None, Null}
  /\ \A i \in DOMAIN todo : todo[i] \in Range(program.roots)
  /\ phase = "check" => stack = <<>> /\ todo = <<>>
  /\ \A k \in DOMAIN stack :
       /\ NestedCall(stack[k]) /\ FieldsCall(stack[k])
       /\ \A l \in DOMAIN stack :
            stack[k].at = "fields" /\ stack[l].at = "fields" /\ stack[l].msg = stack[k].msg => l = k
       /\ k < Len(stack) => Awaits(stack[k], stack[k + 1].msg)

IsOpen(m) == \E k \in DOMAIN stack : stack[k].at = "fields" /\ stack[k].msg = m

(* A message is open in one call, or it is complete.                       *)
OpenMessage(m) ==
  /\ ~messages[m].pair
  /\ \A i \in DOMAIN messages[m].fields : messages[m].fields[i].active = 0
  /\ messages[m].defined => FieldsIn(m, Len(Collected(m)))
  /\ ~messages[m].defined /\ ~IsTarget(File(m)) => messages[m].fields = <<>>
  /\ ~messages[m].defined /\ IsTarget(File(m)) => IsOpen(m)

OpenInv == \A m \in DOMAIN messages : OpenMessage(m)

-----------------------------------------------------------------------------
(* The invariant: what is traversed.                                       *)

Closed(S) == Range(program.roots) \subseteq S /\ \A m \in S : Traversed(m) \subseteq S

(* Nothing is traversed but what the program leads to.                     *)
ReachInv ==
  \A S \in SUBSET Message : Closed(S) =>
    DOMAIN messages \subseteq S /\ \A k \in DOMAIN stack : stack[k].msg \in S

(* An open call has m's j-th field before it.                              *)
FieldAhead(m, j) ==
  \E k \in DOMAIN stack : stack[k].at = "fields" /\ stack[k].msg = m /\ stack[k].i <= j

(* All of T has been traversed but for the fields ahead.                   *)
SeenMessages(T) ==
  /\ DOMAIN messages \subseteq T
  /\ \A m \in T : Kept(m) => m \in DOMAIN messages
SeenNested(T) ==
  /\ \A m \in T : \A j \in DOMAIN D(m).nested : D(D(m).nested[j]).map \/ D(m).nested[j] \in T
  /\ \A k \in DOMAIN stack : stack[k].at = "nested" =>
       \A j \in 1 .. stack[k].i - 1 :
         D(D(stack[k].msg).nested[j]).map \/ D(stack[k].msg).nested[j] \in T
SeenTypes(T) ==
  \A m \in T : Kept(m) /\ IsTarget(File(m)) =>
    \A j \in DOMAIN Collected(m) :
      Collected(m)[j].type \in Message => Collected(m)[j].type \in T \/ FieldAhead(m, j)
SeenRoots(T) ==
  \A r \in Range(program.roots) :
    r \in T \/ r \in Range(todo) \/ (stack # <<>> /\ stack[1].msg = r)
SeenResult(T) ==
  result # None /\ stack # <<>> =>
    \E n \in T : Awaits(Top, n) /\ result = IF Kept(n) THEN n ELSE Null
Seen(T) == SeenMessages(T) /\ SeenNested(T) /\ SeenTypes(T) /\ SeenRoots(T) /\ SeenResult(T)

ParseInv ==
  phase \in {"parse", "check"} =>
    StackInv /\ OpenInv /\ ReachInv /\ \E T \in SUBSET Message : Seen(T)

(* The front end writes nothing else.                                      *)
Given == program' = program /\ options' = options

(* The program and the options never change, nor what is made of them      *)
(* alone.                                                                  *)
LEMMA Statics ==
  ASSUME Given
  PROVE  /\ Message' = Message
         /\ \A m : D(m)' = D(m)
         /\ \A m : File(m)' = File(m)
         /\ \A file : IsTarget(file)' <=> IsTarget(file)
         /\ \A m : Slice(m)' = Slice(m)
         /\ \A m : Collected(m)' = Collected(m)
<1> USE DEF Given
<1>1. Message' = Message
  BY DEF Message
<1>2. \A m : D(m)' = D(m)
  BY DEF D
<1>3. \A m : File(m)' = File(m)
  BY DEF D, File
<1>4. \A file : IsTarget(file)' <=> IsTarget(file)
  BY DEF IsTarget
<1>5. \A m : Slice(m)' = Slice(m)
  BY DEF D, Slice
<1>6. \A m : Collected(m)' = Collected(m)
  BY <1>2, <1>5 DEF Collected
<1> QED
  BY <1>1, <1>2, <1>3, <1>4, <1>5, <1>6

LEMMA KeptStatic ==
  ASSUME Given
  PROVE  \A m : Kept(m)' <=> Kept(m)
<1>1. \A m : D(m)' = D(m)
  BY Statics
<1>2. \A m : Slice(m)' = Slice(m)
  BY Statics
<1>3. \A m : Collected(m)' = Collected(m)
  BY Statics
<1>4. \A m : Empty(m)' <=> Empty(m)
  BY <1>3 DEF Empty, Given
<1>5. \A m : ShouldIgnore(m)' <=> ShouldIgnore(m)
  BY <1>1, <1>2 DEF ShouldIgnore
<1>6. \A m : Selected(m)' <=> Selected(m)
  BY <1>1, <1>2, <1>5 DEF Selected
<1> QED
  BY <1>4, <1>6 DEF Kept

LEMMA TraversalStatic ==
  ASSUME Given
  PROVE  /\ \A m : KeptPlaces(m)' = KeptPlaces(m)
         /\ \A f : Wanted(f)' <=> Wanted(f)
         /\ \A m : Traversed(m)' = Traversed(m)
         /\ \A S : Closed(S)' <=> Closed(S)
         /\ \A c, n : Awaits(c, n)' <=> Awaits(c, n)
         /\ \A f, id : LiveField(f, id)' = LiveField(f, id)
<1>1. Message' = Message /\ \A m : D(m)' = D(m)
  BY Statics
<1>2. \A m : Kept(m)' <=> Kept(m)
  BY KeptStatic
<1>3. \A m : Collected(m)' = Collected(m)
  BY Statics
<1>4. \A m : File(m)' = File(m)
  BY Statics
<1>5. \A file : IsTarget(file)' <=> IsTarget(file)
  BY Statics
<1>6. \A m : KeptPlaces(m)' = KeptPlaces(m)
  BY <1>1, <1>2 DEF KeptPlaces
<1>7. \A f : Wanted(f)' <=> Wanted(f)
  BY <1>1, <1>2 DEF Wanted
<1>8. \A m : Traversed(m)' = Traversed(m)
  BY <1>1, <1>2, <1>3, <1>4, <1>5 DEF Traversed
<1>9. \A S : Closed(S)' <=> Closed(S)
  BY <1>8 DEF Closed, Given
<1>10. \A c, n : Awaits(c, n)' <=> Awaits(c, n)
  BY <1>1, <1>3 DEF Awaits
<1>11. \A f, id : LiveField(f, id)' = LiveField(f, id)
  BY <1>1 DEF LiveField, TypeOf
<1> QED
  BY <1>6, <1>7, <1>8, <1>9, <1>10, <1>11

LEMMA FieldsStatic ==
  ASSUME Given
  PROVE  /\ \A fields, m, n : LiveIn(fields, m, n)' <=> LiveIn(fields, m, n)
         /\ \A fields, m, n : EntryIn(fields, m, n)' <=> EntryIn(fields, m, n)
         /\ \A c : NestedCall(c)' <=> NestedCall(c)
<1>1. \A m : D(m)' = D(m)
  BY Statics
<1>2. \A m : Collected(m)' = Collected(m)
  BY Statics
<1>3. \A f : Wanted(f)' <=> Wanted(f)
  BY TraversalStatic
<1>4. \A f, id : LiveField(f, id)' = LiveField(f, id)
  BY TraversalStatic
<1>5. \A m : KeptPlaces(m)' = KeptPlaces(m)
  BY TraversalStatic
<1>6. \A fields, m, n : LiveIn(fields, m, n)' <=> LiveIn(fields, m, n)
  BY <1>2, <1>3 DEF LiveIn
<1>7. \A fields, m, n : EntryIn(fields, m, n)' <=> EntryIn(fields, m, n)
  BY <1>1, <1>4 DEF EntryIn
<1>8. \A c : NestedCall(c)' <=> NestedCall(c)
  BY <1>1, <1>5 DEF NestedCall
<1> QED
  BY <1>6, <1>7, <1>8

-----------------------------------------------------------------------------
(* What descriptors and the fields built from them are made of.            *)

(* Descriptors have the types WellFormed gives them.                       *)
LEMMA DescriptorOf ==
  ASSUME TypesInv, NEW m \in Message
  PROVE  /\ D(m).nested \in Seq(Message) /\ D(m).fields \in Seq(FieldDescriptor(program))
         /\ D(m).options \in Seq(MessageOptions) /\ D(m).reserved \in Seq(Nat \ {0})
         /\ D(m).enums \subseteq Enum /\ D(m).map \in BOOLEAN
         /\ File(m) = D(m).file /\ File(m) \in STRING
         /\ m \notin Enum /\ m \notin BasicType /\ m # None /\ m # Null
<1>1. D(m) \in Descriptor(program) /\ m \in STRING \ (Enum \cup BasicType \cup {None, Null})
  BY DEF TypesInv, WellFormed, D, Message
<1> QED
  BY <1>1 DEF Descriptor, File, Message

LEMMA NamesDiffer ==
  ASSUME TypesInv, NEW m \in Message
  PROVE  \A i, j \in DOMAIN D(m).fields : D(m).fields[i].name = D(m).fields[j].name => i = j
  BY DEF TypesInv, WellFormed, D, Message

LEMMA FieldTyped ==
  ASSUME NEW f \in FieldDescriptor(program)
  PROVE  /\ f.name \in STRING /\ f.name # None /\ f.number \in Nat /\ f.number # 0
         /\ f.type \in Message \cup Enum \cup BasicType
         /\ f.repeated \in BOOLEAN /\ f.deprecated \in BOOLEAN /\ f.oneof \in STRING
         /\ f.options \in Seq([slice : STRING, id : Nat])
  BY DEF FieldDescriptor, Message

(* What CollectFields keeps is of the descriptor.                          *)
LEMMA CollectedIs ==
  ASSUME TypesInv, NEW m \in Message
  PROVE  /\ Collected(m) \in Seq(FieldDescriptor(program))
         /\ \A i \in DOMAIN Collected(m) : \E j \in DOMAIN D(m).fields : Collected(m)[i] = D(m).fields[j]
         /\ \A i, j \in DOMAIN Collected(m) : Collected(m)[i].name = Collected(m)[j].name => i = j
<1> DEFINE I == {i \in DOMAIN D(m).fields :
                   IF Slice(m) = "" THEN ~D(m).fields[i].deprecated
                   ELSE Resolved(D(m).fields[i].options, Slice(m)) # <<>>}
<1>1. Collected(m) = Only(D(m).fields, I)
  BY DEF Collected
<1> HIDE DEF I
<1>2. D(m).fields \in Seq(FieldDescriptor(program))
  BY DescriptorOf
<1>3. Selection(FieldDescriptor(program), Collected(m), D(m).fields, I, Len(D(m).fields))
  BY <1>1, <1>2, OnlySelects
<1>4. DOMAIN D(m).fields = 1 .. Len(D(m).fields)
  BY <1>2
<1>5. \A i, j \in DOMAIN D(m).fields : D(m).fields[i].name = D(m).fields[j].name => i = j
  BY NamesDiffer
<1>6. \A i \in DOMAIN Collected(m) : \E j \in DOMAIN D(m).fields : Collected(m)[i] = D(m).fields[j]
  BY <1>3, <1>4 DEF Selection
<1>7. \A i, j \in DOMAIN Collected(m) : Collected(m)[i] = Collected(m)[j] => i = j
  BY <1>3, <1>4, <1>5 DEF Selection
<1>8. \A i, j \in DOMAIN Collected(m) :
        Collected(m)[i].name = Collected(m)[j].name => Collected(m)[i] = Collected(m)[j]
  BY <1>5, <1>6
<1> QED
  BY <1>3, <1>6, <1>7, <1>8 DEF Selection

LEMMA CollectedTyped ==
  ASSUME TypesInv, NEW m \in Message
  PROVE  /\ DOMAIN Collected(m) = 1 .. Len(Collected(m)) /\ Len(Collected(m)) \in Nat
         /\ \A j \in 1 .. Len(Collected(m)) : Collected(m)[j] \in FieldDescriptor(program)
  BY CollectedIs

LEMMA NothingResolved ==
  ASSUME NEW slice
  PROVE  Resolved(<<>>, slice) = <<>>
<1>1. \A I : Only(<<>>, I) = <<>>
  <2> TAKE I
  <2>1. << >> \in Seq(STRING) /\ \A i \in DOMAIN << >> : i \notin I
    OBVIOUS
  <2> QED
    BY <2>1, OnlyNone
<1> QED
  BY <1>1 DEF Resolved

(* An entry of a map collects its key and its value.                       *)
LEMMA EntryDescriptor ==
  ASSUME TypesInv, NEW m \in Message, D(m).map
  PROVE  /\ Collected(m) = D(m).fields /\ Len(D(m).fields) = 2 /\ DOMAIN D(m).fields = {1, 2}
         /\ D(m).options = <<>> /\ D(m).reserved = <<>> /\ D(m).nested = <<>> /\ Slice(m) = ""
         /\ D(m).fields[1].type \in {"bool", "int32", "string"}
         /\ \A i \in {1, 2} :
              /\ FieldId(D(m).fields[i], "") = i
              /\ ~D(m).fields[i].repeated /\ ~D(m).fields[i].deprecated
              /\ D(m).fields[i].oneof = None
<1>1. IsMapEntry(D(m))
  BY DEF TypesInv, WellFormed, D, Message
<1>2. D(m).fields \in Seq(FieldDescriptor(program)) /\ Len(D(m).fields) = 2
  BY <1>1, DescriptorOf DEF IsMapEntry
<1>3. DOMAIN D(m).fields = {1, 2}
  BY <1>2
<1>4. Slice(m) = ""
  BY DEF Slice
<1> DEFINE I == {i \in DOMAIN D(m).fields :
                   IF Slice(m) = "" THEN ~D(m).fields[i].deprecated
                   ELSE Resolved(D(m).fields[i].options, Slice(m)) # <<>>}
<1>5. Collected(m) = Only(D(m).fields, I)
  BY DEF Collected
<1>6. DOMAIN D(m).fields \subseteq I
  BY <1>1, <1>3, <1>4 DEF IsMapEntry
<1> HIDE DEF I
<1>7. Collected(m) = D(m).fields
  BY <1>2, <1>5, <1>6, OnlyAll
<1>8. \A i \in {1, 2} : FieldId(D(m).fields[i], "") = i
  <2> TAKE i \in {1, 2}
  <2>1. D(m).fields[i].options = <<>> /\ D(m).fields[i].number = i
    BY <1>1 DEF IsMapEntry
  <2>2. Resolved(D(m).fields[i].options, "") = <<>>
    BY <2>1, NothingResolved
  <2> QED
    BY <2>1, <2>2 DEF FieldId
<1> QED
  BY <1>1, <1>2, <1>3, <1>4, <1>7, <1>8 DEF IsMapEntry

LEMMA TypeOfIs ==
  ASSUME NEW type \in Word, NEW repeated \in BOOLEAN, Message \cap Enum = {}
  PROVE  /\ TypeOf(type, repeated) \in Word
         /\ TypeOf(type, repeated) = "message" => type \in Message \/ (type = "message" /\ type \notin Enum)
         /\ type \notin Message \cup Enum /\ ~repeated => TypeOf(type, repeated) = type
<1>1. CASE repeated
  BY <1>1 DEF TypeOf, Word
<1>2. CASE ~repeated /\ type \in Message
  BY <1>2 DEF TypeOf, Word
<1>3. CASE ~repeated /\ type \in Enum
  BY <1>3 DEF TypeOf, Word
<1>4. CASE ~repeated /\ type \notin Message \cup Enum
  BY <1>4 DEF TypeOf
<1> QED
  BY <1>1, <1>2, <1>3, <1>4

(* A live field of the IR, by the kind of its type.                        *)
LEMMA LiveFieldIs ==
  ASSUME TypesInv, NEW f \in FieldDescriptor(program), NEW id \in Nat
  PROVE  /\ LiveField(f, id) \in IRField
         /\ LiveField(f, id).name = f.name /\ LiveField(f, id).id = id
         /\ LiveField(f, id).to = IF f.type \in Message THEN f.type ELSE Null
         /\ LiveField(f, id).type = "message" => f.type \in Message
         /\ f.type \in BasicType /\ ~f.repeated => LiveField(f, id).type = f.type
         /\ LiveField(f, id).deprecated = FALSE /\ LiveField(f, id).active = 0
         /\ LiveField(f, id).assoc <=> f.type \in Message /\ D(f.type).map
<1>1. /\ f.name \in STRING /\ f.name # None /\ f.oneof \in STRING /\ f.repeated \in BOOLEAN
      /\ f.type \in Message \cup Enum \cup BasicType
  BY FieldTyped
<1>2. /\ \A m \in Message : D(m).map \in BOOLEAN
      /\ \A m \in Message : m \in STRING /\ m \notin Enum /\ m \notin BasicType
  BY DescriptorOf DEF TypesInv, WellFormed, Message
<1>3. Enum \subseteq STRING \ BasicType
  BY FrontEndAssumption
<1> DEFINE type == TypeOf(f.type, f.repeated)
           to == IF f.type \in Message THEN f.type ELSE Null
           assoc == f.type \in Message /\ D(f.type).map
<1>4. LiveField(f, id) = [name |-> f.name, id |-> id, type |-> type, to |-> to, deprecated |-> FALSE,
                          oneof |-> f.oneof, assoc |-> assoc, active |-> 0, offset |-> 0]
  BY DEF LiveField
<1>5. f.type \in Word /\ (f.type = "message" /\ f.type \notin Enum => f.type \in Message)
  BY <1>1, <1>2, <1>3 DEF BasicType, Word
<1>6. /\ type \in Word /\ (type = "message" => f.type \in Message)
      /\ f.type \in BasicType /\ ~f.repeated => type = f.type
  <2>1. Message \cap Enum = {}
    BY <1>2
  <2> QED
    BY <1>1, <1>2, <1>3, <1>5, <2>1, TypeOfIs
<1>7. to \in Message \cup {Null} /\ assoc \in BOOLEAN
  BY <1>2
<1> HIDE DEF type, to, assoc
<1>8. LiveField(f, id) \in IRField
  BY <1>1, <1>4, <1>6, <1>7 DEF IRField, Word
<1>9. /\ LiveField(f, id).name = f.name /\ LiveField(f, id).id = id
      /\ LiveField(f, id).to = to /\ LiveField(f, id).type = type
      /\ LiveField(f, id).deprecated = FALSE /\ LiveField(f, id).active = 0
      /\ LiveField(f, id).assoc = assoc
  BY <1>4
<1>10. LiveField(f, id).assoc <=> f.type \in Message /\ D(f.type).map
  BY <1>9 DEF assoc
<1> QED
  BY <1>6, <1>8, <1>9, <1>10 DEF to

LEMMA Joined ==
  ASSUME NEW E, NEW s \in Seq(E), NEW t \in Seq(E)
  PROVE  /\ s \o t \in Seq(E) /\ Len(s \o t) = Len(s) + Len(t)
         /\ DOMAIN (s \o t) = 1 .. Len(s) + Len(t) /\ Len(s) \in Nat /\ Len(t) \in Nat
         /\ \A i \in 1 .. Len(s) : (s \o t)[i] = s[i]
         /\ \A i \in Len(s) + 1 .. Len(s) + Len(t) : (s \o t)[i] = t[i - Len(s)]
  OBVIOUS

LEMMA SeqOfMore ==
  ASSUME NEW A, NEW B, A \subseteq B, NEW s \in Seq(A)
  PROVE  s \in Seq(B)
<1>1. Len(s) \in Nat /\ DOMAIN s = 1 .. Len(s) /\ \A i \in 1 .. Len(s) : s[i] \in B
  OBVIOUS
<1>2. s = [i \in 1 .. Len(s) |-> s[i]]
  OBVIOUS
<1>3. [i \in 1 .. Len(s) |-> s[i]] \in Seq(B)
  BY <1>1
<1> QED
  BY <1>2, <1>3

LEMMA HeadIn ==
  ASSUME NEW E, NEW s \in Seq(E), s # <<>>
  PROVE  Head(s) \in E
  OBVIOUS

LEMMA OnlyTyped ==
  ASSUME NEW E, NEW s \in Seq(E), NEW I
  PROVE  Only(s, I) \in Seq(E)
  BY OnlySelects DEF Selection

LEMMA ResolvedTyped ==
  ASSUME NEW E, NEW metas \in Seq(E), NEW slice
  PROVE  Resolved(metas, slice) \in Seq(E)
<1> DEFINE of(s) == Only(metas, {i \in DOMAIN metas : metas[i].slice = s})
<1>1. of(slice) \in Seq(E)
  BY OnlyTyped
<1>2. of("") \in Seq(E)
  BY OnlyTyped
<1> HIDE DEF of
<1>3. Resolved(metas, slice) = of(slice) \o of("")
  BY DEF Resolved, of
<1> QED
  BY <1>1, <1>2, <1>3, Joined

LEMMA FieldIdTyped ==
  ASSUME NEW f \in FieldDescriptor(program), NEW slice
  PROVE  FieldId(f, slice) \in Nat
<1> DEFINE found == Resolved(f.options, slice)
<1>1. f.options \in Seq([slice : STRING, id : Nat]) /\ f.number \in Nat
  BY FieldTyped
<1>2. found \in Seq([slice : STRING, id : Nat])
  BY <1>1, ResolvedTyped
<1> HIDE DEF found
<1>3. found # <<>> => Head(found).id \in Nat
  <2>1. found # <<>> => Head(found) \in [slice : STRING, id : Nat]
    BY <1>2, HeadIn
  <2> QED
    BY <2>1
<1>4. FieldId(f, slice) = IF found # <<>> /\ Head(found).id > 0 THEN Head(found).id ELSE f.number
  BY DEF FieldId, found
<1> QED
  BY <1>1, <1>3, <1>4

(* What is known of a deprecated field or a reserved number.               *)
Reserved == [id : Nat, type : Word, repeated : BOOLEAN]

LEMMA DeprecatedTyped ==
  ASSUME TypesInv, NEW m \in Message
  PROVE  DeprecatedFields(m) \in Seq(Reserved)
<1> DEFINE found == Resolved(D(m).options, Slice(m))
           old == Only(D(m).fields, {i \in DOMAIN D(m).fields : D(m).fields[i].deprecated})
           kept == [i \in DOMAIN old |-> [id |-> old[i].number, type |-> old[i].type,
                                          repeated |-> old[i].repeated]]
           typed == GetDeprecatedFields(m) \o kept
           numbers == Only(D(m).reserved, {i \in DOMAIN D(m).reserved :
                             D(m).reserved[i] \notin {f.id : f \in Range(typed)}})
           untyped == [i \in DOMAIN numbers |-> [id |-> numbers[i], type |-> None, repeated |-> FALSE]]
<1>1. /\ D(m).fields \in Seq(FieldDescriptor(program)) /\ D(m).options \in Seq(MessageOptions)
      /\ D(m).reserved \in Seq(Nat \ {0})
  BY DescriptorOf
<1>2. found \in Seq(MessageOptions)
  BY <1>1, ResolvedTyped
<1>3. old \in Seq(FieldDescriptor(program))
  BY <1>1, OnlyTyped
<1>4. numbers \in Seq(Nat \ {0})
  BY <1>1, OnlyTyped
<1>5. DeprecatedFields(m) = IF Slice(m) # "" THEN GetDeprecatedFields(m) ELSE typed \o untyped
  BY DEF DeprecatedFields
<1>6. GetDeprecatedFields(m) = IF found = <<>> THEN <<>> ELSE Head(found).reserved
  BY DEF GetDeprecatedFields
<1> HIDE DEF found, old, numbers
<1>7. GetDeprecatedFields(m) \in Seq(Reserved)
  <2>1. found # <<>> => Head(found) \in MessageOptions
    BY <1>2
  <2>2. \A x \in MessageOptions : x.reserved \in Seq([id : Nat, type : STRING, repeated : BOOLEAN])
    BY DEF MessageOptions
  <2>3. [id : Nat, type : STRING, repeated : BOOLEAN] \subseteq Reserved
    BY DEF Reserved, Word
  <2>4. \A s \in Seq([id : Nat, type : STRING, repeated : BOOLEAN]) : s \in Seq(Reserved)
    BY <2>3, SeqOfMore
  <2> QED
    BY <1>6, <2>1, <2>2, <2>4
<1>8. kept \in Seq(Reserved)
  <2>1. \A f \in FieldDescriptor(program) :
          [id |-> f.number, type |-> f.type, repeated |-> f.repeated] \in Reserved
    <3> TAKE f \in FieldDescriptor(program)
    <3>1. f.number \in Nat /\ f.type \in Message \cup Enum \cup BasicType /\ f.repeated \in BOOLEAN
      BY FieldTyped
    <3>2. Message \subseteq STRING /\ Enum \subseteq STRING
      BY FrontEndAssumption DEF TypesInv, WellFormed, Message
    <3> QED
      BY <3>1, <3>2 DEF Reserved, Word
  <2>2. DOMAIN old = 1 .. Len(old) /\ Len(old) \in Nat
        /\ \A i \in DOMAIN old : old[i] \in FieldDescriptor(program)
    BY <1>3
  <2> QED
    BY <2>1, <2>2
<1>9. untyped \in Seq(Reserved)
  <2>1. DOMAIN numbers = 1 .. Len(numbers) /\ Len(numbers) \in Nat
        /\ \A i \in DOMAIN numbers : numbers[i] \in Nat
    BY <1>4
  <2>2. \A n \in Nat : [id |-> n, type |-> None, repeated |-> FALSE] \in Reserved
    BY DEF Reserved, Word
  <2> QED
    BY <2>1, <2>2
<1> HIDE DEF kept, untyped
<1>10. typed \in Seq(Reserved)
  BY <1>7, <1>8, Joined
<1> HIDE DEF typed
<1>11. typed \o untyped \in Seq(Reserved)
  BY <1>9, <1>10, Joined
<1> QED
  BY <1>5, <1>7, <1>11

(* What is left of a field that has been retired.                          *)
RetiredField ==
  {f \in IRField : f.deprecated /\ f.name = None /\ f.to = Null /\ f.type # "enum"
                     /\ f.active = 0 /\ ~f.assoc}

(* A deprecated field has no name and refers to nothing.                   *)
LEMMA DeprecatedFieldRetired ==
  ASSUME TypesInv, NEW f \in Reserved
  PROVE  DeprecatedField(f) \in RetiredField
<1> DEFINE type == TypeOf(f.type, f.repeated)
           kept == IF type = "enum" THEN "int32" ELSE type
<1>1. f.id \in Nat /\ f.type \in Word /\ f.repeated \in BOOLEAN
  BY DEF Reserved
<1>2. Message \cap Enum = {}
  BY DescriptorOf
<1>3. type \in Word
  BY <1>1, <1>2, TypeOfIs
<1>4. DeprecatedField(f) = [NewField EXCEPT !.id = f.id, !.type = kept]
  BY DEF DeprecatedField
<1> HIDE DEF type
<1>5. kept \in Word /\ kept # "enum"
  BY <1>3 DEF Word, BasicType
<1> HIDE DEF kept
<1>6. DeprecatedField(f) =
        [name |-> None, id |-> f.id, type |-> kept, to |-> Null, deprecated |-> TRUE,
         oneof |-> None, assoc |-> FALSE, active |-> 0, offset |-> 0]
  BY <1>4 DEF NewField
<1> QED
  BY <1>1, <1>5, <1>6 DEF RetiredField, IRField, Word

LEMMA NumberedField ==
  ASSUME NEW x
  PROVE  [NewField EXCEPT !.id = x] =
           [name |-> None, id |-> x, type |-> None, to |-> Null, deprecated |-> TRUE,
            oneof |-> None, assoc |-> FALSE, active |-> 0, offset |-> 0]
<1> DEFINE r == [NewField EXCEPT !.id = x]
           keys == {"name", "id", "type", "to", "deprecated", "oneof", "assoc", "active", "offset"}
<1>1. /\ DOMAIN NewField = keys
      /\ NewField = [key \in keys |-> NewField[key]]
      /\ NewField.name = None /\ NewField.type = None /\ NewField.to = Null
      /\ NewField.deprecated = TRUE /\ NewField.oneof = None /\ NewField.assoc = FALSE
      /\ NewField.active = 0 /\ NewField.offset = 0
  BY DEF NewField
<1>2. r = [key \in keys |-> IF key = "id" THEN x ELSE NewField[key]]
  BY ONLY <1>1
<1> HIDE DEF r
<1>3. /\ r.id = x /\ r.name = None /\ r.type = None /\ r.to = Null
      /\ r.deprecated = TRUE /\ r.oneof = None /\ r.assoc = FALSE
      /\ r.active = 0 /\ r.offset = 0
  BY <1>1, <1>2
<1>4. r = [key \in keys |-> r[key]]
  BY <1>2
<1>5. r = [name |-> None, id |-> x, type |-> None, to |-> Null, deprecated |-> TRUE,
           oneof |-> None, assoc |-> FALSE, active |-> 0, offset |-> 0]
  BY ONLY <1>3, <1>4
<1> QED
  BY <1>5 DEF r

(* A field that fills a gap has no name and refers to nothing.             *)
LEMMA GapRetired ==
  ASSUME NEW x, x \in Nat
  PROVE  [NewField EXCEPT !.id = x] \in RetiredField
<1> DEFINE r == [name |-> None, id |-> x, type |-> None, to |-> Null, deprecated |-> TRUE,
                 oneof |-> None, assoc |-> FALSE, active |-> 0, offset |-> 0]
<1>1. r \in RetiredField
  BY DEF RetiredField, IRField, Word, None
<1> HIDE DEF r
<1>2. [NewField EXCEPT !.id = x] = r
  BY NumberedField DEF r
<1> QED
  BY <1>1, <1>2

LEMMA FieldElement ==
  ASSUME NEW fields \in Seq(IRField), NEW i \in DOMAIN fields
  PROVE  /\ fields[i] \in IRField /\ fields[i].id \in Nat /\ fields[i].type \in Word
         /\ fields[i].to \in Message \cup {Null} /\ fields[i].deprecated \in BOOLEAN
         /\ fields[i].assoc \in BOOLEAN /\ i \in 1 .. Len(fields)
<1>1. fields[i] \in IRField /\ i \in 1 .. Len(fields)
  OBVIOUS
<1>2. \A f \in IRField : /\ f.id \in Nat /\ f.type \in Word /\ f.to \in Message \cup {Null}
                          /\ f.deprecated \in BOOLEAN /\ f.assoc \in BOOLEAN
  BY DEF IRField
<1> QED
  BY <1>1, <1>2

LEMMA IdsBounded ==
  ASSUME NEW fields \in Seq(IRField)
  PROVE  \E n \in Nat : \A i \in DOMAIN fields : fields[i].id <= n
<1> DEFINE S == {k \in 0 .. Len(fields) : \E n \in Nat : \A i \in 1 .. k : fields[i].id <= n}
<1>1. Len(fields) \in Nat /\ DOMAIN fields = 1 .. Len(fields)
  OBVIOUS
<1>2. \A i \in 1 .. Len(fields) : fields[i].id \in Nat
  BY <1>1, FieldElement
<1>3. 0 \in S
  BY <1>1
<1>4. \A k \in 1 .. Len(fields) : k - 1 \in S => k \in S
  <2> SUFFICES ASSUME NEW k \in 1 .. Len(fields), k - 1 \in S PROVE k \in S
    OBVIOUS
  <2>1. PICK n \in Nat : \A i \in 1 .. k - 1 : fields[i].id <= n
    OBVIOUS
  <2> DEFINE top == fields[k].id
  <2>2. top \in Nat
    BY <1>2
  <2> DEFINE bound == n + top
  <2>3. bound \in Nat /\ \A i \in 1 .. k : fields[i].id <= bound
    <3>1. \A i \in 1 .. k : i \in 1 .. k - 1 \/ i = k
      BY <1>1
    <3>2. \A i \in 1 .. k - 1 : fields[i].id \in Nat
      BY <1>1, <1>2
    <3> HIDE DEF top
    <3>3. \A i \in 1 .. k - 1 : fields[i].id <= n + top
      BY <2>1, <2>2, <3>2
    <3>4. fields[k].id <= n + top
      BY <2>2 DEF top
    <3> QED
      BY <2>2, <3>1, <3>3, <3>4
  <2> HIDE DEF bound
  <2>4. \E b \in Nat : \A i \in 1 .. k : fields[i].id <= b
    BY <2>3
  <2>5. k \in 0 .. Len(fields)
    BY <1>1
  <2> QED
    BY ONLY <2>4, <2>5
<1> HIDE DEF S
<1>5. \A k \in 0 .. Len(fields) : k \in S
  BY <1>1, <1>3, <1>4, Upwards
<1>6. Len(fields) \in S
  BY <1>1, <1>5
<1> QED
  BY <1>1, <1>6 DEF S

LEMMA MaxId ==
  ASSUME NEW fields \in Seq(IRField)
  PROVE  LET ids == {f.id : f \in Range(fields)}
         IN  Max(ids \cup {0}) \in Nat /\ \A id \in ids : id <= Max(ids \cup {0})
<1> DEFINE ids == {f.id : f \in Range(fields)}
           all == ids \cup {0}
<1>1. PICK n \in Nat : \A i \in DOMAIN fields : fields[i].id <= n
  BY IdsBounded
<1>2. \A i \in DOMAIN fields : fields[i].id \in Nat
  BY FieldElement
<1>3. all \in SUBSET (0 .. n) /\ all # {}
  BY <1>1, <1>2 DEF Range
<1>4. ids \subseteq all
  OBVIOUS
<1> HIDE DEF all
<1>5. Max(all) \in all /\ \A y \in all : Max(all) >= y
  BY <1>3, GreatestExists
<1>6. Max(all) \in Nat /\ \A y \in all : y \in Nat
  <2>1. \A y \in all : y \in 0 .. n
    BY <1>3
  <2>2. \A y \in all : y \in Nat
    BY <2>1
  <2> QED
    BY <1>5, <2>2
<1> HIDE DEF ids
<1>7. Max(all) \in Nat /\ \A y \in ids : y <= Max(all)
  BY <1>4, <1>5, <1>6
<1> QED
  BY <1>7 DEF all, ids

LEMMA UnnumberedTyped ==
  ASSUME NEW fields \in Seq(IRField)
  PROVE  Unnumbered(fields) \in Seq(Nat)
<1> DEFINE ids == {f.id : f \in Range(fields)}
           max == Max(ids \cup {0})
           count == [id \in 1 .. max |-> id]
<1>1. Unnumbered(fields) = IF options.fillGaps THEN Only(count, Nat \ ids) ELSE <<>>
  BY DEF Unnumbered
<1>2. max \in Nat
  BY MaxId
<1> HIDE DEF ids, max
<1>3. count \in Seq(Nat)
  BY <1>2
<1> HIDE DEF count
<1>4. Only(count, Nat \ ids) \in Seq(Nat)
  BY <1>3, OnlyTyped
<1> QED
  BY <1>1, <1>4

(* fields, and only retired fields after them.                             *)
Extends(all, fields) ==
  /\ all \in Seq(IRField) /\ fields \in Seq(IRField) /\ Len(fields) <= Len(all)
  /\ \A i \in DOMAIN fields : all[i] = fields[i]
  /\ \A i \in DOMAIN all : i \in DOMAIN fields \/ all[i] \in RetiredField

LEMMA ExtendedBy ==
  ASSUME NEW fields \in Seq(IRField), NEW more \in Seq(RetiredField)
  PROVE  Extends(fields \o more, fields)
<1>1. RetiredField \subseteq IRField
  BY DEF RetiredField
<1>2. more \in Seq(IRField)
  BY <1>1, SeqOfMore
<1>3. /\ fields \o more \in Seq(IRField)
      /\ DOMAIN fields = 1 .. Len(fields) /\ DOMAIN more = 1 .. Len(more)
      /\ DOMAIN (fields \o more) = 1 .. Len(fields) + Len(more)
      /\ Len(fields \o more) = Len(fields) + Len(more)
      /\ Len(fields) \in Nat /\ Len(more) \in Nat
      /\ \A i \in 1 .. Len(fields) : (fields \o more)[i] = fields[i]
      /\ \A i \in Len(fields) + 1 .. Len(fields) + Len(more) :
           (fields \o more)[i] = more[i - Len(fields)]
  BY <1>2, Joined
<1>4. \A i \in Len(fields) + 1 .. Len(fields) + Len(more) :
        i - Len(fields) \in 1 .. Len(more)
  BY <1>3
<1>5. \A i \in 1 .. Len(more) : more[i] \in RetiredField
  BY <1>3
<1>6. \A i \in 1 .. Len(fields) + Len(more) :
        i \in 1 .. Len(fields) \/ i \in Len(fields) + 1 .. Len(fields) + Len(more)
  BY <1>3
<1> DEFINE all == fields \o more
<1>7. all \in Seq(IRField) /\ Len(fields) <= Len(all) /\ DOMAIN all = 1 .. Len(fields) + Len(more)
  BY <1>3
<1>8. \A i \in DOMAIN fields : all[i] = fields[i]
  BY <1>3
<1>9. \A i \in DOMAIN all : i \in DOMAIN fields \/ all[i] \in RetiredField
  BY <1>3, <1>4, <1>5, <1>6
<1> HIDE DEF all
<1>10. Extends(all, fields)
  BY <1>7, <1>8, <1>9 DEF Extends
<1> QED
  BY <1>10 DEF all

(* Retired fields are added behind the live ones, twice.                   *)
LEMMA ExtendsTwice ==
  ASSUME NEW a, NEW b, NEW c, Extends(a, b), Extends(b, c)
  PROVE  Extends(a, c)
<1>1. /\ DOMAIN a = 1 .. Len(a) /\ DOMAIN b = 1 .. Len(b) /\ DOMAIN c = 1 .. Len(c)
      /\ Len(a) \in Nat /\ Len(b) \in Nat /\ Len(c) \in Nat
      /\ Len(c) <= Len(b) /\ Len(b) <= Len(a)
  BY DEF Extends
<1> QED
  BY <1>1 DEF Extends

LEMMA WithDeprecatedExtends ==
  ASSUME TypesInv, NEW fields \in Seq(IRField), NEW deprecated \in Seq(Reserved)
  PROVE  Extends(WithDeprecated(fields, deprecated), fields)
<1> DEFINE unused(i) ==
             /\ deprecated[i].id \notin {f.id : f \in Range(fields)}
             /\ \A j \in 1 .. i - 1 : deprecated[j].id # deprecated[i].id
           I == {i \in DOMAIN deprecated :
                   deprecated[i].type # None \/ (~options.skipReserved /\ unused(i))}
           retired == [i \in DOMAIN deprecated |-> DeprecatedField(deprecated[i])]
<1>1. WithDeprecated(fields, deprecated) = fields \o Only(retired, I)
  BY DEF WithDeprecated
<1> HIDE DEF I
<1>2. retired \in Seq(RetiredField)
  <2>1. DOMAIN deprecated = 1 .. Len(deprecated) /\ Len(deprecated) \in Nat
        /\ \A i \in DOMAIN deprecated : deprecated[i] \in Reserved
    OBVIOUS
  <2>2. \A i \in DOMAIN deprecated : DeprecatedField(deprecated[i]) \in RetiredField
    BY <2>1, DeprecatedFieldRetired
  <2> QED
    BY <2>1, <2>2
<1> HIDE DEF retired
<1>3. Only(retired, I) \in Seq(RetiredField)
  BY <1>2, OnlyTyped
<1> QED
  BY <1>1, <1>3, ExtendedBy

LEMMA WithGapsFilledExtends ==
  ASSUME NEW fields \in Seq(IRField)
  PROVE  Extends(WithGapsFilled(fields), fields)
<1> DEFINE gaps == Unnumbered(fields)
           filled == [i \in DOMAIN gaps |-> [NewField EXCEPT !.id = gaps[i]]]
<1>1. WithGapsFilled(fields) = fields \o filled
  BY DEF WithGapsFilled
<1>2. gaps \in Seq(Nat)
  BY UnnumberedTyped
<1> HIDE DEF gaps
<1>3. filled \in Seq(RetiredField)
  <2>1. DOMAIN gaps = 1 .. Len(gaps) /\ Len(gaps) \in Nat /\ \A i \in DOMAIN gaps : gaps[i] \in Nat
    BY <1>2
  <2>2. \A i \in DOMAIN gaps : [NewField EXCEPT !.id = gaps[i]] \in RetiredField
    BY <2>1, GapRetired
  <2> QED
    BY <2>1, <2>2
<1> HIDE DEF filled
<1> QED
  BY <1>1, <1>3, ExtendedBy

(* What FinishMessage leaves of the fields of m.                           *)
Finished(m, fields) == WithGapsFilled(WithDeprecated(fields, DeprecatedFields(m)))

(* FinishMessage adds retired fields only.                                 *)
LEMMA FinishedExtends ==
  ASSUME TypesInv, NEW m \in Message, NEW fields \in Seq(IRField)
  PROVE  Extends(Finished(m, fields), fields)
<1> DEFINE with == WithDeprecated(fields, DeprecatedFields(m))
<1>1. Extends(with, fields)
  BY DeprecatedTyped, WithDeprecatedExtends
<1> HIDE DEF with
<1>2. with \in Seq(IRField)
  BY <1>1 DEF Extends
<1>3. Extends(WithGapsFilled(with), with)
  BY <1>2, WithGapsFilledExtends
<1>4. Extends(WithGapsFilled(with), fields)
  BY <1>1, <1>3, ExtendsTwice
<1> QED
  BY <1>4 DEF Finished, with

(* The entry of a map is finished as it is.                                *)
LEMMA EntryFinished ==
  ASSUME TypesInv, NEW m \in Message, D(m).map,
         NEW fields \in Seq(IRField), EntryIn(fields, m, 2)
  PROVE  Finished(m, fields) = fields
<1>1. /\ Len(D(m).fields) = 2 /\ DOMAIN D(m).fields = {1, 2}
      /\ D(m).options = <<>> /\ D(m).reserved = <<>> /\ Slice(m) = ""
      /\ \A i \in {1, 2} : ~D(m).fields[i].deprecated
  BY EntryDescriptor
<1>2. GetDeprecatedFields(m) = <<>>
  BY <1>1, NothingResolved DEF GetDeprecatedFields
<1> DEFINE old == Only(D(m).fields, {i \in DOMAIN D(m).fields : D(m).fields[i].deprecated})
           kept == [i \in DOMAIN old |-> [id |-> old[i].number, type |-> old[i].type,
                                          repeated |-> old[i].repeated]]
           typed == GetDeprecatedFields(m) \o kept
           numbers == Only(D(m).reserved, {i \in DOMAIN D(m).reserved :
                             D(m).reserved[i] \notin {f.id : f \in Range(typed)}})
           untyped == [i \in DOMAIN numbers |-> [id |-> numbers[i], type |-> None, repeated |-> FALSE]]
<1>3. DeprecatedFields(m) = typed \o untyped
  BY <1>1 DEF DeprecatedFields
<1>4. old = <<>>
  <2>1. D(m).fields \in Seq(FieldDescriptor(program))
    BY DescriptorOf
  <2> DEFINE I == {i \in DOMAIN D(m).fields : D(m).fields[i].deprecated}
  <2>2. \A i \in DOMAIN D(m).fields : i \notin I
    BY <1>1
  <2> HIDE DEF I
  <2>3. Only(D(m).fields, I) = <<>>
    BY <2>1, <2>2, OnlyNone
  <2> QED
    BY <2>3 DEF I
<1>5. numbers = <<>>
  <2> DEFINE I == {i \in DOMAIN D(m).reserved : D(m).reserved[i] \notin {f.id : f \in Range(typed)}}
  <2>1. numbers = Only(<<>>, I)
    BY <1>1
  <2>2. << >> \in Seq(Nat) /\ \A i \in DOMAIN << >> : i \notin I
    OBVIOUS
  <2> HIDE DEF I
  <2>3. Only(<<>>, I) = <<>>
    BY <2>2, OnlyNone
  <2> QED
    BY <2>1, <2>3
<1> HIDE DEF old, numbers
<1>6. kept = <<>> /\ untyped = <<>>
  BY <1>4, <1>5
<1> HIDE DEF kept, untyped
<1>7. DeprecatedFields(m) = <<>>
  BY <1>2, <1>3, <1>6
<1>8. WithDeprecated(fields, <<>>) = fields
  <2> DEFINE d == << >>
             unused(i) ==
               /\ d[i].id \notin {f.id : f \in Range(fields)}
               /\ \A j \in 1 .. i - 1 : d[j].id # d[i].id
             I == {i \in DOMAIN d : d[i].type # None \/ (~options.skipReserved /\ unused(i))}
             retired == [i \in DOMAIN d |-> DeprecatedField(d[i])]
  <2>1. WithDeprecated(fields, <<>>) = fields \o Only(retired, I)
    BY DEF WithDeprecated
  <2>2. retired = <<>>
    OBVIOUS
  <2> HIDE DEF retired, I
  <2>3. << >> \in Seq(Nat) /\ DOMAIN << >> = {}
    OBVIOUS
  <2>4. Only(<<>>, I) = <<>>
    BY <2>3, OnlyNone
  <2> QED
    BY <2>1, <2>2, <2>4
<1>9. \A i \in DOMAIN fields : fields[i].id = i
  <2>1. D(m).fields \in Seq(FieldDescriptor(program))
    BY DescriptorOf
  <2>2. DOMAIN fields = 1 .. Len(fields) /\ Len(fields) \in Nat /\ Len(fields) <= 2
    BY DEF EntryIn
  <2>3. ASSUME NEW i \in DOMAIN fields PROVE fields[i].id = i
    <3>1. i \in Nat /\ i \in DOMAIN D(m).fields
      <4>1. i \in 1 .. Len(fields)
        BY <2>2
      <4>2. i = 1 \/ i = 2
        BY <2>2, <4>1
      <4>3. DOMAIN D(m).fields = {1, 2}
        BY <1>1
      <4>4. i \in Nat /\ i \in {1, 2}
        BY ONLY <4>2
      <4> QED
        BY ONLY <4>3, <4>4
    <3>2. fields[i] = LiveField(D(m).fields[i], i) /\ D(m).fields[i] \in FieldDescriptor(program)
      BY <2>1, <3>1 DEF EntryIn
    <3> QED
      BY <3>1, <3>2, LiveFieldIs
  <2> QED
    BY <2>3
<1>10. Unnumbered(fields) = <<>>
  <2> DEFINE ids == {f.id : f \in Range(fields)}
             max == Max(ids \cup {0})
             count == [id \in 1 .. max |-> id]
  <2>1. Unnumbered(fields) = IF options.fillGaps THEN Only(count, Nat \ ids) ELSE <<>>
    BY DEF Unnumbered
  <2>2. max \in Nat
    BY MaxId
  <2>3. DOMAIN fields = 1 .. Len(fields) /\ Len(fields) \in Nat
    OBVIOUS
  <2>4. ids = 1 .. Len(fields)
    BY <1>9, <2>3 DEF Range
  <2>5. max <= Len(fields)
    <3> DEFINE all == ids \cup {0}
    <3>1. all \in SUBSET (0 .. Len(fields)) /\ all # {}
      BY <2>3, <2>4
    <3> HIDE DEF all
    <3>2. Max(all) \in all
      BY <2>3, <3>1, GreatestExists
    <3>3. Max(all) \in 0 .. Len(fields)
      BY <3>1, <3>2
    <3>4. Max(all) <= Len(fields)
      BY <2>3, <3>3
    <3> QED
      BY <3>4 DEF all
  <2> HIDE DEF ids, max
  <2>6. count \in Seq(Nat) /\ \A i \in DOMAIN count : i \notin Nat \ ids
    BY <2>2, <2>3, <2>4, <2>5
  <2> HIDE DEF count
  <2>7. Only(count, Nat \ ids) = <<>>
    BY <2>6, OnlyNone
  <2> QED
    BY <2>1, <2>7
<1>11. WithGapsFilled(fields) = fields
  <2> DEFINE gaps == Unnumbered(fields)
             filled == [i \in DOMAIN gaps |-> [NewField EXCEPT !.id = gaps[i]]]
  <2>1. WithGapsFilled(fields) = fields \o filled
    BY DEF WithGapsFilled
  <2>2. filled = <<>>
    BY <1>10
  <2> HIDE DEF filled
  <2> QED
    BY <2>1, <2>2
<1> QED
  BY <1>7, <1>8, <1>11 DEF Finished

-----------------------------------------------------------------------------
(* How the IR grows.                                                       *)

Grows ==
  /\ Given
  /\ DOMAIN messages \subseteq DOMAIN messages'
  /\ \A file \in DOMAIN schemas :
       /\ file \in DOMAIN schemas'
       /\ schemas[file].deps \subseteq schemas'[file].deps
       /\ \A i \in DOMAIN schemas[file].messages :
            i \in DOMAIN schemas'[file].messages /\ schemas'[file].messages[i] = schemas[file].messages[i]

LEMMA TypesStatic ==
  ASSUME Given
  PROVE  /\ IRField' = IRField /\ SchemaDef' = SchemaDef /\ OpenCall' = OpenCall
         /\ \A r : IsMessageDef(r)' <=> IsMessageDef(r)
         /\ FieldDescriptor(program)' = FieldDescriptor(program)
<1>1. Message' = Message
  BY Statics
<1>2. IRField' = IRField /\ SchemaDef' = SchemaDef /\ OpenCall' = OpenCall
  BY <1>1 DEF IRField, SchemaDef, OpenCall
<1>3. \A r : IsMessageDef(r)' <=> IsMessageDef(r)
  BY <1>1, <1>2 DEF IsMessageDef
<1>4. FieldDescriptor(program)' = FieldDescriptor(program)
  BY DEF Given
<1> QED
  BY <1>2, <1>3, <1>4

LEMMA FitsKept ==
  ASSUME Grows, NEW m, File(m) \in DOMAIN schemas, NEW f, Fits(m, f)
  PROVE  Fits(m, f)'
<1>1. \A t : File(t)' = File(t) /\ D(t)' = D(t)
  BY Statics DEF Grows
<1> QED
  BY <1>1 DEF Fits, Grows

LEMMA MessageKept ==
  ASSUME Grows, NEW m \in DOMAIN messages, MessageInv(m), messages'[m] = messages[m]
  PROVE  MessageInv(m)'
<1>1. \A t : File(t)' = File(t) /\ D(t)' = D(t)
  BY Statics DEF Grows
<1>2. \A t : Kept(t)' <=> Kept(t)
  BY KeptStatic DEF Grows
<1>3. \A t : KeptPlaces(t)' = KeptPlaces(t)
  BY TraversalStatic DEF Grows
<1>4. \A file : IsTarget(file)' <=> IsTarget(file)
  BY Statics DEF Grows
<1>5. File(m) \in DOMAIN schemas
  BY DEF MessageInv
<1>6. \A i \in DOMAIN messages[m].fields : Fits(m, messages[m].fields[i])
  BY DEF MessageInv
<1>7. \A i \in DOMAIN messages[m].fields :
        LET f == messages[m].fields[i] IN \A g : g = f => Fits(m, g)'
  BY <1>5, <1>6, FitsKept
<1>8. (\A i \in DOMAIN messages[m].fields : Fits(m, messages[m].fields[i]))'
  BY <1>7
<1>9. (File(m) \in DOMAIN schemas)'
  BY <1>1, <1>5 DEF Grows
<1>10. (\E i \in DOMAIN schemas[File(m)].messages : schemas[File(m)].messages[i] = m)'
  <2>1. PICK i \in DOMAIN schemas[File(m)].messages : schemas[File(m)].messages[i] = m
    BY DEF MessageInv
  <2> DEFINE file == File(m)
  <2>2. i \in DOMAIN schemas'[file].messages /\ schemas'[file].messages[i] = m
    BY <1>5, <2>1 DEF Grows
  <2> QED
    BY <1>1, <2>2
<1>11. /\ Kept(m)'
       /\ (messages[m].nested = Only(D(m).nested, KeptPlaces(m)))'
       /\ (messages[m].defined => IsTarget(File(m)))'
       /\ (~messages[m].defined => messages[m].layout = "unknown")'
       /\ (messages[m].defined /\ D(m).map => messages[m].layout = "fixed")'
  BY <1>1, <1>2, <1>3, <1>4 DEF MessageInv
<1> QED
  BY <1>8, <1>9, <1>10, <1>11 DEF MessageInv

LEMMA TypesKept ==
  ASSUME TypesInv, Given, UNCHANGED ir
  PROVE  TypesInv'
<1>1. \A r : IsMessageDef(r)' <=> IsMessageDef(r)
  BY TypesStatic
<1>2. SchemaDef' = SchemaDef /\ Message' = Message
  BY TypesStatic, Statics
<1> QED
  BY <1>1, <1>2 DEF TypesInv, Given, ir

LEMMA SchemasKept ==
  ASSUME SchemasInv, Given, UNCHANGED ir
  PROVE  SchemasInv'
<1>1. \A t : File(t)' = File(t)
  BY Statics
<1> QED
  BY <1>1 DEF SchemasInv, Given, ir

(* A step that leaves the IR alone keeps it well formed.                   *)
LEMMA IRKept ==
  ASSUME IRInv, Given, UNCHANGED ir
  PROVE  IRInv'
<1>1. Grows
  BY DEF Grows, Given, ir
<1>2. TypesInv' /\ SchemasInv'
  BY TypesKept, SchemasKept DEF IRInv
<1>3. messages' = messages
  BY DEF ir
<1>4. \A m \in DOMAIN messages : MessageInv(m)'
  BY <1>1, <1>3, MessageKept DEF IRInv
<1> QED
  BY <1>2, <1>3, <1>4 DEF IRInv

LEMMA RegisteredIs ==
  ASSUME NEW files
  PROVE  /\ DOMAIN Registered(files) = DOMAIN schemas \cup files
         /\ \A file \in DOMAIN schemas : Registered(files)[file] = schemas[file]
         /\ \A file \in files \ DOMAIN schemas :
              Registered(files)[file] = [deps |-> {}, messages |-> <<>>, defined |-> FALSE]
  BY DEF Registered

(* RegisterFile keeps the schemas well formed.                             *)
LEMMA RegisteredTyped ==
  ASSUME IRInv, NEW files \in SUBSET STRING
  PROVE  \A file \in DOMAIN Registered(files) :
           /\ Registered(files)[file] \in SchemaDef
           /\ \A b \in Registered(files)[file].deps : b \in DOMAIN schemas /\ Imports(program, file, b)
           /\ \A i \in DOMAIN Registered(files)[file].messages :
                /\ Registered(files)[file].messages[i] \in DOMAIN messages
                /\ File(Registered(files)[file].messages[i]) = file
           /\ \A i, j \in DOMAIN Registered(files)[file].messages :
                Registered(files)[file].messages[i] = Registered(files)[file].messages[j] => i = j
<1> TAKE file \in DOMAIN Registered(files)
<1>1. CASE file \in DOMAIN schemas
  BY <1>1, RegisteredIs DEF IRInv, TypesInv, SchemasInv
<1>2. CASE file \notin DOMAIN schemas
  <2>1. Registered(files)[file] = [deps |-> {}, messages |-> <<>>, defined |-> FALSE]
    BY <1>2, RegisteredIs
  <2>2. [deps |-> {}, messages |-> <<>>, defined |-> FALSE] \in SchemaDef
    BY DEF SchemaDef
  <2> QED
    BY <2>1, <2>2
<1> QED
  BY <1>1, <1>2

LEMMA EnumFiles ==
  ASSUME NEW es \in SUBSET Enum
  PROVE  {EnumFile[e] : e \in es} \in SUBSET STRING
  BY FrontEndAssumption

(* Registering files keeps the IR well formed.                             *)
LEMMA IRRegistered ==
  ASSUME IRInv, Given, NEW es \in SUBSET Enum, RegisterEnums(es), messages' = messages
  PROVE  IRInv'
<1> DEFINE files == {EnumFile[e] : e \in es}
<1>1. enums' = enums \cup es /\ schemas' = Registered(files)
  BY DEF RegisterEnums
<1>2. files \in SUBSET STRING /\ \A e \in es : EnumFile[e] \in files
  BY EnumFiles
<1> HIDE DEF files
<1>3. Grows
  <2>1. \A file \in DOMAIN schemas : file \in DOMAIN schemas' /\ schemas'[file] = schemas[file]
    BY <1>1, RegisteredIs
  <2> QED
    BY <2>1 DEF Grows
<1>4. TypesInv'
  <2>1. \A r : IsMessageDef(r)' <=> IsMessageDef(r)
    BY TypesStatic
  <2>2. SchemaDef' = SchemaDef /\ Message' = Message
    BY TypesStatic, Statics
  <2>3. \A file \in DOMAIN schemas' : schemas'[file] \in SchemaDef
    BY <1>1, <1>2, RegisteredTyped
  <2> QED
    BY <1>1, <2>1, <2>2, <2>3 DEF TypesInv, IRInv, Given
<1>5. SchemasInv'
  <2>1. \A t : File(t)' = File(t)
    BY Statics
  <2>2. DOMAIN schemas' = DOMAIN schemas \cup files
    BY <1>1, RegisteredIs
  <2>3. \A e \in enums' : EnumFile[e] \in DOMAIN schemas'
    BY <1>1, <1>2, <2>2 DEF IRInv, SchemasInv
  <2>4. \A file \in DOMAIN schemas' :
          /\ \A b \in schemas'[file].deps : b \in DOMAIN schemas' /\ Imports(program, file, b)
          /\ \A i \in DOMAIN schemas'[file].messages :
               /\ schemas'[file].messages[i] \in DOMAIN messages
               /\ File(schemas'[file].messages[i]) = file
          /\ \A i, j \in DOMAIN schemas'[file].messages :
               schemas'[file].messages[i] = schemas'[file].messages[j] => i = j
    BY <1>1, <1>2, <2>2, RegisteredTyped
  <2> QED
    BY <2>1, <2>3, <2>4 DEF SchemasInv, Given
<1>6. \A m \in DOMAIN messages : MessageInv(m)'
  BY <1>3, MessageKept DEF IRInv
<1> QED
  BY <1>4, <1>5, <1>6 DEF IRInv

LEMMA TopIs ==
  ASSUME StackInv, stack # <<>>
  PROVE  /\ Len(stack) \in Nat /\ Len(stack) >= 1 /\ Len(stack) \in DOMAIN stack
         /\ DOMAIN stack = 1 .. Len(stack)
         /\ Top = stack[Len(stack)] /\ Top \in OpenCall
         /\ Top.msg \in Message /\ Top.at \in {"nested", "fields"} /\ Top.i \in Nat /\ Top.i >= 1
         /\ NestedCall(Top) /\ FieldsCall(Top)
<1>1. stack \in Seq(OpenCall)
  BY DEF StackInv
<1>2. /\ Len(stack) \in Nat /\ Len(stack) >= 1 /\ Len(stack) \in DOMAIN stack
      /\ DOMAIN stack = 1 .. Len(stack) /\ stack[Len(stack)] \in OpenCall
  BY <1>1
<1>3. Top = stack[Len(stack)]
  BY DEF Top, Last
<1>4. NestedCall(Top) /\ FieldsCall(Top)
  BY <1>2, <1>3 DEF StackInv
<1> QED
  BY <1>2, <1>3, <1>4 DEF OpenCall

Listed(known, file, m, after) == after = [known EXCEPT ![file].messages = Append(@, m)]
Linked(known, file, deps, after) == after = [known EXCEPT ![file].deps = @ \cup deps]

LEMMA SchemaListed ==
  ASSUME NEW known, NEW file \in DOMAIN known, known[file] \in SchemaDef, NEW m \in Message,
         NEW after, Listed(known, file, m, after)
  PROVE  /\ DOMAIN after = DOMAIN known
         /\ \A other \in DOMAIN known : other # file => after[other] = known[other]
         /\ after[file] \in SchemaDef
         /\ after[file].deps = known[file].deps
         /\ after[file].messages = Append(known[file].messages, m)
<1>1. known[file] \in [deps : SUBSET STRING, messages : Seq(Message), defined : BOOLEAN]
  BY DEF SchemaDef
<1>2. Append(known[file].messages, m) \in Seq(Message)
  BY <1>1
<1>3. after[file] = [known[file] EXCEPT !.messages = Append(known[file].messages, m)]
  BY DEF Listed
<1>4. /\ after[file].deps = known[file].deps
      /\ after[file].messages = Append(known[file].messages, m)
  BY <1>1, <1>3
<1>5. after[file] \in SchemaDef
  BY <1>1, <1>2, <1>3 DEF SchemaDef
<1> QED
  BY <1>4, <1>5 DEF Listed

LEMMA SchemaLinked ==
  ASSUME NEW known, NEW file \in DOMAIN known, known[file] \in SchemaDef, NEW deps \in SUBSET STRING,
         NEW after, Linked(known, file, deps, after)
  PROVE  /\ DOMAIN after = DOMAIN known
         /\ \A other \in DOMAIN known : other # file => after[other] = known[other]
         /\ after[file] \in SchemaDef
         /\ after[file].deps = known[file].deps \cup deps
         /\ after[file].messages = known[file].messages
<1>1. known[file] \in [deps : SUBSET STRING, messages : Seq(Message), defined : BOOLEAN]
  BY DEF SchemaDef
<1>2. known[file].deps \cup deps \in SUBSET STRING
  BY <1>1
<1>3. after[file] = [known[file] EXCEPT !.deps = known[file].deps \cup deps]
  BY DEF Linked
<1>4. /\ after[file].deps = known[file].deps \cup deps
      /\ after[file].messages = known[file].messages
  BY <1>1, <1>3
<1>5. after[file] \in SchemaDef
  BY <1>1, <1>2, <1>3 DEF SchemaDef
<1> QED
  BY <1>4, <1>5 DEF Linked

(* What Emplace(m) does to the IR.                                         *)
NewMessage(m) ==
  [defined |-> FALSE, layout |-> "unknown", nested |-> Only(D(m).nested, KeptPlaces(m)),
   fields |-> <<>>, pair |-> FALSE, oneofs |-> <<>>]

LEMMA Emplacing ==
  ASSUME IRInv, StackInv, NEW m \in Message, Emplace(m)
  PROVE  /\ Given /\ phase = "parse" /\ stack # <<>> /\ m = Top.msg /\ Top.at = "nested"
         /\ Top.i > Len(D(m).nested) /\ result = None
         /\ m \notin DOMAIN messages /\ Kept(m) /\ D(m).enums \in SUBSET Enum
         /\ enums' = enums \cup D(m).enums
         /\ DOMAIN messages' = DOMAIN messages \cup {m}
         /\ \A n \in DOMAIN messages : messages'[n] = messages[n]
         /\ messages'[m] = NewMessage(m)
<1>1. Accepted(m) /\ m \notin DOMAIN messages /\ Given
  BY DEF Emplace, Emplaced, Given
<1>2. /\ phase = "parse" /\ stack # <<>> /\ m = Top.msg /\ Top.at = "nested" /\ result = None
      /\ Top.i > Len(D(m).nested) /\ Kept(m)
  BY <1>1 DEF Accepted, Ready, In, Kept
<1>3. D(m).enums \in SUBSET Enum /\ D(m).nested \in Seq(Message)
  BY DescriptorOf DEF IRInv
<1>4. Top.nested = Only(D(m).nested, KeptPlaces(m))
  <2>1. Top.i \in Nat /\ NestedCall(Top)
    BY <1>2, TopIs
  <2>2. Len(D(m).nested) \in Nat /\ Top.i <= Len(D(m).nested) + 1
    BY <1>2, <1>3, <2>1 DEF NestedCall
  <2>3. Top.i - 1 = Len(D(m).nested)
    BY <1>2, <2>1, <2>2
  <2> QED
    BY <1>2, <2>1, <2>3 DEF NestedCall, Only
<1>5. messages' = [n \in DOMAIN messages \cup {m} |->
                     IF n # m THEN messages[n]
                     ELSE [defined |-> FALSE, layout |-> "unknown", nested |-> Top.nested,
                           fields |-> <<>>, pair |-> FALSE, oneofs |-> <<>>]]
  BY DEF Emplace
<1>6. enums' = enums \cup D(m).enums
  BY DEF Emplace
<1> QED
  BY <1>1, <1>2, <1>3, <1>4, <1>5, <1>6 DEF NewMessage

(* Emplacing a message keeps the IR well formed.                           *)
LEMMA IREmplaced ==
  ASSUME IRInv, StackInv, NEW m \in Message, Emplace(m)
  PROVE  IRInv' /\ Grows
<1> DEFINE file == File(m)
           files == {File(m)} \cup {EnumFile[e] : e \in D(m).enums}
           known == Registered(files)
<1>1. /\ Given /\ m \notin DOMAIN messages /\ Kept(m) /\ D(m).enums \in SUBSET Enum
      /\ enums' = enums \cup D(m).enums
      /\ DOMAIN messages' = DOMAIN messages \cup {m}
      /\ \A n \in DOMAIN messages : messages'[n] = messages[n]
      /\ messages'[m] = NewMessage(m)
  BY Emplacing
<1>2. Listed(known, file, m, schemas')
  BY DEF Emplace, Listed
<1>3. files \in SUBSET STRING /\ file \in files /\ \A e \in D(m).enums : EnumFile[e] \in files
  <2>1. File(m) \in STRING
    BY DescriptorOf DEF IRInv
  <2>2. {EnumFile[e] : e \in D(m).enums} \in SUBSET STRING
    BY <1>1, EnumFiles
  <2> QED
    BY <2>1, <2>2
<1>4. DOMAIN known = DOMAIN schemas \cup files /\ \A f \in DOMAIN schemas : known[f] = schemas[f]
  BY RegisteredIs
<1>5. \A f \in DOMAIN known :
        /\ known[f] \in SchemaDef
        /\ \A b \in known[f].deps : b \in DOMAIN schemas /\ Imports(program, f, b)
        /\ \A i \in DOMAIN known[f].messages :
             known[f].messages[i] \in DOMAIN messages /\ File(known[f].messages[i]) = f
        /\ \A i, j \in DOMAIN known[f].messages :
             known[f].messages[i] = known[f].messages[j] => i = j
  BY <1>3, RegisteredTyped
<1> HIDE DEF files, known
<1>6. file \in DOMAIN known /\ known[file] \in SchemaDef
  BY <1>3, <1>4, <1>5
<1>7. /\ DOMAIN schemas' = DOMAIN known
      /\ \A other \in DOMAIN known : other # file => schemas'[other] = known[other]
      /\ schemas'[file] \in SchemaDef
      /\ schemas'[file].deps = known[file].deps
      /\ schemas'[file].messages = Append(known[file].messages, m)
  <2> HIDE DEF file
  <2> QED
    BY <1>2, <1>6, SchemaListed
<1> DEFINE list == known[file].messages
<1>8. /\ DOMAIN list = 1 .. Len(list) /\ Len(list) \in Nat
      /\ DOMAIN schemas'[file].messages = 1 .. Len(list) + 1
      /\ \A i \in 1 .. Len(list) : schemas'[file].messages[i] = list[i]
      /\ schemas'[file].messages[Len(list) + 1] = m
  <2>1. list \in Seq(Message)
    BY <1>6 DEF SchemaDef
  <2> QED
    BY <1>7, <2>1, Appended
<1>9. Grows
  <2>1. ASSUME NEW f \in DOMAIN schemas
        PROVE  /\ f \in DOMAIN schemas'
               /\ schemas[f].deps \subseteq schemas'[f].deps
               /\ \A i \in DOMAIN schemas[f].messages :
                    i \in DOMAIN schemas'[f].messages /\ schemas'[f].messages[i] = schemas[f].messages[i]
    <3>1. f \in DOMAIN known /\ known[f] = schemas[f]
      BY <1>4
    <3>2. CASE f # file
      BY <1>7, <3>1, <3>2
    <3>3. CASE f = file
      <4>1. schemas[f].messages = list /\ schemas[f].deps = known[file].deps
        BY <3>1, <3>3
      <4> HIDE DEF list
      <4> QED
        BY <1>7, <1>8, <3>1, <3>3, <4>1
    <3> QED
      BY <3>2, <3>3
  <2> QED
    BY <1>1, <2>1 DEF Grows
<1>10. TypesInv'
  <2>1. \A r : IsMessageDef(r)' <=> IsMessageDef(r)
    BY <1>1, TypesStatic
  <2>2. SchemaDef' = SchemaDef /\ Message' = Message
    BY <1>1, TypesStatic, Statics
  <2>3. \A f \in DOMAIN schemas' : schemas'[f] \in SchemaDef
    BY <1>5, <1>7
  <2>4. IsMessageDef(NewMessage(m))
    <3>1. D(m).nested \in Seq(Message)
      BY DescriptorOf DEF IRInv
    <3>2. Only(D(m).nested, KeptPlaces(m)) \in Seq(Message)
      BY <3>1, OnlyTyped
    <3>3. << >> \in Seq(IRField)
      OBVIOUS
    <3> QED
      BY <3>2, <3>3 DEF IsMessageDef, NewMessage
  <2>5. \A n \in DOMAIN messages' : IsMessageDef(messages'[n])
    BY <1>1, <2>4 DEF IRInv, TypesInv
  <2>6. enums' \subseteq Enum /\ DOMAIN messages' \subseteq Message
    BY <1>1 DEF IRInv, TypesInv
  <2> QED
    BY <1>1, <2>1, <2>2, <2>3, <2>5, <2>6 DEF TypesInv, IRInv, Given
<1>11. SchemasInv'
  <2>1. \A t : File(t)' = File(t)
    BY <1>1, Statics
  <2>2. \A e \in enums' : EnumFile[e] \in DOMAIN schemas'
    BY <1>1, <1>3, <1>4, <1>7 DEF IRInv, SchemasInv
  <2>3. ASSUME NEW f \in DOMAIN schemas'
        PROVE  /\ \A b \in schemas'[f].deps : b \in DOMAIN schemas' /\ Imports(program, f, b)
               /\ \A i \in DOMAIN schemas'[f].messages :
                    schemas'[f].messages[i] \in DOMAIN messages' /\ File(schemas'[f].messages[i]) = f
               /\ \A i, j \in DOMAIN schemas'[f].messages :
                    schemas'[f].messages[i] = schemas'[f].messages[j] => i = j
    <3>1. CASE f # file
      BY <1>1, <1>4, <1>5, <1>7, <3>1
    <3>2. CASE f = file
      <4>1. \A b \in schemas'[f].deps : b \in DOMAIN schemas' /\ Imports(program, f, b)
        BY <1>4, <1>5, <1>6, <1>7, <3>2
      <4>2. \A i \in 1 .. Len(list) : list[i] \in DOMAIN messages /\ File(list[i]) = file
        BY <1>5, <1>6, <1>8
      <4>3. \A i, j \in 1 .. Len(list) : list[i] = list[j] => i = j
        BY <1>5, <1>6, <1>8
      <4> HIDE DEF list
      <4>4. \A i \in 1 .. Len(list) + 1 : i \in 1 .. Len(list) \/ i = Len(list) + 1
        BY <1>8
      <4>5. \A i \in DOMAIN schemas'[f].messages :
              schemas'[f].messages[i] \in DOMAIN messages' /\ File(schemas'[f].messages[i]) = f
        BY <1>1, <1>8, <3>2, <4>2, <4>4
      <4>6. \A i, j \in DOMAIN schemas'[f].messages :
              schemas'[f].messages[i] = schemas'[f].messages[j] => i = j
        BY <1>1, <1>8, <3>2, <4>2, <4>3, <4>4
      <4> QED
        BY <4>1, <4>5, <4>6
    <3> QED
      BY <3>1, <3>2
  <2> QED
    BY <1>1, <2>1, <2>2, <2>3 DEF SchemasInv, Given
<1>12. \A n \in DOMAIN messages : MessageInv(n)'
  BY <1>1, <1>9, MessageKept DEF IRInv
<1>13. MessageInv(m)'
  <2>1. D(m)' = D(m) /\ File(m)' = File(m) /\ KeptPlaces(m)' = KeptPlaces(m)
    BY <1>1, Statics, TraversalStatic
  <2>2. Kept(m)'
    BY <1>1, KeptStatic
  <2>3. (File(m) \in DOMAIN schemas)'
    BY <1>6, <1>7, <2>1
  <2>4. (\E i \in DOMAIN schemas[File(m)].messages : schemas[File(m)].messages[i] = m)'
    <3> HIDE DEF list
    <3>1. Len(list) + 1 \in 1 .. Len(list) + 1
      BY <1>8
    <3>2. \E i \in DOMAIN schemas'[file].messages : schemas'[file].messages[i] = m
      BY <1>8, <3>1
    <3> QED
      BY <2>1, <3>2
  <2>5. /\ messages'[m].fields = <<>> /\ messages'[m].defined = FALSE
        /\ messages'[m].layout = "unknown" /\ messages'[m].nested = Only(D(m).nested, KeptPlaces(m))
    BY <1>1 DEF NewMessage
  <2>6. DOMAIN messages'[m].fields = {}
    BY <2>5
  <2> QED
    BY <2>1, <2>2, <2>3, <2>4, <2>5, <2>6 DEF MessageInv
<1> QED
  BY <1>1, <1>9, <1>10, <1>11, <1>12, <1>13 DEF IRInv

PutFields(known, m, fields, after) == after = [known EXCEPT ![m].fields = fields]
PutLayout(known, m, layout, after) == after = [known EXCEPT ![m].layout = layout]
PutDefined(known, m, after) == after = [known EXCEPT ![m].defined = TRUE]

(* The parts of a message that FinishMessage may write are those given.    *)
IsNow(known, m, after, fields, layout, defined) ==
  /\ DOMAIN after = DOMAIN known
  /\ \A n \in DOMAIN known : n # m => after[n] = known[n]
  /\ IsMessageDef(after[m])
  /\ after[m].fields = fields /\ after[m].layout = layout /\ after[m].defined = defined
  /\ after[m].nested = known[m].nested /\ after[m].pair = known[m].pair

LEMMA FieldsPut ==
  ASSUME NEW known, NEW m \in DOMAIN known, IsMessageDef(known[m]), NEW fields \in Seq(IRField),
         NEW after, PutFields(known, m, fields, after)
  PROVE  IsNow(known, m, after, fields, known[m].layout, known[m].defined)
<1> DEFINE r == known[m]
<1>1. r \in [defined : BOOLEAN, layout : {"unknown", "dynamic", "sparse", "flat", "fixed"},
             nested : Seq(Message), fields : Seq(IRField), pair : BOOLEAN, oneofs : {r.oneofs}]
  BY DEF IsMessageDef
<1>2. after[m] = [r EXCEPT !.fields = fields]
  BY DEF PutFields
<1> HIDE DEF r
<1>3. /\ after[m].fields = fields /\ after[m].layout = r.layout /\ after[m].defined = r.defined
      /\ after[m].nested = r.nested /\ after[m].pair = r.pair /\ after[m].oneofs = r.oneofs
  BY <1>1, <1>2
<1>4. after[m] \in [defined : BOOLEAN, layout : {"unknown", "dynamic", "sparse", "flat", "fixed"},
             nested : Seq(Message), fields : Seq(IRField), pair : BOOLEAN, oneofs : {r.oneofs}]
  BY <1>1, <1>2
<1>5. IsMessageDef(after[m])
  BY <1>3, <1>4 DEF IsMessageDef
<1>6. /\ DOMAIN after = DOMAIN known
      /\ \A n \in DOMAIN known : n # m => after[n] = known[n]
  BY DEF PutFields
<1> QED
  BY <1>3, <1>5, <1>6 DEF r, IsNow

LEMMA LayoutPut ==
  ASSUME NEW known, NEW m \in DOMAIN known, IsMessageDef(known[m]),
         NEW layout \in {"unknown", "dynamic", "sparse", "flat", "fixed"},
         NEW after, PutLayout(known, m, layout, after)
  PROVE  IsNow(known, m, after, known[m].fields, layout, known[m].defined)
<1> DEFINE r == known[m]
<1>1. r \in [defined : BOOLEAN, layout : {"unknown", "dynamic", "sparse", "flat", "fixed"},
             nested : Seq(Message), fields : Seq(IRField), pair : BOOLEAN, oneofs : {r.oneofs}]
  BY DEF IsMessageDef
<1>2. after[m] = [r EXCEPT !.layout = layout]
  BY DEF PutLayout
<1> HIDE DEF r
<1>3. /\ after[m].fields = r.fields /\ after[m].layout = layout /\ after[m].defined = r.defined
      /\ after[m].nested = r.nested /\ after[m].pair = r.pair /\ after[m].oneofs = r.oneofs
  BY <1>1, <1>2
<1>4. after[m] \in [defined : BOOLEAN, layout : {"unknown", "dynamic", "sparse", "flat", "fixed"},
             nested : Seq(Message), fields : Seq(IRField), pair : BOOLEAN, oneofs : {r.oneofs}]
  BY <1>1, <1>2
<1>5. IsMessageDef(after[m])
  BY <1>3, <1>4 DEF IsMessageDef
<1>6. /\ DOMAIN after = DOMAIN known
      /\ \A n \in DOMAIN known : n # m => after[n] = known[n]
  BY DEF PutLayout
<1> QED
  BY <1>3, <1>5, <1>6 DEF r, IsNow

LEMMA DefinedPut ==
  ASSUME NEW known, NEW m \in DOMAIN known, IsMessageDef(known[m]),
         NEW after, PutDefined(known, m, after)
  PROVE  IsNow(known, m, after, known[m].fields, known[m].layout, TRUE)
<1> DEFINE r == known[m]
<1>1. r \in [defined : BOOLEAN, layout : {"unknown", "dynamic", "sparse", "flat", "fixed"},
             nested : Seq(Message), fields : Seq(IRField), pair : BOOLEAN, oneofs : {r.oneofs}]
  BY DEF IsMessageDef
<1>2. after[m] = [r EXCEPT !.defined = TRUE]
  BY DEF PutDefined
<1> HIDE DEF r
<1>3. /\ after[m].fields = r.fields /\ after[m].layout = r.layout /\ after[m].defined = TRUE
      /\ after[m].nested = r.nested /\ after[m].pair = r.pair /\ after[m].oneofs = r.oneofs
  BY <1>1, <1>2
<1>4. after[m] \in [defined : BOOLEAN, layout : {"unknown", "dynamic", "sparse", "flat", "fixed"},
             nested : Seq(Message), fields : Seq(IRField), pair : BOOLEAN, oneofs : {r.oneofs}]
  BY <1>1, <1>2
<1>5. IsMessageDef(after[m])
  BY <1>3, <1>4 DEF IsMessageDef
<1>6. /\ DOMAIN after = DOMAIN known
      /\ \A n \in DOMAIN known : n # m => after[n] = known[n]
  BY DEF PutDefined
<1> QED
  BY <1>3, <1>5, <1>6 DEF r, IsNow

(* What AddField(f) and FinishMessage(m) do to the messages.               *)
Added(m, f) == LiveField(f, FieldId(f, Slice(m)))

LEMMA AddingField ==
  ASSUME IRInv, StackInv, NEW f, AddField(f)
  PROVE  /\ Given /\ phase = "parse" /\ stack # <<>> /\ Top.at = "fields"
         /\ Top.i <= Len(Collected(Top.msg)) /\ f = Collected(Top.msg)[Top.i]
         /\ Top.msg \in DOMAIN messages /\ Top.msg \in Message /\ f \in FieldDescriptor(program)
         /\ Added(Top.msg, f) \in IRField
         /\ \E i \in DOMAIN D(Top.msg).fields : f = D(Top.msg).fields[i]
         /\ IsNow(messages, Top.msg, messages', Append(messages[Top.msg].fields, Added(Top.msg, f)),
                  messages[Top.msg].layout, messages[Top.msg].defined)
<1> DEFINE m == Top.msg
           fields == Append(messages[m].fields, Added(m, f))
<1>1. /\ Given /\ phase = "parse" /\ stack # <<>> /\ Top.at = "fields"
      /\ Top.i <= Len(Collected(m)) /\ f = Collected(m)[Top.i]
  BY DEF AddField, AtField, In, Given
<1>2. m \in Message /\ m \in DOMAIN messages /\ Top.i \in Nat /\ Top.i >= 1
  BY <1>1, TopIs DEF FieldsCall
<1>3. messages' = [messages EXCEPT ![m].fields = Append(@, Added(m, f))]
  BY DEF AddField, Added
<1> HIDE DEF m
<1>4. TypesInv
  BY DEF IRInv
<1>5. f \in FieldDescriptor(program) /\ \E i \in DOMAIN D(m).fields : f = D(m).fields[i]
  <2>1. Top.i \in DOMAIN Collected(m) /\ Top.i \in 1 .. Len(Collected(m))
    BY <1>1, <1>2, <1>4, CollectedTyped
  <2> QED
    BY <1>1, <1>2, <1>4, <2>1, CollectedTyped, CollectedIs
<1>6. Added(m, f) \in IRField
  BY <1>4, <1>5, FieldIdTyped, LiveFieldIs DEF Added
<1>7. IsMessageDef(messages[m]) /\ messages[m].fields \in Seq(IRField)
  BY <1>2, <1>4 DEF TypesInv, IsMessageDef
<1>8. fields \in Seq(IRField)
  BY <1>6, <1>7, Appended
<1>9. PutFields(messages, m, fields, messages')
  BY <1>3 DEF PutFields
<1> HIDE DEF fields
<1>10. IsNow(messages, m, messages', fields, messages[m].layout, messages[m].defined)
  BY <1>2, <1>7, <1>8, <1>9, FieldsPut
<1> QED
  BY <1>1, <1>2, <1>5, <1>6, <1>10 DEF m, fields

LEMMA LayoutTyped ==
  ASSUME TypesInv, NEW m \in Message, NEW slice
  PROVE  /\ GetMessageLayout(m, slice) \in {"unknown", "dynamic", "sparse", "flat", "fixed"}
         /\ D(m).map => GetMessageLayout(m, slice) = "fixed"
<1> DEFINE found == Resolved(D(m).options, slice)
<1>1. D(m).options \in Seq(MessageOptions)
  BY DescriptorOf
<1>2. found \in Seq(MessageOptions)
  BY <1>1, ResolvedTyped
<1>3. GetMessageLayout(m, slice) =
        IF D(m).map THEN "fixed" ELSE IF found = <<>> THEN "dynamic" ELSE Head(found).layout
  BY DEF GetMessageLayout
<1> HIDE DEF found
<1>4. found # <<>> => Head(found) \in MessageOptions
  BY <1>2, HeadIn
<1>5. \A x \in MessageOptions : x.layout \in {"unknown", "dynamic", "sparse", "flat", "fixed"}
  BY DEF MessageOptions
<1> QED
  BY <1>3, <1>4, <1>5

LEMMA Finishing ==
  ASSUME IRInv, StackInv, NEW m \in Message, FinishMessage(m)
  PROVE  /\ Given /\ phase = "parse" /\ stack # <<>> /\ Top.at = "fields" /\ m = Top.msg
         /\ Top.i > Len(Collected(m)) /\ m \in DOMAIN messages
         /\ Extends(Finished(m, messages[m].fields), messages[m].fields)
         /\ IsNow(messages, m, messages', Finished(m, messages[m].fields),
                  GetMessageLayout(m, Slice(m)), TRUE)
<1>1. /\ Given /\ phase = "parse" /\ stack # <<>> /\ Top.at = "fields" /\ m = Top.msg
      /\ Top.i > Len(Collected(m))
  BY DEF FinishMessage, In, Given
<1>2. m \in DOMAIN messages
  BY <1>1, TopIs DEF FieldsCall
<1>3. TypesInv
  BY DEF IRInv
<1>4. IsMessageDef(messages[m]) /\ messages[m].fields \in Seq(IRField)
  BY <1>2, <1>3 DEF TypesInv, IsMessageDef
<1>5. Extends(Finished(m, messages[m].fields), messages[m].fields)
  BY <1>3, <1>4, FinishedExtends
<1> DEFINE fields == Finished(m, messages[m].fields)
           layout == GetMessageLayout(m, Slice(m))
           first == [messages EXCEPT ![m].fields = fields]
           second == [first EXCEPT ![m].layout = layout]
<1>6. messages' = [second EXCEPT ![m].defined = TRUE]
  BY DEF FinishMessage, Finished
<1>7. fields \in Seq(IRField) /\ layout \in {"unknown", "dynamic", "sparse", "flat", "fixed"}
  BY <1>3, <1>5, LayoutTyped DEF Extends
<1> HIDE DEF fields, layout
<1>8. PutFields(messages, m, fields, first) /\ PutLayout(first, m, layout, second)
      /\ PutDefined(second, m, messages')
  BY <1>6 DEF PutFields, PutLayout, PutDefined
<1> HIDE DEF first, second
<1>9. IsNow(messages, m, first, fields, messages[m].layout, messages[m].defined)
  BY <1>2, <1>4, <1>7, <1>8, FieldsPut
<1>10. m \in DOMAIN first /\ IsMessageDef(first[m])
  BY <1>2, <1>9 DEF IsNow
<1>11. IsNow(first, m, second, first[m].fields, layout, first[m].defined)
  BY <1>7, <1>8, <1>10, LayoutPut
<1>12. m \in DOMAIN second /\ IsMessageDef(second[m])
  BY <1>10, <1>11 DEF IsNow
<1>13. IsNow(second, m, messages', second[m].fields, second[m].layout, TRUE)
  BY <1>8, <1>12, DefinedPut
<1>14. IsNow(messages, m, messages', fields, layout, TRUE)
  BY <1>9, <1>11, <1>13 DEF IsNow
<1> QED
  BY <1>1, <1>2, <1>5, <1>14 DEF fields, layout

LEMMA FileTyped ==
  ASSUME TypesInv, NEW t \in Message \cup Enum
  PROVE  File(t) \in STRING
<1>1. CASE t \in Message
  BY <1>1, DescriptorOf
<1>2. CASE t \in Enum
  BY <1>2, FrontEndAssumption DEF File
<1> QED
  BY <1>1, <1>2

(* A field makes its file import the file of its type.                     *)
LEMMA ImportedByField ==
  ASSUME TypesInv, NEW m \in Message, NEW i \in DOMAIN D(m).fields,
         D(m).fields[i].type \in Message \cup Enum, File(D(m).fields[i].type) # File(m)
  PROVE  Imports(program, File(m), File(D(m).fields[i].type))
<1> DEFINE f == D(m).fields[i]
<1>1. D(m).file = File(m) /\ f \in Range(D(m).fields)
  BY DescriptorOf DEF Range
<1>2. f.type \in Enum => EnumFile[f.type] = File(f.type)
  BY DEF File
<1>3. f.type \in Message => D(f.type).file = File(f.type)
  BY DescriptorOf
<1> QED
  BY <1>1, <1>2, <1>3 DEF Imports, Message, D

(* The field of a map is in the file of its entry.                         *)
LEMMA EntryBeside ==
  ASSUME TypesInv, NEW m \in Message, NEW i \in DOMAIN D(m).fields,
         D(m).fields[i].type \in Message, D(D(m).fields[i].type).map
  PROVE  File(D(m).fields[i].type) = File(m)
<1> DEFINE t == D(m).fields[i].type
<1>1. t \in {f.type : f \in Range(program.messages[m].fields)} \cap DOMAIN program.messages
  BY DEF Range, D, Message
<1>2. program.messages[t].map => program.messages[t].file = program.messages[m].file
  BY <1>1 DEF TypesInv, WellFormed, Message
<1>3. File(t) = program.messages[t].file /\ File(m) = program.messages[m].file
  BY DescriptorOf DEF D
<1> QED
  BY <1>2, <1>3 DEF D

(* Adding a field, with its dependencies, keeps the IR well formed.        *)
LEMMA IRFieldAdded ==
  ASSUME IRInv, StackInv, NEW f, AddField(f), f.type \in Message => f.type \in DOMAIN messages,
         NEW m, m = Top.msg, NEW new, new = Added(m, f)
  PROVE  IRInv' /\ Grows
<1> DEFINE file == File(m)
           types == {f.type} \cap (Message \cup Enum)
           deps == {File(t) : t \in types} \ {File(m)}
           known == Registered(deps)
           fields == Append(messages[m].fields, new)
<1>1. /\ Given /\ m \in DOMAIN messages /\ m \in Message /\ f \in FieldDescriptor(program)
      /\ new \in IRField
      /\ \E i \in DOMAIN D(m).fields : f = D(m).fields[i]
      /\ IsNow(messages, m, messages', fields, messages[m].layout, messages[m].defined)
  BY AddingField
<1>2. enums' = enums \cup (types \cap Enum) /\ Linked(known, file, deps, schemas')
  BY DEF AddField, Linked
<1>3. TypesInv /\ SchemasInv /\ MessageInv(m)
  BY <1>1 DEF IRInv
<1>4. deps \in SUBSET STRING /\ \A b \in deps : Imports(program, file, b)
  <2>1. \A t \in types : File(t) \in STRING
    BY <1>3, FileTyped
  <2>2. \A t \in types : File(t) # File(m) => Imports(program, File(m), File(t))
    BY <1>1, <1>3, ImportedByField
  <2> QED
    BY <2>1, <2>2
<1>5. \A t \in types : File(t) \in deps \cup {file}
  OBVIOUS
<1>6. DOMAIN known = DOMAIN schemas \cup deps /\ \A g \in DOMAIN schemas : known[g] = schemas[g]
  BY RegisteredIs
<1>7. \A g \in DOMAIN known :
        /\ known[g] \in SchemaDef
        /\ \A b \in known[g].deps : b \in DOMAIN schemas /\ Imports(program, g, b)
        /\ \A i \in DOMAIN known[g].messages :
             known[g].messages[i] \in DOMAIN messages /\ File(known[g].messages[i]) = g
        /\ \A i, j \in DOMAIN known[g].messages :
             known[g].messages[i] = known[g].messages[j] => i = j
  BY <1>4, RegisteredTyped
<1>8. file \in DOMAIN schemas
  BY <1>3 DEF MessageInv
<1> HIDE DEF deps, known, file
<1>9. file \in DOMAIN known /\ known[file] \in SchemaDef /\ known[file] = schemas[file]
  BY <1>6, <1>7, <1>8
<1>10. /\ DOMAIN schemas' = DOMAIN known
       /\ \A other \in DOMAIN known : other # file => schemas'[other] = known[other]
       /\ schemas'[file] \in SchemaDef
       /\ schemas'[file].deps = known[file].deps \cup deps
       /\ schemas'[file].messages = known[file].messages
  BY <1>2, <1>4, <1>9, SchemaLinked
<1>11. Grows
  <2>1. ASSUME NEW g \in DOMAIN schemas
        PROVE  /\ g \in DOMAIN schemas'
               /\ schemas[g].deps \subseteq schemas'[g].deps
               /\ \A i \in DOMAIN schemas[g].messages :
                    i \in DOMAIN schemas'[g].messages /\ schemas'[g].messages[i] = schemas[g].messages[i]
    BY <1>6, <1>10
  <2> QED
    BY <1>1, <2>1 DEF Grows, IsNow
<1>12. TypesInv'
  <2>1. \A r : IsMessageDef(r)' <=> IsMessageDef(r)
    BY <1>1, TypesStatic
  <2>2. SchemaDef' = SchemaDef /\ Message' = Message
    BY <1>1, TypesStatic, Statics
  <2>3. \A g \in DOMAIN schemas' : schemas'[g] \in SchemaDef
    BY <1>7, <1>10
  <2>4. \A n \in DOMAIN messages' : IsMessageDef(messages'[n])
    BY <1>1, <1>3 DEF TypesInv, IsNow
  <2>5. enums' \subseteq Enum /\ DOMAIN messages' \subseteq Message
    BY <1>1, <1>2, <1>3 DEF TypesInv, IsNow
  <2> QED
    BY <1>1, <1>3, <2>1, <2>2, <2>3, <2>4, <2>5 DEF TypesInv, Given
<1>13. SchemasInv'
  <2>1. \A t : File(t)' = File(t)
    BY <1>1, Statics
  <2>2. \A e \in enums' : EnumFile[e] \in DOMAIN schemas'
    <3>1. \A e \in types \cap Enum : EnumFile[e] \in deps \cup {file}
      BY <1>5 DEF File
    <3> QED
      BY <1>2, <1>3, <1>6, <1>8, <1>10, <3>1 DEF SchemasInv
  <2>3. ASSUME NEW g \in DOMAIN schemas'
        PROVE  /\ \A b \in schemas'[g].deps : b \in DOMAIN schemas' /\ Imports(program, g, b)
               /\ \A i \in DOMAIN schemas'[g].messages :
                    schemas'[g].messages[i] \in DOMAIN messages' /\ File(schemas'[g].messages[i]) = g
               /\ \A i, j \in DOMAIN schemas'[g].messages :
                    schemas'[g].messages[i] = schemas'[g].messages[j] => i = j
    <3>1. DOMAIN messages' = DOMAIN messages
      BY <1>1 DEF IsNow
    <3>2. CASE g # file
      BY <1>6, <1>7, <1>10, <3>1, <3>2
    <3>3. CASE g = file
      <4>1. schemas'[g].deps = known[file].deps \cup deps /\ schemas'[g].messages = known[file].messages
        BY <1>10, <3>3
      <4>2. \A b \in schemas'[g].deps : b \in DOMAIN schemas' /\ Imports(program, g, b)
        BY <1>4, <1>6, <1>7, <1>9, <1>10, <3>3, <4>1
      <4> QED
        BY <1>7, <1>9, <3>1, <3>3, <4>1, <4>2
    <3> QED
      BY <3>2, <3>3
  <2> QED
    BY <1>1, <2>1, <2>2, <2>3 DEF SchemasInv, Given
<1>14. \A n \in DOMAIN messages : n # m => MessageInv(n)'
  <2>1. \A n \in DOMAIN messages : MessageInv(n)
    BY DEF IRInv
  <2> QED
    BY <1>1, <1>11, <2>1, MessageKept DEF IsNow
<1>15. MessageInv(m)'
  <2>1. \A t : File(t)' = File(t) /\ D(t)' = D(t)
    BY <1>1, Statics
  <2>2. KeptPlaces(m)' = KeptPlaces(m) /\ (Kept(m)' <=> Kept(m))
    BY <1>1, TraversalStatic, KeptStatic
  <2>3. \A g : IsTarget(g)' <=> IsTarget(g)
    BY <1>1, Statics
  <2>4. (File(m) \in DOMAIN schemas)'
    BY <1>8, <1>11, <2>1 DEF Grows, file
  <2>5. (\E i \in DOMAIN schemas[File(m)].messages : schemas[File(m)].messages[i] = m)'
    <3>1. PICK i \in DOMAIN schemas[file].messages : schemas[file].messages[i] = m
      BY <1>3 DEF MessageInv, file
    <3>2. i \in DOMAIN schemas'[file].messages /\ schemas'[file].messages[i] = m
      BY <1>8, <1>11, <3>1 DEF Grows
    <3> QED
      BY <2>1, <3>2 DEF file
  <2>6. \A g : Fits(m, g) => Fits(m, g)'
    BY <1>8, <1>11, FitsKept DEF file
  <2>7. Fits(m, new)'
    <3>1. /\ new.name = f.name /\ new.to = (IF f.type \in Message THEN f.type ELSE Null)
          /\ new.type = "message" => f.type \in Message
          /\ new.deprecated = FALSE
          /\ new.assoc <=> f.type \in Message /\ D(f.type).map
      BY <1>1, <1>3, FieldIdTyped, LiveFieldIs DEF Added
    <3>2. f.name # None
      BY <1>1, FieldTyped
    <3>3. f.type \in Message => f.type # Null
      BY <1>3, DescriptorOf
    <3>4. f.type \in Message => File(f.type) \in schemas'[file].deps \cup {file}
      BY <1>5, <1>10
    <3>5. f.type \in Message => f.type \in DOMAIN messages'
      BY <1>1 DEF IsNow
    <3>6. f.type \in Message /\ D(f.type).map => File(f.type) = file
      BY <1>1, <1>3, EntryBeside DEF file
    <3>7. /\ new.to \in DOMAIN messages' \cup {Null}
          /\ new.deprecated <=> new.name = None
          /\ new.deprecated => new.to = Null /\ new.type # "enum"
          /\ new.type = "message" /\ ~new.deprecated => new.to # Null
          /\ new.to # Null => File(new.to) \in schemas'[file].deps \cup {file}
          /\ new.assoc => new.to # Null /\ D(new.to).map /\ File(new.to) = file
      BY <3>1, <3>2, <3>3, <3>4, <3>5, <3>6
    <3>8. \A g : g = new => Fits(m, g)'
      BY <2>1, <3>7 DEF Fits, file
    <3> QED
      BY <3>8
  <2>8. /\ messages'[m].fields = fields /\ messages'[m].layout = messages[m].layout
        /\ messages'[m].defined = messages[m].defined /\ messages'[m].nested = messages[m].nested
    BY <1>1 DEF IsNow
  <2>9. (\A i \in DOMAIN messages[m].fields : Fits(m, messages[m].fields[i]))'
    <3> DEFINE old == messages[m].fields
    <3>1. old \in Seq(IRField)
      BY <1>1, <1>3 DEF TypesInv, IsMessageDef
    <3>2. /\ DOMAIN old = 1 .. Len(old) /\ Len(old) \in Nat /\ DOMAIN fields = 1 .. Len(old) + 1
          /\ \A i \in 1 .. Len(old) : fields[i] = old[i]
          /\ fields[Len(old) + 1] = new
      <4> HIDE DEF old
      <4>1. fields = Append(old, new)
        BY DEF old
      <4> HIDE DEF fields
      <4> QED
        BY <1>1, <3>1, <4>1, Appended
    <3>3. \A i \in DOMAIN old : \A g : g = old[i] => Fits(m, g)'
      BY <1>3, <2>6 DEF MessageInv
    <3> HIDE DEF old, fields
    <3>4. \A i \in DOMAIN fields : \A g : g = fields[i] => Fits(m, g)'
      <4> TAKE i \in DOMAIN fields
      <4>1. i \in DOMAIN old \/ i = Len(old) + 1
        BY <3>2
      <4>2. CASE i \in DOMAIN old
        BY <3>2, <3>3, <4>2
      <4>3. CASE i = Len(old) + 1
        BY <2>7, <3>2, <4>3
      <4> QED
        BY <4>1, <4>2, <4>3
    <3> QED
      BY <2>8, <3>4
  <2> QED
    BY <1>3, <2>1, <2>2, <2>3, <2>4, <2>5, <2>8, <2>9 DEF MessageInv
<1>16. DOMAIN messages' = DOMAIN messages
  BY <1>1 DEF IsNow
<1> QED
  BY <1>11, <1>12, <1>13, <1>14, <1>15, <1>16 DEF IRInv

LEMMA RetiredFits ==
  ASSUME NEW m, NEW f \in RetiredField
  PROVE  Fits(m, f)'
  BY DEF Fits, RetiredField

(* Finishing a message keeps the IR well formed.                           *)
LEMMA IRFinished ==
  ASSUME IRInv, StackInv, NEW m \in Message, FinishMessage(m)
  PROVE  IRInv' /\ Grows
<1> DEFINE old == messages[m].fields
<1>1. /\ Given /\ stack # <<>> /\ Top.at = "fields" /\ m = Top.msg /\ m \in DOMAIN messages
      /\ Extends(Finished(m, old), old)
      /\ IsNow(messages, m, messages', Finished(m, old), GetMessageLayout(m, Slice(m)), TRUE)
  BY Finishing
<1>2. schemas' = schemas /\ enums' = enums
  BY DEF FinishMessage
<1>3. TypesInv /\ SchemasInv /\ MessageInv(m)
  BY <1>1 DEF IRInv
<1>4. DOMAIN messages' = DOMAIN messages
  BY <1>1 DEF IsNow
<1>5. Grows
  BY <1>1, <1>2, <1>4 DEF Grows
<1>6. TypesInv'
  <2>1. \A r : IsMessageDef(r)' <=> IsMessageDef(r)
    BY <1>1, TypesStatic
  <2>2. SchemaDef' = SchemaDef /\ Message' = Message
    BY <1>1, TypesStatic, Statics
  <2>3. \A n \in DOMAIN messages' : IsMessageDef(messages'[n])
    BY <1>1, <1>3 DEF TypesInv, IsNow
  <2> QED
    BY <1>1, <1>2, <1>3, <1>4, <2>1, <2>2, <2>3 DEF TypesInv, Given
<1>7. SchemasInv'
  <2>1. \A t : File(t)' = File(t)
    BY <1>1, Statics
  <2> QED
    BY <1>1, <1>2, <1>3, <1>4, <2>1 DEF SchemasInv, Given
<1>8. \A n \in DOMAIN messages : n # m => MessageInv(n)'
  <2>1. \A n \in DOMAIN messages : MessageInv(n)
    BY DEF IRInv
  <2> QED
    BY <1>1, <1>5, <2>1, MessageKept DEF IsNow
<1>9. MessageInv(m)'
  <2>1. \A t : File(t)' = File(t) /\ D(t)' = D(t)
    BY <1>1, Statics
  <2>2. KeptPlaces(m)' = KeptPlaces(m) /\ (Kept(m)' <=> Kept(m))
    BY <1>1, TraversalStatic, KeptStatic
  <2>3. \A g : IsTarget(g)' <=> IsTarget(g)
    BY <1>1, Statics
  <2>4. IsTarget(File(m))
    BY <1>1, TopIs DEF FieldsCall
  <2>5. File(m) \in DOMAIN schemas
    BY <1>3 DEF MessageInv
  <2>6. \A g : Fits(m, g) => Fits(m, g)'
    BY <1>5, <2>5, FitsKept
  <2>7. /\ messages'[m].fields = Finished(m, old) /\ messages'[m].defined = TRUE
        /\ messages'[m].nested = messages[m].nested
        /\ messages'[m].layout = GetMessageLayout(m, Slice(m))
    BY <1>1 DEF IsNow
  <2>8. D(m).map => GetMessageLayout(m, Slice(m)) = "fixed"
    BY <1>3, LayoutTyped
  <2>9. (\A i \in DOMAIN messages[m].fields : Fits(m, messages[m].fields[i]))'
    <3>1. \A i \in DOMAIN old : \A g : g = old[i] => Fits(m, g)'
      BY <1>3, <2>6 DEF MessageInv
    <3> DEFINE all == Finished(m, old)
    <3>2. \A i \in DOMAIN old : all[i] = old[i]
      BY <1>1 DEF Extends
    <3>3. \A i \in DOMAIN all : i \in DOMAIN old \/ all[i] \in RetiredField
      BY <1>1 DEF Extends
    <3> HIDE DEF all, old
    <3>4. \A i \in DOMAIN all : \A g : g = all[i] => Fits(m, g)'
      BY <3>1, <3>2, <3>3, RetiredFits
    <3>5. messages'[m].fields = all
      BY <2>7 DEF all
    <3> QED
      BY <3>4, <3>5
  <2> HIDE DEF old
  <2> QED
    BY <1>2, <1>3, <2>1, <2>2, <2>3, <2>4, <2>5, <2>7, <2>8, <2>9 DEF MessageInv
<1> QED
  BY <1>4, <1>5, <1>6, <1>7, <1>8, <1>9 DEF IRInv

-----------------------------------------------------------------------------
(* Calls and returns.                                                      *)

(* Calls other than those of m stay what they were.                        *)
LEMMA CallsKept ==
  ASSUME Given, NEW m, \A n \in DOMAIN messages : n \in DOMAIN messages' /\ (n # m => messages'[n] = messages[n]),
         NEW c, FieldsCall(c), c.at = "fields" => c.msg # m
  PROVE  FieldsCall(c)'
<1>1. \A t : Collected(t)' = Collected(t) /\ File(t)' = File(t)
  BY Statics
<1>2. \A g : IsTarget(g)' <=> IsTarget(g)
  BY Statics
<1>3. /\ \A fields, t, n : LiveIn(fields, t, n)' <=> LiveIn(fields, t, n)
      /\ \A fields, t, n : EntryIn(fields, t, n)' <=> EntryIn(fields, t, n)
  BY FieldsStatic
<1> SUFFICES ASSUME c.at = "fields" PROVE FieldsCall(c)'
  BY DEF FieldsCall
<1> DEFINE t == c.msg
<1>4. t \in DOMAIN messages /\ t \in DOMAIN messages' /\ messages'[t] = messages[t]
  BY DEF FieldsCall
<1>5. FieldsIn(t, c.i - 1)'
  BY <1>3, <1>4 DEF FieldsCall, FieldsIn
<1> QED
  BY <1>1, <1>2, <1>4, <1>5 DEF FieldsCall

LEMMA CallsSame ==
  ASSUME Given, messages' = messages, NEW c, FieldsCall(c)
  PROVE  FieldsCall(c)'
<1>1. \A t : Collected(t)' = Collected(t) /\ File(t)' = File(t)
  BY Statics
<1>2. \A g : IsTarget(g)' <=> IsTarget(g)
  BY Statics
<1>3. /\ \A fields, t, n : LiveIn(fields, t, n)' <=> LiveIn(fields, t, n)
      /\ \A fields, t, n : EntryIn(fields, t, n)' <=> EntryIn(fields, t, n)
  BY FieldsStatic
<1> QED
  BY <1>1, <1>2, <1>3 DEF FieldsCall, FieldsIn

Replaced(s, c, t) == t = [s EXCEPT ![Len(s)] = c]

LEMMA ReplacedIs ==
  ASSUME NEW E, NEW s \in Seq(E), s # <<>>, NEW c \in E, NEW t, Replaced(s, c, t)
  PROVE  /\ t \in Seq(E) /\ Len(t) = Len(s) /\ DOMAIN t = DOMAIN s
         /\ \A k \in DOMAIN s : k < Len(s) => t[k] = s[k]
         /\ t[Len(s)] = c
  BY DEF Replaced

LEMMA FrontIs ==
  ASSUME NEW E, NEW s \in Seq(E), s # <<>>
  PROVE  /\ Front(s) \in Seq(E) /\ Len(Front(s)) = Len(s) - 1
         /\ DOMAIN Front(s) = 1 .. Len(s) - 1
         /\ \A k \in 1 .. Len(s) - 1 : Front(s)[k] = s[k]
<1>1. Len(s) \in Nat /\ Len(s) >= 1 /\ Len(s) - 1 \in Nat
  OBVIOUS
<1>2. Front(s) = SubSeq(s, 1, Len(s) - 1)
  BY DEF Front
<1>3. /\ SubSeq(s, 1, Len(s) - 1) \in Seq(E) /\ Len(SubSeq(s, 1, Len(s) - 1)) = Len(s) - 1
      /\ \A k \in 1 .. Len(s) - 1 : SubSeq(s, 1, Len(s) - 1)[k] = s[k]
  BY <1>1
<1> QED
  BY <1>1, <1>2, <1>3

LEMMA AwaitsStatic ==
  ASSUME Given
  PROVE  /\ \A c, n : Awaits(c, n)' <=> Awaits(c, n)
         /\ \A c : NestedCall(c)' <=> NestedCall(c)
         /\ OpenCall' = OpenCall /\ Message' = Message
  BY Statics, TypesStatic, TraversalStatic, FieldsStatic

(* How the stack may change: the topmost call moves on,                    *)
LEMMA StackReplaced ==
  ASSUME StackInv, Given, stack # <<>>, NEW c \in OpenCall, Replaced(stack, c, stack'),
         c.msg = Top.msg, todo' = todo, phase' = "parse", result' \in Message \cup {None, Null},
         NestedCall(c), FieldsCall(c)',
         \A k \in DOMAIN stack : k < Len(stack) => \A d : d = stack[k] => FieldsCall(d)',
         c.at = "fields" => \A k \in DOMAIN stack :
           k < Len(stack) /\ stack[k].at = "fields" => stack[k].msg # c.msg
  PROVE  StackInv'
<1>1. /\ \A d, n : Awaits(d, n)' <=> Awaits(d, n)
      /\ \A d : NestedCall(d)' <=> NestedCall(d)
      /\ OpenCall' = OpenCall /\ Message' = Message
  BY AwaitsStatic
<1>2. /\ stack \in Seq(OpenCall) /\ DOMAIN stack = 1 .. Len(stack) /\ Len(stack) \in Nat
      /\ Top = stack[Len(stack)] /\ Len(stack) \in DOMAIN stack
  BY TopIs DEF StackInv
<1>3. /\ stack' \in Seq(OpenCall) /\ Len(stack') = Len(stack) /\ DOMAIN stack' = DOMAIN stack
      /\ \A k \in DOMAIN stack : k < Len(stack) => stack'[k] = stack[k]
      /\ stack'[Len(stack)] = c
  BY <1>2, ReplacedIs
<1>4. \A k \in DOMAIN stack : k = Len(stack) \/ k < Len(stack)
  BY <1>2
<1>5. \A k \in DOMAIN stack' : NestedCall(stack'[k])
  BY <1>3, <1>4 DEF StackInv
<1>6. \A k \in DOMAIN stack' : \A d : d = stack'[k] => FieldsCall(d)'
  BY <1>3, <1>4
<1>7. \A k, l \in DOMAIN stack' :
        stack'[k].at = "fields" /\ stack'[l].at = "fields" /\ stack'[l].msg = stack'[k].msg => l = k
  BY <1>3, <1>4 DEF StackInv
<1>8. \A k \in DOMAIN stack' : stack'[k].msg = stack[k].msg
  BY <1>2, <1>3, <1>4
<1>9. \A k \in DOMAIN stack' : k < Len(stack) => Awaits(stack'[k], stack'[k + 1].msg)
  <2> TAKE k \in DOMAIN stack'
  <2>1. k < Len(stack) => k + 1 \in DOMAIN stack'
    BY <1>2, <1>3
  <2> QED
    BY <1>3, <1>8, <2>1 DEF StackInv
<1>10. todo' \in Seq(Message) /\ \A i \in DOMAIN todo' : todo'[i] \in Range(program.roots)
  BY DEF StackInv
<1>11. program' = program
  BY DEF Given
<1> QED
  BY <1>1, <1>3, <1>5, <1>6, <1>7, <1>9, <1>10, <1>11 DEF StackInv

(* it returns,                                                             *)
LEMMA StackPopped ==
  ASSUME StackInv, Given, stack # <<>>, stack' = Front(stack),
         todo' = todo, phase' = "parse", result' \in Message \cup {None, Null},
         \A k \in DOMAIN stack : k < Len(stack) => \A d : d = stack[k] => FieldsCall(d)'
  PROVE  StackInv'
<1>1. /\ \A d, n : Awaits(d, n)' <=> Awaits(d, n)
      /\ \A d : NestedCall(d)' <=> NestedCall(d)
      /\ OpenCall' = OpenCall /\ Message' = Message
  BY AwaitsStatic
<1>2. /\ stack \in Seq(OpenCall) /\ DOMAIN stack = 1 .. Len(stack) /\ Len(stack) \in Nat
  BY DEF StackInv
<1>3. /\ stack' \in Seq(OpenCall) /\ Len(stack') = Len(stack) - 1 /\ DOMAIN stack' = 1 .. Len(stack) - 1
      /\ \A k \in 1 .. Len(stack) - 1 : stack'[k] = stack[k]
  BY <1>2, FrontIs
<1>4. \A k \in DOMAIN stack' : k \in DOMAIN stack /\ k < Len(stack) /\ stack'[k] = stack[k]
  BY <1>2, <1>3
<1>5. \A k \in DOMAIN stack' : NestedCall(stack'[k])
  BY <1>4 DEF StackInv
<1>6. \A k \in DOMAIN stack' : \A d : d = stack'[k] => FieldsCall(d)'
  BY <1>4
<1>7. \A k, l \in DOMAIN stack' :
        stack'[k].at = "fields" /\ stack'[l].at = "fields" /\ stack'[l].msg = stack'[k].msg => l = k
  BY <1>4 DEF StackInv
<1>8. \A k \in DOMAIN stack' : k < Len(stack') => Awaits(stack'[k], stack'[k + 1].msg)
  <2> TAKE k \in DOMAIN stack'
  <2>1. k < Len(stack') => k + 1 \in DOMAIN stack'
    BY <1>2, <1>3
  <2> QED
    BY <1>4, <2>1 DEF StackInv
<1>9. todo' \in Seq(Message) /\ \A i \in DOMAIN todo' : todo'[i] \in Range(program.roots)
  BY DEF StackInv
<1>10. program' = program
  BY DEF Given
<1> QED
  BY <1>1, <1>3, <1>5, <1>6, <1>7, <1>8, <1>9, <1>10 DEF StackInv

(* or it makes another call.                                               *)
LEMMA StackPushed ==
  ASSUME StackInv, Given, NEW n \in Message, Call(n), messages' = messages, phase' = "parse",
         todo' \in Seq(Message), \A i \in DOMAIN todo' : todo'[i] \in Range(program.roots),
         stack # <<>> => Awaits(Top, n), TypesInv
  PROVE  StackInv'
<1> DEFINE c == [msg |-> n, at |-> "nested", i |-> 1, nested |-> <<>>]
<1>1. /\ \A d, t : Awaits(d, t)' <=> Awaits(d, t)
      /\ \A d : NestedCall(d)' <=> NestedCall(d)
      /\ OpenCall' = OpenCall /\ Message' = Message
  BY AwaitsStatic
<1>2. /\ stack \in Seq(OpenCall) /\ DOMAIN stack = 1 .. Len(stack) /\ Len(stack) \in Nat
  BY DEF StackInv
<1>3. c \in OpenCall
  <2>1. << >> \in Seq(Message)
    OBVIOUS
  <2> QED
    BY <2>1 DEF OpenCall
<1>4. NestedCall(c)
  <2>1. D(n).nested \in Seq(Message)
    BY DescriptorOf
  <2>2. Len(D(n).nested) \in Nat
    BY <2>1
  <2>3. OnlyTo(D(n).nested, KeptPlaces(n), 0) = <<>>
    BY <2>2, OnlyToSteps
  <2> QED
    BY <2>2, <2>3 DEF NestedCall
<1>5. c.at = "nested" /\ c.msg = n
  OBVIOUS
<1>6. stack' = Append(stack, c) /\ result' = None
  BY DEF Call
<1> HIDE DEF c
<1>7. /\ stack' \in Seq(OpenCall) /\ Len(stack') = Len(stack) + 1
      /\ DOMAIN stack' = 1 .. Len(stack) + 1
      /\ \A k \in 1 .. Len(stack) : stack'[k] = stack[k]
      /\ stack'[Len(stack) + 1] = c
  BY <1>2, <1>3, <1>6, Appended
<1>8. \A k \in DOMAIN stack' : (k \in DOMAIN stack /\ stack'[k] = stack[k]) \/ k = Len(stack) + 1
  BY <1>2, <1>7
<1>9. \A k \in DOMAIN stack' : NestedCall(stack'[k])
  BY <1>4, <1>7, <1>8 DEF StackInv
<1>10. \A k \in DOMAIN stack' : \A d : d = stack'[k] => FieldsCall(d)'
  <2> TAKE k \in DOMAIN stack'
  <2>1. CASE k \in DOMAIN stack /\ stack'[k] = stack[k]
    BY <2>1, CallsSame DEF StackInv
  <2>2. CASE k = Len(stack) + 1
    <3>1. \A d : d = c => FieldsCall(d)'
      BY <1>5 DEF FieldsCall
    <3> QED
      BY <1>7, <2>2, <3>1
  <2> QED
    BY <1>8, <2>1, <2>2
<1>11. \A k, l \in DOMAIN stack' :
         stack'[k].at = "fields" /\ stack'[l].at = "fields" /\ stack'[l].msg = stack'[k].msg => l = k
  BY <1>5, <1>7, <1>8 DEF StackInv
<1>12. \A k \in DOMAIN stack' : k < Len(stack') => Awaits(stack'[k], stack'[k + 1].msg)
  <2> TAKE k \in DOMAIN stack'
  <2>1. CASE k < Len(stack)
    <3>1. k \in 1 .. Len(stack) /\ k + 1 \in 1 .. Len(stack)
      BY <1>2, <1>7, <2>1
    <3> QED
      BY <1>2, <1>7, <2>1, <3>1 DEF StackInv
  <2>2. CASE k = Len(stack)
    <3>1. stack # <<>>
      BY <1>2, <1>7, <2>2
    <3>2. Top = stack[Len(stack)] /\ k \in 1 .. Len(stack)
      BY <2>2, <3>1, TopIs
    <3> QED
      BY <1>5, <1>7, <2>2, <3>1, <3>2
  <2>3. CASE k = Len(stack) + 1
    BY <1>2, <1>7, <2>3
  <2> QED
    BY <1>2, <1>7, <2>1, <2>2, <2>3
<1>13. program' = program /\ result' \in Message \cup {None, Null}
  BY <1>6 DEF Given
<1> QED
  BY <1>1, <1>7, <1>9, <1>10, <1>11, <1>12, <1>13 DEF StackInv

LEMMA OthersKept ==
  ASSUME StackInv, Given, stack # <<>>, NEW m, m = Top.msg,
         \A n \in DOMAIN messages : n \in DOMAIN messages' /\ (n # m => messages'[n] = messages[n]),
         Top.at = "fields" \/ m \notin DOMAIN messages
  PROVE  \A k \in DOMAIN stack : k < Len(stack) => \A d : d = stack[k] => FieldsCall(d)'
<1> SUFFICES ASSUME NEW k \in DOMAIN stack, k < Len(stack), NEW d, d = stack[k]
             PROVE  FieldsCall(d)'
  OBVIOUS
<1>1. Top = stack[Len(stack)] /\ Len(stack) \in DOMAIN stack /\ Len(stack) \in Nat
  BY TopIs
<1>2. FieldsCall(d)
  BY DEF StackInv
<1>3. d.at = "fields" => d.msg # m
  <2>1. CASE Top.at = "fields"
    BY <1>1, <2>1 DEF StackInv
  <2>2. CASE m \notin DOMAIN messages
    BY <1>2, <2>2 DEF FieldsCall
  <2> QED
    BY <2>1, <2>2
<1> QED
  BY <1>2, <1>3, CallsKept

LEMMA OthersSame ==
  ASSUME StackInv, Given, messages' = messages
  PROVE  \A k \in DOMAIN stack : \A d : d = stack[k] => FieldsCall(d)'
  BY CallsSame DEF StackInv

(* The topmost call with its parts replaced.                               *)
CallTo(at, i, nested) == [msg |-> Top.msg, at |-> at, i |-> i, nested |-> nested]

LEMMA AdvancedIs ==
  ASSUME StackInv, stack # <<>>
  PROVE  /\ Replaced(stack, CallTo(Top.at, Top.i + 1, Top.nested), Advanced)
         /\ CallTo(Top.at, Top.i + 1, Top.nested) \in OpenCall
<1> DEFINE n == Len(stack)
           c == CallTo(Top.at, Top.i + 1, Top.nested)
<1>1. Top = stack[n] /\ n \in DOMAIN stack /\ Top \in OpenCall
  BY TopIs
<1>2. [Top EXCEPT !.i = Top.i + 1] = c /\ c \in OpenCall
  BY <1>1 DEF CallTo, OpenCall
<1>3. Advanced = [stack EXCEPT ![n] = [Top EXCEPT !.i = Top.i + 1]]
  BY <1>1 DEF Advanced
<1> QED
  BY <1>2, <1>3 DEF Replaced

(* Every call stays, and the topmost one goes on.                          *)
Moved ==
  /\ DOMAIN stack' = DOMAIN stack
  /\ \A k \in DOMAIN stack : stack'[k].msg = stack[k].msg /\ stack'[k].at = stack[k].at
  /\ \A k \in DOMAIN stack : k < Len(stack) => stack'[k] = stack[k]
  /\ stack'[Len(stack)].i = Top.i + 1

LEMMA Moves ==
  ASSUME StackInv, stack # <<>>, NEW c \in OpenCall, Replaced(stack, c, stack'),
         c.msg = Top.msg, c.at = Top.at, c.i = Top.i + 1
  PROVE  Moved
<1>1. stack \in Seq(OpenCall) /\ Top = stack[Len(stack)] /\ Len(stack) \in Nat /\ DOMAIN stack = 1 .. Len(stack)
  BY TopIs DEF StackInv
<1>2. /\ DOMAIN stack' = DOMAIN stack /\ stack'[Len(stack)] = c
      /\ \A k \in DOMAIN stack : k < Len(stack) => stack'[k] = stack[k]
  BY <1>1, ReplacedIs
<1>3. \A k \in DOMAIN stack : k < Len(stack) \/ k = Len(stack)
  BY <1>1
<1> QED
  BY <1>1, <1>2, <1>3 DEF Moved

LEMMA AdvancedMoves ==
  ASSUME StackInv, stack # <<>>, stack' = Advanced
  PROVE  Moved
<1>1. PICK c : c = CallTo(Top.at, Top.i + 1, Top.nested)
  OBVIOUS
<1>2. c.msg = Top.msg /\ c.at = Top.at /\ c.i = Top.i + 1
  BY <1>1 DEF CallTo
<1>3. Replaced(stack, c, stack') /\ c \in OpenCall
  BY <1>1, AdvancedIs
<1> QED
  BY <1>2, <1>3, Moves

LEMMA ListedIs ==
  ASSUME StackInv, stack # <<>>, NEW r \in Message
  PROVE  /\ Replaced(stack, CallTo(Top.at, Top.i + 1, Append(Top.nested, r)),
                     [Advanced EXCEPT ![Len(stack)].nested = Append(@, r)])
         /\ CallTo(Top.at, Top.i + 1, Append(Top.nested, r)) \in OpenCall
<1> DEFINE n == Len(stack)
           c == CallTo(Top.at, Top.i + 1, Append(Top.nested, r))
           before == CallTo(Top.at, Top.i + 1, Top.nested)
<1>1. Top = stack[n] /\ n \in DOMAIN stack /\ Top \in OpenCall
  BY TopIs
<1>2. Advanced = [stack EXCEPT ![n] = before] /\ before \in OpenCall
  BY AdvancedIs DEF Replaced
<1>3. Advanced[n] = before /\ before.nested = Top.nested
  BY <1>1, <1>2 DEF CallTo
<1>4. Append(Top.nested, r) \in Seq(Message)
  BY <1>1 DEF OpenCall
<1>5. [before EXCEPT !.nested = Append(Top.nested, r)] = c /\ c \in OpenCall
  <2>1. \A x : [before EXCEPT !.nested = x] = CallTo(Top.at, Top.i + 1, x)
    BY DEF CallTo
  <2>2. \A x \in Seq(Message) : CallTo(Top.at, Top.i + 1, x) \in OpenCall
    <3>1. Top.msg \in Message /\ Top.at \in {"nested", "fields"} /\ Top.i + 1 \in Nat \ {0}
      BY <1>1 DEF OpenCall
    <3> QED
      BY <3>1 DEF CallTo, OpenCall
  <2> QED
    BY <1>4, <2>1, <2>2
<1> DEFINE after == [Advanced EXCEPT ![n].nested = Append(@, r)]
<1>6. after = [Advanced EXCEPT ![n] = [before EXCEPT !.nested = Append(Top.nested, r)]]
  BY <1>3
<1> HIDE DEF before, c
<1>7. after = [stack EXCEPT ![n] = c]
  BY <1>1, <1>2, <1>5, <1>6
<1> QED
  BY <1>5, <1>7 DEF Replaced, c

LEMMA EnteredIs ==
  ASSUME StackInv, stack # <<>>
  PROVE  /\ Replaced(stack, CallTo("fields", 1, Top.nested),
                     [stack EXCEPT ![Len(stack)].at = "fields", ![Len(stack)].i = 1])
         /\ CallTo("fields", 1, Top.nested) \in OpenCall
<1> DEFINE n == Len(stack)
           c == CallTo("fields", 1, Top.nested)
           half == CallTo("fields", Top.i, Top.nested)
           first == [stack EXCEPT ![n].at = "fields"]
<1>1. Top = stack[n] /\ n \in DOMAIN stack /\ Top \in OpenCall
  BY TopIs
<1>2. [Top EXCEPT !.at = "fields"] = half /\ [half EXCEPT !.i = 1] = c /\ c \in OpenCall
  BY <1>1 DEF CallTo, OpenCall
<1>3. first = [stack EXCEPT ![n] = half]
  BY <1>1, <1>2
<1> HIDE DEF half, c, first
<1>4. first[n] = half /\ DOMAIN first = DOMAIN stack
  BY <1>1, <1>3
<1>5. [first EXCEPT ![n].i = 1] = [first EXCEPT ![n] = c]
  BY <1>2, <1>4
<1>6. [first EXCEPT ![n].i = 1] = [stack EXCEPT ![n] = c]
  BY <1>1, <1>3, <1>5
<1> QED
  BY <1>2, <1>6 DEF Replaced, c, first

LEMMA CallParts ==
  ASSUME NEW at, NEW i, NEW nested
  PROVE  /\ CallTo(at, i, nested).msg = Top.msg /\ CallTo(at, i, nested).at = at
         /\ CallTo(at, i, nested).i = i /\ CallTo(at, i, nested).nested = nested
  BY DEF CallTo

-----------------------------------------------------------------------------
(* The open calls after every step.                                        *)

LEMMA NestedNext ==
  ASSUME TypesInv, StackInv, stack # <<>>, Top.at = "nested", Top.i <= Len(D(Top.msg).nested),
         NEW n, n = D(Top.msg).nested[Top.i]
  PROVE  /\ n \in Message
         /\ ~D(n).map /\ Kept(n) => NestedCall(CallTo("nested", Top.i + 1, Append(Top.nested, n)))
         /\ D(n).map \/ ~Kept(n) => NestedCall(CallTo("nested", Top.i + 1, Top.nested))
<1>1. PICK m, i : m = Top.msg /\ i = Top.i
  OBVIOUS
<1>2. m \in Message /\ i \in Nat /\ i >= 1 /\ NestedCall(Top)
  BY <1>1, TopIs
<1>3. D(m).nested \in Seq(Message)
  BY <1>2, DescriptorOf
<1>4. PICK s : s = D(m).nested
  OBVIOUS
<1>5. s \in Seq(Message) /\ Len(s) \in Nat /\ DOMAIN s = 1 .. Len(s) /\ i \in 1 .. Len(s)
  BY <1>1, <1>2, <1>3, <1>4
<1>6. n = s[i] /\ n \in Message
  BY <1>1, <1>4, <1>5
<1>7. i \in KeptPlaces(m) <=> (~D(n).map /\ Kept(n))
  BY <1>4, <1>5, <1>6 DEF KeptPlaces
<1>8. /\ i \in KeptPlaces(m) => OnlyTo(s, KeptPlaces(m), i) = Append(OnlyTo(s, KeptPlaces(m), i - 1), n)
      /\ i \notin KeptPlaces(m) => OnlyTo(s, KeptPlaces(m), i) = OnlyTo(s, KeptPlaces(m), i - 1)
  BY <1>5, <1>6, OnlyToStep
<1>9. Top.nested = OnlyTo(s, KeptPlaces(m), i - 1)
  BY <1>1, <1>2, <1>4 DEF NestedCall
<1>10. (i + 1) - 1 = i /\ i + 1 <= Len(s) + 1
  BY <1>5
<1>11. \A x : x = OnlyTo(s, KeptPlaces(m), i) => NestedCall(CallTo("nested", i + 1, x))
  BY <1>1, <1>4, <1>10, CallParts DEF NestedCall
<1> QED
  BY <1>1, <1>6, <1>7, <1>8, <1>9, <1>11

(* The calls, action by action.                                            *)
LEMMA StackTraverseNested ==
  ASSUME IRInv, StackInv, TraverseNested
  PROVE  StackInv'
<1> DEFINE nested == D(Top.msg).nested[Top.i]
<1>1. /\ Given /\ phase = "parse" /\ phase' = "parse" /\ stack # <<>> /\ Top.at = "nested"
      /\ result = None /\ Top.i <= Len(D(Top.msg).nested) /\ todo' = todo /\ messages' = messages
  BY DEF TraverseNested, In, Given, ir
<1>2. /\ IF D(nested).map THEN stack' = Advanced /\ UNCHANGED result ELSE Call(nested)
  BY DEF TraverseNested
<1>3. TypesInv
  BY DEF IRInv
<1>4. /\ nested \in Message
      /\ D(nested).map => NestedCall(CallTo("nested", Top.i + 1, Top.nested))
  BY <1>1, <1>3, NestedNext
<1>5. Awaits(Top, nested) \/ D(nested).map
  BY <1>1 DEF Awaits
<1> HIDE DEF nested
<1>6. CASE D(nested).map
  <2>1. PICK c : c = CallTo("nested", Top.i + 1, Top.nested)
    OBVIOUS
  <2>2. Replaced(stack, c, stack') /\ c \in OpenCall
    BY <1>1, <1>2, <1>6, <2>1, AdvancedIs
  <2>3. c.msg = Top.msg /\ c.at = "nested" /\ NestedCall(c)
    BY <1>4, <1>6, <2>1, CallParts
  <2>4. \A d : d.at = "nested" => FieldsCall(d)'
    BY DEF FieldsCall
  <2>5. \A k \in DOMAIN stack : \A d : d = stack[k] => FieldsCall(d)'
    BY <1>1, OthersSame
  <2>6. result' = None
    BY <1>1, <1>2, <1>6
  <2> QED
    BY <1>1, <2>2, <2>3, <2>4, <2>5, <2>6, StackReplaced
<1>7. CASE ~D(nested).map
  <2>1. todo' \in Seq(Message) /\ \A i \in DOMAIN todo' : todo'[i] \in Range(program.roots)
    BY <1>1 DEF StackInv
  <2> QED
    BY <1>1, <1>2, <1>3, <1>4, <1>5, <1>7, <2>1, StackPushed
<1> QED
  BY <1>6, <1>7

LEMMA StackNestedReturned ==
  ASSUME IRInv, StackInv, NestedReturned, NEW T \in SUBSET Message, Seen(T)
  PROVE  StackInv' /\ Moved
<1>1. /\ Given /\ phase = "parse" /\ phase' = "parse" /\ stack # <<>> /\ Top.at = "nested"
      /\ result # None /\ result' = None /\ todo' = todo /\ messages' = messages
  BY DEF NestedReturned, In, Given, ir
<1>2. PICK n \in T : Awaits(Top, n) /\ result = IF Kept(n) THEN n ELSE Null
  BY <1>1 DEF Seen, SeenResult
<1>3. Top.i <= Len(D(Top.msg).nested) /\ n = D(Top.msg).nested[Top.i] /\ ~D(n).map
  BY <1>1, <1>2 DEF Awaits
<1>4. TypesInv
  BY DEF IRInv
<1>5. n \in Message /\ n # Null
  BY <1>4, DescriptorOf
<1>6. /\ Kept(n) => NestedCall(CallTo("nested", Top.i + 1, Append(Top.nested, n)))
      /\ ~Kept(n) => NestedCall(CallTo("nested", Top.i + 1, Top.nested))
  BY <1>1, <1>3, <1>4, NestedNext
<1>7. stack' = [Advanced EXCEPT ![Len(stack)].nested = IF result = Null THEN @ ELSE Append(@, result)]
  BY DEF NestedReturned
<1>8. \E c \in OpenCall :
        Replaced(stack, c, stack') /\ c.msg = Top.msg /\ c.at = "nested" /\ c.i = Top.i + 1 /\ NestedCall(c)
  <2>1. CASE Kept(n)
    <3>1. result = n /\ result # Null
      BY <1>2, <1>5, <2>1
    <3>2. stack' = [Advanced EXCEPT ![Len(stack)].nested = Append(@, n)]
      BY <1>7, <3>1
    <3>3. PICK c : c = CallTo("nested", Top.i + 1, Append(Top.nested, n))
      OBVIOUS
    <3>4. Replaced(stack, c, stack') /\ c \in OpenCall
      BY <1>1, <1>5, <3>2, <3>3, ListedIs
    <3> QED
      BY <1>6, <2>1, <3>3, <3>4, CallParts
  <2>2. CASE ~Kept(n)
    <3>1. stack' = [Advanced EXCEPT ![Len(stack)].nested = @]
      BY <1>2, <1>7, <2>2
    <3>2. PICK c : c = CallTo("nested", Top.i + 1, Top.nested)
      OBVIOUS
    <3>3. Replaced(stack, c, Advanced) /\ c \in OpenCall
      BY <1>1, <3>2, AdvancedIs
    <3>4. stack \in Seq(OpenCall) /\ Len(stack) \in DOMAIN stack
      BY <1>1, TopIs DEF StackInv
    <3>5. Advanced[Len(stack)] = c /\ Len(stack) \in DOMAIN Advanced
      BY <1>1, <3>3, <3>4, ReplacedIs
    <3>6. [c EXCEPT !.nested = c.nested] = c
      BY <3>2 DEF CallTo
    <3>7. Advanced = [stack EXCEPT ![Len(stack)] = c]
      BY <3>3 DEF Replaced
    <3>8. stack' = [Advanced EXCEPT ![Len(stack)] = c]
      BY <3>1, <3>5, <3>6
    <3>9. Replaced(stack, c, stack')
      BY <3>7, <3>8 DEF Replaced
    <3> QED
      BY <1>6, <2>2, <3>2, <3>3, <3>9, CallParts
  <2> QED
    BY <2>1, <2>2
<1>9. \A d : d.at = "nested" => FieldsCall(d)'
  BY DEF FieldsCall
<1>10. \A k \in DOMAIN stack : \A d : d = stack[k] => FieldsCall(d)'
  BY <1>1, OthersSame
<1>11. Moved
  BY <1>1, <1>8, Moves
<1> QED
  BY <1>1, <1>8, <1>9, <1>10, <1>11, StackReplaced

LEMMA StackDropped ==
  ASSUME IRInv, StackInv, NEW m, Drop(m) \/ Known(m)
  PROVE  StackInv'
<1>1. /\ Given /\ phase = "parse" /\ phase' = "parse" /\ stack # <<>> /\ m = Top.msg
      /\ todo' = todo /\ messages' = messages /\ stack' = Front(stack) /\ result' \in {m, Null}
  BY DEF Drop, Known, Accepted, Ready, In, Return, Given, ir
<1>2. m \in Message
  BY <1>1, TopIs
<1>3. \A k \in DOMAIN stack : \A d : d = stack[k] => FieldsCall(d)'
  BY <1>1, OthersSame
<1> QED
  BY <1>1, <1>2, <1>3, StackPopped

LEMMA NothingIn ==
  ASSUME TypesInv, NEW m \in Message
  PROVE  LiveIn(<<>>, m, 0) /\ EntryIn(<<>>, m, 0)
  BY DEF LiveIn, EntryIn

LEMMA StackEmplaced ==
  ASSUME IRInv, StackInv, NEW m \in Message, Emplace(m)
  PROVE  StackInv'
<1>1. /\ Given /\ phase = "parse" /\ stack # <<>> /\ m = Top.msg /\ Top.at = "nested"
      /\ m \notin DOMAIN messages /\ DOMAIN messages' = DOMAIN messages \cup {m}
      /\ \A n \in DOMAIN messages : messages'[n] = messages[n]
      /\ messages'[m] = NewMessage(m)
  BY Emplacing
<1>2. /\ todo' = todo /\ phase' = "parse" /\ result = None
      /\ IF IsTarget(File(m))
           THEN stack' = [stack EXCEPT ![Len(stack)].at = "fields", ![Len(stack)].i = 1] /\ UNCHANGED result
           ELSE Return(m)
  BY <1>1 DEF Emplace, Accepted, Ready
<1>3. \A k \in DOMAIN stack : k < Len(stack) => \A d : d = stack[k] => FieldsCall(d)'
  BY <1>1, OthersKept
<1>4. CASE IsTarget(File(m))
  <2>1. PICK c : c = CallTo("fields", 1, Top.nested)
    OBVIOUS
  <2>2. Replaced(stack, c, stack') /\ c \in OpenCall
    BY <1>1, <1>2, <1>4, <2>1, EnteredIs
  <2>3. c.msg = m /\ c.at = "fields" /\ c.i = 1
    BY <1>1, <2>1, CallParts
  <2>4. NestedCall(c)
    BY <2>3 DEF NestedCall
  <2>5. TypesInv
    BY DEF IRInv
  <2>6. messages'[m].fields = <<>> /\ ~messages'[m].defined
    BY <1>1 DEF NewMessage
  <2>7. FieldsIn(m, 0)'
    <3>1. /\ \A fields, t, n : LiveIn(fields, t, n)' <=> LiveIn(fields, t, n)
          /\ \A fields, t, n : EntryIn(fields, t, n)' <=> EntryIn(fields, t, n)
      BY <1>1, FieldsStatic
    <3> QED
      BY <2>5, <2>6, <3>1, NothingIn DEF FieldsIn
  <2>8. /\ \A t : Collected(t)' = Collected(t) /\ File(t)' = File(t)
        /\ \A g : IsTarget(g)' <=> IsTarget(g)
    BY <1>1, Statics
  <2>9. Len(Collected(m)) \in Nat
    BY <2>5, CollectedTyped
  <2>10. FieldsCall(c)'
    <3>1. c.i <= Len(Collected(c.msg)) + 1 /\ c.i - 1 = 0
      BY <2>3, <2>9
    <3> QED
      BY <1>1, <1>4, <2>3, <2>6, <2>7, <2>8, <3>1 DEF FieldsCall
  <2>11. \A k \in DOMAIN stack : stack[k].at = "fields" => stack[k].msg # c.msg
    BY <1>1, <2>3 DEF StackInv, FieldsCall
  <2> QED
    BY <1>1, <1>2, <1>3, <1>4, <2>2, <2>3, <2>4, <2>10, <2>11, StackReplaced
<1>5. CASE ~IsTarget(File(m))
  BY <1>1, <1>2, <1>3, <1>5, StackPopped DEF Return
<1> QED
  BY <1>4, <1>5

LEMMA StackTraverseType ==
  ASSUME IRInv, StackInv, NEW f, TraverseType(f)
  PROVE  StackInv'
<1>1. /\ Given /\ phase = "parse" /\ phase' = "parse" /\ stack # <<>> /\ Top.at = "fields"
      /\ todo' = todo /\ messages' = messages /\ Top.i <= Len(Collected(Top.msg))
      /\ f = Collected(Top.msg)[Top.i] /\ f.type \in Message /\ Call(f.type)
  BY DEF TraverseType, AtField, In, Given, ir
<1>2. Awaits(Top, f.type)
  BY <1>1 DEF Awaits
<1>3. todo' \in Seq(Message) /\ \A i \in DOMAIN todo' : todo'[i] \in Range(program.roots)
  BY <1>1 DEF StackInv
<1>4. TypesInv
  BY DEF IRInv
<1> QED
  BY <1>1, <1>2, <1>3, <1>4, StackPushed

LEMMA StackTraverseNext ==
  ASSUME IRInv, StackInv, TraverseNext
  PROVE  StackInv'
<1>1. /\ Given /\ phase = "parse" /\ phase' = "parse" /\ stack = <<>> /\ todo # <<>>
      /\ todo' = Tail(todo) /\ messages' = messages /\ Call(Head(todo))
  BY DEF TraverseNext, Given, ir
<1>2. todo \in Seq(Message) /\ \A i \in DOMAIN todo : todo[i] \in Range(program.roots)
  BY DEF StackInv
<1>3. Head(todo) \in Message
  BY <1>1, <1>2
<1>4. /\ Tail(todo) \in Seq(Message) /\ DOMAIN Tail(todo) = 1 .. Len(todo) - 1 /\ Len(todo) \in Nat
      /\ \A i \in 1 .. Len(todo) - 1 : Tail(todo)[i] = todo[i + 1]
  BY <1>1, <1>2
<1>5. \A i \in DOMAIN todo' : todo'[i] \in Range(program.roots)
  <2> TAKE i \in DOMAIN todo'
  <2>1. i \in 1 .. Len(todo) - 1 /\ i + 1 \in DOMAIN todo
    BY <1>1, <1>2, <1>4
  <2> QED
    BY <1>1, <1>2, <1>4, <2>1
<1>6. TypesInv
  BY DEF IRInv
<1> QED
  BY <1>1, <1>3, <1>4, <1>5, <1>6, StackPushed

LEMMA StackFinishMessage ==
  ASSUME IRInv, StackInv, NEW m \in Message, FinishMessage(m)
  PROVE  StackInv'
<1>1. /\ Given /\ phase = "parse" /\ stack # <<>> /\ Top.at = "fields" /\ m = Top.msg
      /\ IsNow(messages, m, messages', Finished(m, messages[m].fields), GetMessageLayout(m, Slice(m)), TRUE)
  BY Finishing
<1>2. todo' = todo /\ phase' = "parse" /\ stack' = Front(stack) /\ result' = m
  BY <1>1 DEF FinishMessage, Return
<1>3. \A n \in DOMAIN messages : n \in DOMAIN messages' /\ (n # m => messages'[n] = messages[n])
  BY <1>1 DEF IsNow
<1>4. \A k \in DOMAIN stack : k < Len(stack) => \A d : d = stack[k] => FieldsCall(d)'
  BY <1>1, <1>3, OthersKept
<1> QED
  BY <1>1, <1>2, <1>4, StackPopped

LEMMA StackFinishFile ==
  ASSUME IRInv, StackInv, FinishFile
  PROVE  StackInv'
<1>1. /\ Given /\ phase' = "check" /\ stack = <<>> /\ stack' = <<>> /\ todo = <<>> /\ todo' = <<>>
      /\ result' = result
  BY DEF FinishFile, Given, parsing
<1>2. Message' = Message /\ program' = program
  BY <1>1 DEF Message, Given
<1>3. << >> \in Seq(OpenCall') /\ << >> \in Seq(Message) /\ DOMAIN << >> = {}
  OBVIOUS
<1>4. result' \in Message \cup {None, Null}
  BY <1>1 DEF StackInv
<1> QED
  BY <1>1, <1>2, <1>3, <1>4 DEF StackInv

(* The live fields when a field is left out, and when it is added.         *)
LEMMA FieldSkipped ==
  ASSUME TypesInv, NEW m \in Message, NEW i \in Nat, i >= 1, i <= Len(Collected(m)),
         NEW fields \in Seq(IRField), LiveIn(fields, m, i - 1), EntryIn(fields, m, i - 1),
         ~Wanted(Collected(m)[i])
  PROVE  LiveIn(fields, m, i) /\ EntryIn(fields, m, i)
<1>1. (\A j \in 1 .. i : j = i \/ j \in 1 .. i - 1) /\ (\A j \in 1 .. i - 1 : j \in 1 .. i)
  OBVIOUS
<1>2. LiveIn(fields, m, i)
  BY <1>1 DEF LiveIn
<1>3. ASSUME D(m).map PROVE i # 1
  <2>1. Collected(m) = D(m).fields /\ D(m).fields[1].type \in BasicType
    BY <1>3, EntryDescriptor DEF BasicType
  <2>2. \A t \in Message : t \notin BasicType
    BY DescriptorOf
  <2> QED
    BY <2>1, <2>2 DEF Wanted
<1>4. EntryIn(fields, m, i)
  <2>1. Len(fields) \in Nat
    OBVIOUS
  <2> QED
    BY <1>3, <2>1 DEF EntryIn
<1> QED
  BY <1>2, <1>4

LEMMA FieldAddedLive ==
  ASSUME TypesInv, NEW m \in Message, NEW i \in Nat, i >= 1, i <= Len(Collected(m)),
         NEW fields \in Seq(IRField), LiveIn(fields, m, i - 1), Wanted(Collected(m)[i]),
         NEW new \in IRField, ~new.deprecated, new.name = Collected(m)[i].name
  PROVE  LiveIn(Append(fields, new), m, i)
<1>1. (\A j \in 1 .. i : j = i \/ j \in 1 .. i - 1) /\ (\A j \in 1 .. i - 1 : j \in 1 .. i /\ j # i) /\ i \in 1 .. i
  OBVIOUS
<1>2. PICK all : all = Append(fields, new)
  OBVIOUS
<1>3. /\ DOMAIN fields = 1 .. Len(fields) /\ Len(fields) \in Nat
      /\ DOMAIN all = 1 .. Len(fields) + 1 /\ all[Len(fields) + 1] = new
      /\ \A k \in 1 .. Len(fields) : all[k] = fields[k]
  BY <1>2, Appended
<1>4. \A k \in DOMAIN all : (k \in DOMAIN fields /\ all[k] = fields[k]) \/ (k = Len(fields) + 1 /\ all[k] = new)
  BY <1>3
<1>5. \A k \in DOMAIN fields : k \in DOMAIN all /\ all[k] = fields[k]
  BY <1>3
<1>6. Len(fields) + 1 \in DOMAIN all
  BY <1>3
<1>7. /\ DOMAIN Collected(m) = 1 .. Len(Collected(m)) /\ Len(Collected(m)) \in Nat
      /\ \A j, k \in DOMAIN Collected(m) : Collected(m)[j].name = Collected(m)[k].name => j = k
  BY CollectedIs, CollectedTyped
<1>8. \A j \in 1 .. i - 1 : Collected(m)[j].name # new.name
  BY <1>7
<1>9. \A k \in DOMAIN all : ~all[k].deprecated =>
        \E j \in 1 .. i : all[k].name = Collected(m)[j].name /\ Wanted(Collected(m)[j])
  <2> TAKE k \in DOMAIN all
  <2>1. CASE k \in DOMAIN fields /\ all[k] = fields[k]
    BY <1>1, <2>1 DEF LiveIn
  <2>2. CASE all[k] = new
    BY <1>1, <2>2
  <2> QED
    BY <1>4, <2>1, <2>2
<1>10. \A j \in 1 .. i : Wanted(Collected(m)[j]) =>
         \E k \in DOMAIN all : ~all[k].deprecated /\ all[k].name = Collected(m)[j].name
  <2> TAKE j \in 1 .. i
  <2>1. CASE j = i
    BY <1>3, <1>6, <2>1
  <2>2. CASE j \in 1 .. i - 1
    BY <1>5, <2>2 DEF LiveIn
  <2> QED
    BY <1>1, <2>1, <2>2
<1>11. \A k \in DOMAIN fields : ~fields[k].deprecated => fields[k].name # new.name
  BY <1>8 DEF LiveIn
<1>12. \A k, l \in DOMAIN all :
         ~all[k].deprecated /\ ~all[l].deprecated /\ all[k].name = all[l].name => k = l
  <2> TAKE k, l \in DOMAIN all
  <2>1. CASE k \in DOMAIN fields /\ l \in DOMAIN fields
    BY <1>5, <2>1 DEF LiveIn
  <2>2. CASE k \in DOMAIN fields /\ l = Len(fields) + 1
    BY <1>3, <1>5, <1>11, <2>2
  <2>3. CASE k = Len(fields) + 1 /\ l \in DOMAIN fields
    BY <1>3, <1>5, <1>11, <2>3
  <2> QED
    BY <1>4, <2>1, <2>2, <2>3
<1> QED
  BY <1>2, <1>9, <1>10, <1>12 DEF LiveIn

LEMMA FieldAddedEntry ==
  ASSUME TypesInv, NEW m \in Message, NEW i \in Nat, i >= 1, i <= Len(Collected(m)),
         NEW fields \in Seq(IRField), EntryIn(fields, m, i - 1),
         NEW new \in IRField, new = Added(m, Collected(m)[i])
  PROVE  EntryIn(Append(fields, new), m, i)
<1> SUFFICES ASSUME D(m).map PROVE EntryIn(Append(fields, new), m, i)
  BY DEF EntryIn
<1>1. PICK all : all = Append(fields, new)
  OBVIOUS
<1>2. /\ DOMAIN fields = 1 .. Len(fields) /\ Len(fields) \in Nat /\ Len(all) = Len(fields) + 1
      /\ DOMAIN all = 1 .. Len(fields) + 1 /\ all[Len(fields) + 1] = new
      /\ \A k \in 1 .. Len(fields) : all[k] = fields[k]
  BY <1>1, Appended
<1>3. /\ Collected(m) = D(m).fields /\ Len(D(m).fields) = 2 /\ Slice(m) = ""
      /\ \A k \in {1, 2} : FieldId(D(m).fields[k], "") = k
  BY EntryDescriptor
<1>4. i \in {1, 2} /\ Len(fields) + 1 = i
  <2>1. Len(fields) <= i - 1 /\ (i - 1 >= 1 => Len(fields) >= 1)
    BY DEF EntryIn
  <2>2. i <= 2
    BY <1>3
  <2>3. i = 1 \/ i = 2
    BY <2>2
  <2> QED
    BY ONLY <1>2, <2>1, <2>3, i \in Nat
<1>5. new = LiveField(D(m).fields[i], i)
  BY <1>3, <1>4 DEF Added
<1>6. \A k \in DOMAIN all : all[k] = LiveField(D(m).fields[k], k)
  <2> TAKE k \in DOMAIN all
  <2>1. CASE k = Len(fields) + 1
    BY <1>2, <1>4, <1>5, <2>1
  <2>2. CASE k \in DOMAIN fields
    BY <1>2, <2>2 DEF EntryIn
  <2> QED
    BY <1>2, <2>1, <2>2
<1> QED
  BY <1>1, <1>2, <1>4, <1>6 DEF EntryIn

(* What the call at a field has done.                                      *)
LEMMA AtFieldIs ==
  ASSUME IRInv, StackInv, stack # <<>>, Top.at = "fields", Top.i <= Len(Collected(Top.msg)),
         NEW m, m = Top.msg
  PROVE  /\ m \in Message /\ m \in DOMAIN messages /\ messages[m].fields \in Seq(IRField)
         /\ ~messages[m].defined /\ IsTarget(File(m))
         /\ LiveIn(messages[m].fields, m, Top.i - 1) /\ EntryIn(messages[m].fields, m, Top.i - 1)
<1>1. m \in DOMAIN messages /\ m \in Message /\ ~messages[m].defined /\ IsTarget(File(m))
  BY TopIs DEF FieldsCall
<1>2. FieldsIn(m, Top.i - 1)
  BY TopIs DEF FieldsCall
<1>3. IsMessageDef(messages[m])
  BY <1>1 DEF IRInv, TypesInv
<1> QED
  BY <1>1, <1>2, <1>3 DEF FieldsIn, IsMessageDef

LEMMA StackFieldPassed ==
  ASSUME IRInv, StackInv, Given, stack # <<>>, Top.at = "fields", Top.i <= Len(Collected(Top.msg)),
         todo' = todo, phase' = "parse", result' = None, stack' = Advanced, NEW m, m = Top.msg,
         \A n \in DOMAIN messages : n \in DOMAIN messages' /\ (n # m => messages'[n] = messages[n]),
         ~messages'[m].defined, NEW fields, messages'[m].fields = fields,
         LiveIn(fields, m, Top.i), EntryIn(fields, m, Top.i)
  PROVE  StackInv'
<1>1. \A k \in DOMAIN stack : k < Len(stack) => \A d : d = stack[k] => FieldsCall(d)'
  BY OthersKept
<1>2. PICK c : c = CallTo("fields", Top.i + 1, Top.nested)
  OBVIOUS
<1>3. Replaced(stack, c, stack') /\ c \in OpenCall
  BY <1>2, AdvancedIs
<1>4. c.msg = m /\ c.at = "fields" /\ c.i = Top.i + 1 /\ Top.i \in Nat
  BY <1>2, CallParts, TopIs
<1>5. NestedCall(c)
  BY <1>4 DEF NestedCall
<1>6. m \in DOMAIN messages /\ IsTarget(File(m)) /\ m \in Message
  BY AtFieldIs
<1>7. PICK i : i = Top.i
  OBVIOUS
<1>8. FieldsIn(m, i)'
  <2>1. /\ \A s, t, n : LiveIn(s, t, n)' <=> LiveIn(s, t, n)
        /\ \A s, t, n : EntryIn(s, t, n)' <=> EntryIn(s, t, n)
    BY FieldsStatic
  <2> QED
    BY <1>7, <2>1 DEF FieldsIn
<1>9. /\ \A t : Collected(t)' = Collected(t) /\ File(t)' = File(t)
      /\ \A g : IsTarget(g)' <=> IsTarget(g)
  BY Statics
<1>10. FieldsCall(c)'
  <2>1. c.i - 1 = i /\ c.i <= Len(Collected(c.msg)) + 1
    <3>1. Len(Collected(m)) \in Nat
      BY <1>6, CollectedTyped DEF IRInv
    <3> QED
      BY <1>4, <1>7, <3>1
  <2> QED
    BY <1>4, <1>6, <1>8, <1>9, <2>1 DEF FieldsCall
<1>11. \A k \in DOMAIN stack : k < Len(stack) /\ stack[k].at = "fields" => stack[k].msg # c.msg
  BY <1>4, TopIs DEF StackInv
<1> QED
  BY <1>1, <1>3, <1>4, <1>5, <1>10, <1>11, StackReplaced

LEMMA StackSkipField ==
  ASSUME IRInv, StackInv, NEW f, SkipField(f), NEW T \in SUBSET Message, Seen(T)
  PROVE  StackInv' /\ ~Wanted(f)
<1>1. PICK m, i : m = Top.msg /\ i = Top.i
  OBVIOUS
<1>2. /\ Given /\ phase = "parse" /\ phase' = "parse" /\ stack # <<>> /\ Top.at = "fields"
      /\ todo' = todo /\ messages' = messages /\ i <= Len(Collected(m)) /\ f = Collected(m)[i]
      /\ stack' = Advanced /\ result' = None /\ result = Null
  BY <1>1 DEF SkipField, AtField, In, Given, ir
<1>3. PICK n \in T : Awaits(Top, n) /\ result = IF Kept(n) THEN n ELSE Null
  BY <1>2 DEF Seen, SeenResult, None, Null
<1>4. TypesInv
  BY DEF IRInv
<1>5. n \in Message /\ n # Null
  BY <1>4, DescriptorOf
<1>6. n = f.type /\ ~Kept(n)
  BY <1>1, <1>2, <1>3, <1>5 DEF Awaits
<1>7. ~Wanted(f)
  BY <1>5, <1>6 DEF Wanted
<1>8. /\ m \in Message /\ m \in DOMAIN messages /\ messages[m].fields \in Seq(IRField)
      /\ ~messages[m].defined /\ IsTarget(File(m))
      /\ LiveIn(messages[m].fields, m, i - 1) /\ EntryIn(messages[m].fields, m, i - 1)
  BY <1>1, <1>2, AtFieldIs
<1>9. i \in Nat /\ i >= 1
  BY <1>1, <1>2, TopIs
<1>10. PICK fields : fields = messages[m].fields
  OBVIOUS
<1>11. LiveIn(fields, m, i) /\ EntryIn(fields, m, i)
  BY <1>2, <1>4, <1>7, <1>8, <1>9, <1>10, FieldSkipped
<1>12. StackInv'
  BY <1>1, <1>2, <1>8, <1>10, <1>11, StackFieldPassed
<1> QED
  BY <1>7, <1>12

(* Where the type of an added field is.                                    *)
LEMMA AddedType ==
  ASSUME IRInv, StackInv, NEW f, AddField(f), NEW T \in SUBSET Message, Seen(T)
  PROVE  Wanted(f) /\ (f.type \in Message => f.type \in DOMAIN messages /\ f.type \in T)
<1>1. /\ stack # <<>> /\ Top.at = "fields" /\ f = Collected(Top.msg)[Top.i]
      /\ (f.type \in Message => result = f.type)
  BY DEF AddField, AtField, In
<1> SUFFICES ASSUME f.type \in Message PROVE Kept(f.type) /\ f.type \in DOMAIN messages /\ f.type \in T
  BY DEF Wanted
<1>2. TypesInv
  BY DEF IRInv
<1>3. result = f.type /\ result # None /\ result # Null
  BY <1>1, <1>2, DescriptorOf
<1>4. PICK n \in T : Awaits(Top, n) /\ result = IF Kept(n) THEN n ELSE Null
  BY <1>1, <1>3 DEF Seen, SeenResult
<1>5. n = f.type /\ Kept(n)
  BY <1>1, <1>3, <1>4
<1> QED
  BY <1>4, <1>5 DEF Seen, SeenMessages

LEMMA StackAddField ==
  ASSUME IRInv, StackInv, NEW f, AddField(f), NEW T \in SUBSET Message, Seen(T)
  PROVE  StackInv'
<1>1. PICK m, i : m = Top.msg /\ i = Top.i
  OBVIOUS
<1>2. PICK new : new = Added(m, f)
  OBVIOUS
<1>3. PICK before : before = messages[m].fields
  OBVIOUS
<1>4. /\ Given /\ phase = "parse" /\ stack # <<>> /\ Top.at = "fields"
      /\ i <= Len(Collected(m)) /\ f = Collected(m)[i]
      /\ m \in DOMAIN messages /\ m \in Message /\ f \in FieldDescriptor(program) /\ new \in IRField
      /\ IsNow(messages, m, messages', Append(before, new), messages[m].layout, messages[m].defined)
  BY <1>1, <1>2, <1>3, AddingField
<1>5. phase' = "parse" /\ todo' = todo /\ stack' = Advanced /\ result' = None
  BY <1>4 DEF AddField
<1>6. /\ before \in Seq(IRField) /\ ~messages[m].defined
      /\ LiveIn(before, m, i - 1) /\ EntryIn(before, m, i - 1)
  BY <1>1, <1>3, <1>4, AtFieldIs
<1>7. i \in Nat /\ i >= 1
  BY <1>1, <1>4, TopIs
<1>8. TypesInv
  BY DEF IRInv
<1>9. Wanted(f)
  BY AddedType
<1>10. ~new.deprecated /\ new.name = f.name
  <2>1. FieldId(f, Slice(m)) \in Nat
    BY <1>4, FieldIdTyped
  <2> QED
    BY <1>2, <1>4, <1>8, <2>1, LiveFieldIs DEF Added
<1>11. PICK after : after = Append(before, new)
  OBVIOUS
<1>12. LiveIn(after, m, i)
  BY <1>4, <1>6, <1>7, <1>8, <1>9, <1>10, <1>11, FieldAddedLive
<1>13. EntryIn(after, m, i)
  BY <1>2, <1>4, <1>6, <1>7, <1>8, <1>11, FieldAddedEntry
<1>14. /\ \A n \in DOMAIN messages : n \in DOMAIN messages' /\ (n # m => messages'[n] = messages[n])
       /\ ~messages'[m].defined /\ messages'[m].fields = after
  BY <1>4, <1>6, <1>11 DEF IsNow
<1> QED
  BY <1>1, <1>4, <1>5, <1>12, <1>13, <1>14, StackFieldPassed

-----------------------------------------------------------------------------
(* What calls and returns do to the open calls as a whole.                 *)

(* Nothing but the messages of W is open that was not, and nothing but     *)
(* those of C is closed.                                                   *)
Follows(W, C) ==
  /\ \A k \in DOMAIN stack' : stack'[k].msg \in W \/ \E l \in DOMAIN stack : stack'[k].msg = stack[l].msg
  /\ \A m : IsOpen(m) => IsOpen(m)' \/ m \in C

LEMMA MovedFollows ==
  ASSUME StackInv, stack # <<>>, Moved
  PROVE  Follows({}, {})
  BY DEF Moved, Follows, IsOpen

LEMMA PoppedIs ==
  ASSUME StackInv, stack # <<>>, stack' = Front(stack)
  PROVE  /\ DOMAIN stack' = 1 .. Len(stack) - 1 /\ Len(stack') = Len(stack) - 1
         /\ \A k \in DOMAIN stack' : k \in DOMAIN stack /\ k < Len(stack) /\ stack'[k] = stack[k]
         /\ \A k \in DOMAIN stack : k = Len(stack) \/ k \in DOMAIN stack'
<1>1. stack \in Seq(OpenCall) /\ DOMAIN stack = 1 .. Len(stack) /\ Len(stack) \in Nat
  BY DEF StackInv
<1>2. /\ stack' \in Seq(OpenCall) /\ Len(stack') = Len(stack) - 1 /\ DOMAIN stack' = 1 .. Len(stack) - 1
      /\ \A k \in 1 .. Len(stack) - 1 : stack'[k] = stack[k]
  BY <1>1, FrontIs
<1> QED
  BY <1>1, <1>2

LEMMA PoppedFollows ==
  ASSUME StackInv, stack # <<>>, stack' = Front(stack)
  PROVE  Follows({}, IF Top.at = "fields" THEN {Top.msg} ELSE {})
<1>1. /\ \A k \in DOMAIN stack' : k \in DOMAIN stack /\ stack'[k] = stack[k]
      /\ \A k \in DOMAIN stack : k = Len(stack) \/ (k \in DOMAIN stack' /\ stack'[k] = stack[k])
  BY PoppedIs
<1>2. Top = stack[Len(stack)]
  BY TopIs
<1>3. ASSUME NEW m, IsOpen(m), ~IsOpen(m)'
      PROVE  Top.at = "fields" /\ m = Top.msg
  <2>1. PICK k \in DOMAIN stack : stack[k].at = "fields" /\ stack[k].msg = m
    BY <1>3 DEF IsOpen
  <2>2. k = Len(stack)
    BY <1>1, <1>3, <2>1 DEF IsOpen
  <2> QED
    BY <1>2, <2>1, <2>2
<1> QED
  BY <1>1, <1>3 DEF Follows

LEMMA PushedIs ==
  ASSUME StackInv, NEW n \in Message, Call(n)
  PROVE  /\ Len(stack) \in Nat /\ DOMAIN stack = 1 .. Len(stack) /\ DOMAIN stack' = 1 .. Len(stack) + 1
         /\ \A k \in DOMAIN stack : k \in DOMAIN stack' /\ stack'[k] = stack[k]
         /\ \A k \in DOMAIN stack' : k \in DOMAIN stack \/ k = Len(stack) + 1
         /\ stack'[Len(stack) + 1].msg = n /\ stack'[Len(stack) + 1].at = "nested"
         /\ stack'[Len(stack) + 1].i = 1 /\ result' = None /\ stack' # <<>>
<1> DEFINE c == [msg |-> n, at |-> "nested", i |-> 1, nested |-> <<>>]
<1>1. /\ stack \in Seq(OpenCall) /\ DOMAIN stack = 1 .. Len(stack) /\ Len(stack) \in Nat
  BY DEF StackInv
<1>2. c \in OpenCall
  <2>1. << >> \in Seq(Message)
    OBVIOUS
  <2> QED
    BY <2>1 DEF OpenCall
<1>3. c.at = "nested" /\ c.msg = n /\ c.i = 1
  OBVIOUS
<1>4. stack' = Append(stack, c) /\ result' = None
  BY DEF Call
<1> HIDE DEF c
<1>5. /\ stack' \in Seq(OpenCall) /\ Len(stack') = Len(stack) + 1
      /\ DOMAIN stack' = 1 .. Len(stack) + 1
      /\ \A k \in 1 .. Len(stack) : stack'[k] = stack[k]
      /\ stack'[Len(stack) + 1] = c
  BY <1>1, <1>2, <1>4, Appended
<1>6. stack' # <<>>
  BY <1>1, <1>5
<1> QED
  BY <1>1, <1>3, <1>4, <1>5, <1>6

LEMMA PushedFollows ==
  ASSUME StackInv, NEW n \in Message, Call(n)
  PROVE  Follows({n}, {})
<1>1. /\ \A k \in DOMAIN stack : k \in DOMAIN stack' /\ stack'[k] = stack[k]
      /\ \A k \in DOMAIN stack' : k \in DOMAIN stack \/ k = Len(stack) + 1
      /\ stack'[Len(stack) + 1].msg = n
  BY PushedIs
<1> QED
  BY <1>1 DEF Follows, IsOpen

(* The call of Emplace goes on to the fields.                              *)
Entered ==
  /\ DOMAIN stack' = DOMAIN stack
  /\ \A k \in DOMAIN stack : k < Len(stack) => stack'[k] = stack[k]
  /\ \A k \in DOMAIN stack : stack'[k].msg = stack[k].msg
  /\ stack'[Len(stack)].at = "fields" /\ stack'[Len(stack)].i = 1

LEMMA Enters ==
  ASSUME StackInv, stack # <<>>,
         stack' = [stack EXCEPT ![Len(stack)].at = "fields", ![Len(stack)].i = 1]
  PROVE  Entered
<1>1. stack \in Seq(OpenCall) /\ Top = stack[Len(stack)] /\ Len(stack) \in Nat /\ DOMAIN stack = 1 .. Len(stack)
  BY TopIs DEF StackInv
<1>2. PICK c : c = CallTo("fields", 1, Top.nested)
  OBVIOUS
<1>3. Replaced(stack, c, stack') /\ c \in OpenCall
  BY <1>2, EnteredIs
<1>4. /\ DOMAIN stack' = DOMAIN stack /\ stack'[Len(stack)] = c
      /\ \A k \in DOMAIN stack : k < Len(stack) => stack'[k] = stack[k]
  BY ONLY stack # <<>>, <1>1, <1>3, ReplacedIs
<1>5. c.msg = Top.msg /\ c.at = "fields" /\ c.i = 1
  BY <1>2, CallParts
<1>6. \A k \in DOMAIN stack : k < Len(stack) \/ k = Len(stack)
  BY <1>1
<1> QED
  BY <1>1, <1>4, <1>5, <1>6 DEF Entered

LEMMA EnteredFollows ==
  ASSUME StackInv, stack # <<>>, Top.at = "nested", Entered
  PROVE  Follows({}, {}) /\ (\A m : m = Top.msg => IsOpen(m)')
<1>1. Top = stack[Len(stack)] /\ Len(stack) \in Nat /\ DOMAIN stack = 1 .. Len(stack) /\ Len(stack) \in DOMAIN stack
  BY TopIs
<1>2. \A k \in DOMAIN stack : stack[k].at = "fields" => k < Len(stack)
  BY <1>1
<1>3. \A m : IsOpen(m) => IsOpen(m)'
  BY <1>2 DEF Entered, IsOpen
<1>4. \A m : m = Top.msg => IsOpen(m)'
  BY <1>1 DEF Entered, IsOpen
<1> QED
  BY <1>3, <1>4 DEF Entered, Follows

-----------------------------------------------------------------------------
(* Messages are open or complete after every step.                         *)

(* Messages that are not touched stay open or complete.                    *)
LEMMA OpenKept ==
  ASSUME Given, NEW n, n \in DOMAIN messages', messages'[n] = messages[n], OpenMessage(n),
         IsOpen(n) => IsOpen(n)'
  PROVE  OpenMessage(n)'
<1>1. Collected(n)' = Collected(n) /\ File(n)' = File(n)
  BY Statics
<1>2. \A g : IsTarget(g)' <=> IsTarget(g)
  BY Statics
<1>3. /\ \A fields, t, l : LiveIn(fields, t, l)' <=> LiveIn(fields, t, l)
      /\ \A fields, t, l : EntryIn(fields, t, l)' <=> EntryIn(fields, t, l)
  BY FieldsStatic
<1>4. \A l : FieldsIn(n, l)' <=> FieldsIn(n, l)
  BY <1>3 DEF FieldsIn
<1> QED
  BY <1>1, <1>2, <1>4 DEF OpenMessage

LEMMA OpenSame ==
  ASSUME Given, OpenInv, messages' = messages, NEW W, Follows(W, {})
  PROVE  OpenInv'
  BY OpenKept DEF OpenInv, Follows

(* An emplaced message has an open call until it is finished.              *)
LEMMA OpenEmplaced ==
  ASSUME IRInv, StackInv, OpenInv, NEW m \in Message, Emplace(m)
  PROVE  OpenInv'
<1>1. /\ Given /\ stack # <<>> /\ m = Top.msg /\ Top.at = "nested"
      /\ m \notin DOMAIN messages /\ DOMAIN messages' = DOMAIN messages \cup {m}
      /\ \A n \in DOMAIN messages : messages'[n] = messages[n]
      /\ messages'[m] = NewMessage(m)
  BY Emplacing
<1>2. /\ IF IsTarget(File(m))
           THEN stack' = [stack EXCEPT ![Len(stack)].at = "fields", ![Len(stack)].i = 1]
           ELSE stack' = Front(stack)
  BY DEF Emplace, Return
<1>3. /\ \A n : IsOpen(n) => IsOpen(n)'
      /\ IsTarget(File(m)) => IsOpen(m)'
  <2>1. CASE IsTarget(File(m))
    BY <1>1, <1>2, <2>1, Enters, EnteredFollows DEF Follows
  <2>2. CASE ~IsTarget(File(m))
    BY <1>1, <1>2, <2>2, PoppedFollows DEF Follows
  <2> QED
    BY <2>1, <2>2
<1>4. File(m)' = File(m)
  BY <1>1, Statics
<1>5. \A g : IsTarget(g)' <=> IsTarget(g)
  BY <1>1, Statics
<1>6. /\ messages'[m].fields = <<>> /\ ~messages'[m].defined /\ ~messages'[m].pair
      /\ DOMAIN messages'[m].fields = {}
  BY <1>1 DEF NewMessage
<1>7. OpenMessage(m)'
  BY <1>3, <1>4, <1>5, <1>6 DEF OpenMessage
<1>8. \A n \in DOMAIN messages : OpenMessage(n)'
  BY <1>1, <1>3, OpenKept DEF OpenInv
<1> QED
  BY <1>1, <1>7, <1>8 DEF OpenInv

(* A field is added to the message of the topmost call only.               *)
LEMMA OpenFieldAdded ==
  ASSUME IRInv, StackInv, OpenInv, NEW f, AddField(f)
  PROVE  OpenInv'
<1>1. PICK m : m = Top.msg
  OBVIOUS
<1>2. PICK new : new = Added(m, f)
  OBVIOUS
<1>3. PICK before : before = messages[m].fields
  OBVIOUS
<1>4. /\ Given /\ stack # <<>> /\ Top.at = "fields" /\ Top.i <= Len(Collected(m))
      /\ m \in DOMAIN messages /\ m \in Message /\ f \in FieldDescriptor(program) /\ new \in IRField
      /\ IsNow(messages, m, messages', Append(before, new), messages[m].layout, messages[m].defined)
  BY <1>1, <1>2, <1>3, AddingField
<1>5. stack' = Advanced
  BY DEF AddField
<1>6. \A n : IsOpen(n) => IsOpen(n)'
  BY <1>4, <1>5, AdvancedMoves, MovedFollows DEF Follows
<1>7. before \in Seq(IRField) /\ ~messages[m].defined /\ IsTarget(File(m))
  BY <1>1, <1>3, <1>4, AtFieldIs
<1>8. new.active = 0
  <2>1. FieldId(f, Slice(m)) \in Nat
    BY <1>4, FieldIdTyped
  <2> QED
    BY <1>2, <1>4, <2>1, LiveFieldIs DEF Added, IRInv
<1>9. PICK after : after = Append(before, new)
  OBVIOUS
<1>10. \A i \in DOMAIN after : after[i].active = 0
  <2>1. /\ DOMAIN after = 1 .. Len(before) + 1 /\ Len(before) \in Nat /\ DOMAIN before = 1 .. Len(before)
        /\ \A i \in 1 .. Len(before) : after[i] = before[i]
        /\ after[Len(before) + 1] = new
    BY <1>4, <1>7, <1>9, Appended
  <2>2. \A i \in DOMAIN before : before[i].active = 0
    BY <1>3, <1>4 DEF OpenInv, OpenMessage
  <2> QED
    BY <1>8, <2>1, <2>2
<1>11. /\ messages'[m].fields = after /\ ~messages'[m].defined /\ ~messages'[m].pair
       /\ DOMAIN messages' = DOMAIN messages
       /\ \A n \in DOMAIN messages : n # m => messages'[n] = messages[n]
  BY <1>4, <1>7, <1>9 DEF IsNow, OpenInv, OpenMessage
<1>12. IsOpen(m)
  BY <1>4, <1>7 DEF OpenInv, OpenMessage
<1>13. File(m)' = File(m)
  BY <1>4, Statics
<1>14. \A g : IsTarget(g)' <=> IsTarget(g)
  BY <1>4, Statics
<1>15. OpenMessage(m)'
  BY <1>6, <1>7, <1>10, <1>11, <1>12, <1>13, <1>14 DEF OpenMessage
<1>16. \A n \in DOMAIN messages : n # m => OpenMessage(n)'
  BY <1>4, <1>6, <1>11, OpenKept DEF OpenInv
<1> QED
  BY <1>11, <1>15, <1>16 DEF OpenInv

(* A finished message has the live fields it was to have.                  *)
LEMMA LiveExtended ==
  ASSUME NEW fields, NEW all, Extends(all, fields), NEW m, NEW n, LiveIn(fields, m, n)
  PROVE  LiveIn(all, m, n)
<1>1. \A k \in DOMAIN all : (k \in DOMAIN fields /\ all[k] = fields[k]) \/ all[k].deprecated
  BY DEF Extends, RetiredField
<1>2. \A k \in DOMAIN fields : k \in DOMAIN all /\ all[k] = fields[k]
  <2>1. DOMAIN fields = 1 .. Len(fields) /\ DOMAIN all = 1 .. Len(all) /\ Len(fields) \in Nat /\ Len(all) \in Nat
    BY DEF Extends
  <2> QED
    BY <2>1 DEF Extends
<1>3. \A k \in DOMAIN all : ~all[k].deprecated =>
        \E j \in 1 .. n : all[k].name = Collected(m)[j].name /\ Wanted(Collected(m)[j])
  BY <1>1 DEF LiveIn
<1>4. \A j \in 1 .. n : Wanted(Collected(m)[j]) =>
        \E k \in DOMAIN all : ~all[k].deprecated /\ all[k].name = Collected(m)[j].name
  <2> SUFFICES ASSUME NEW j \in 1 .. n, Wanted(Collected(m)[j])
               PROVE  \E k \in DOMAIN all : ~all[k].deprecated /\ all[k].name = Collected(m)[j].name
    OBVIOUS
  <2>1. PICK k \in DOMAIN fields : ~fields[k].deprecated /\ fields[k].name = Collected(m)[j].name
    BY DEF LiveIn
  <2> QED
    BY <1>2, <2>1
<1>5. \A k, l \in DOMAIN all :
        ~all[k].deprecated /\ ~all[l].deprecated /\ all[k].name = all[l].name => k = l
  BY <1>1 DEF LiveIn
<1> QED
  BY <1>3, <1>4, <1>5 DEF LiveIn

LEMMA FinishedCall ==
  ASSUME IRInv, StackInv, NEW m \in Message, FinishMessage(m)
  PROVE  FieldsIn(m, Len(Collected(m)))
<1>1. /\ stack # <<>> /\ Top.at = "fields" /\ m = Top.msg /\ Top.i > Len(Collected(m))
  BY Finishing
<1>2. /\ Top.i <= Len(Collected(m)) + 1 /\ FieldsIn(m, Top.i - 1) /\ Top.i \in Nat
  BY <1>1, TopIs DEF FieldsCall
<1>3. Len(Collected(m)) \in Nat
  BY CollectedTyped DEF IRInv
<1>4. Top.i - 1 = Len(Collected(m))
  BY <1>1, <1>2, <1>3
<1> QED
  BY <1>2, <1>4

(* A finished message has all its fields.                                  *)
LEMMA OpenFinished ==
  ASSUME IRInv, StackInv, OpenInv, NEW m \in Message, FinishMessage(m)
  PROVE  OpenInv'
<1>1. PICK before : before = messages[m].fields
  OBVIOUS
<1>2. PICK all : all = Finished(m, before)
  OBVIOUS
<1>3. PICK n : n = Len(Collected(m))
  OBVIOUS
<1>4. /\ Given /\ stack # <<>> /\ Top.at = "fields" /\ m = Top.msg /\ m \in DOMAIN messages
      /\ Extends(all, before)
      /\ IsNow(messages, m, messages', all, GetMessageLayout(m, Slice(m)), TRUE)
  BY <1>1, <1>2, Finishing
<1>5. stack' = Front(stack)
  BY DEF FinishMessage, Return
<1>6. \A t : IsOpen(t) => IsOpen(t)' \/ t = m
  BY <1>4, <1>5, PoppedFollows DEF Follows
<1>7. TypesInv
  BY DEF IRInv
<1>8. LiveIn(before, m, n) /\ EntryIn(before, m, n)
  BY <1>1, <1>3, FinishedCall DEF FieldsIn
<1>9. LiveIn(all, m, n)
  BY <1>4, <1>8, LiveExtended
<1>10. EntryIn(all, m, n)
  <2>1. CASE D(m).map
    <3>1. n = 2
      BY <1>3, <1>7, <2>1, EntryDescriptor
    <3>2. before \in Seq(IRField)
      BY <1>4 DEF Extends
    <3>3. all = before
      BY <1>2, <1>7, <1>8, <2>1, <3>1, <3>2, EntryFinished
    <3> QED
      BY <1>8, <3>3
  <2>2. CASE ~D(m).map
    BY <2>2 DEF EntryIn
  <2> QED
    BY <2>1, <2>2
<1>11. \A i \in DOMAIN all : all[i].active = 0
  <2>1. \A i \in DOMAIN before : before[i].active = 0
    BY <1>1, <1>4 DEF OpenInv, OpenMessage
  <2> QED
    BY <1>4, <2>1 DEF Extends, RetiredField
<1>12. /\ messages'[m].fields = all /\ messages'[m].defined /\ ~messages'[m].pair
       /\ DOMAIN messages' = DOMAIN messages
       /\ \A t \in DOMAIN messages : t # m => messages'[t] = messages[t]
  BY <1>4 DEF IsNow, OpenInv, OpenMessage
<1>13. Collected(m)' = Collected(m)
  BY <1>4, Statics
<1>14. FieldsIn(m, n)'
  <2>1. /\ \A s, t, l : LiveIn(s, t, l)' <=> LiveIn(s, t, l)
        /\ \A s, t, l : EntryIn(s, t, l)' <=> EntryIn(s, t, l)
    BY <1>4, FieldsStatic
  <2> QED
    BY <1>9, <1>10, <1>12, <2>1 DEF FieldsIn
<1>15. OpenMessage(m)'
  BY <1>3, <1>11, <1>12, <1>13, <1>14 DEF OpenMessage
<1>16. \A t \in DOMAIN messages : t # m => OpenMessage(t)'
  BY <1>4, <1>6, <1>12, OpenKept DEF OpenInv
<1> QED
  BY <1>12, <1>15, <1>16 DEF OpenInv

-----------------------------------------------------------------------------
(* Nothing else is traversed, and nothing is left out.                     *)

(* W is what the open calls lead to.                                       *)
Reached(W) ==
  \A S \in SUBSET Message :
    Closed(S) /\ (\A k \in DOMAIN stack : stack[k].msg \in S) => W \subseteq S

Adds(V) == DOMAIN messages' \subseteq DOMAIN messages \cup V

(* What is met is reached from the roots.                                  *)
LEMMA ReachStep ==
  ASSUME ReachInv, Given, NEW W, NEW C, Follows(W, C), NEW V, Adds(V), Reached(W), Reached(V)
  PROVE  ReachInv'
<1>1. \A S : Closed(S)' <=> Closed(S)
  BY TraversalStatic
<1>2. Message' = Message
  BY Statics
<1>3. ASSUME NEW S \in SUBSET Message, Closed(S)
      PROVE  DOMAIN messages' \subseteq S /\ \A k \in DOMAIN stack' : stack'[k].msg \in S
  <2>1. DOMAIN messages \subseteq S /\ \A k \in DOMAIN stack : stack[k].msg \in S
    BY <1>3 DEF ReachInv
  <2>2. W \subseteq S /\ V \subseteq S
    BY <1>3, <2>1 DEF Reached
  <2> QED
    BY <2>1, <2>2 DEF Follows, Adds
<1> QED
  BY <1>1, <1>2, <1>3 DEF ReachInv

LEMMA ReachCalls ==
  ASSUME ReachInv, Given, NEW W, NEW C, Follows(W, C), DOMAIN messages' = DOMAIN messages, Reached(W)
  PROVE  ReachInv'
<1>1. Adds({}) /\ Reached({})
  BY DEF Adds, Reached
<1> QED
  BY <1>1, ReachStep

LEMMA ReachSame ==
  ASSUME ReachInv, Given, DOMAIN messages' = DOMAIN messages, NEW C, Follows({}, C)
  PROVE  ReachInv'
<1>1. Reached({})
  BY DEF Reached
<1> QED
  BY <1>1, ReachCalls

(* What the call of m traverses, in its nested messages and in its fields. *)
LEMMA NestedTraversed ==
  ASSUME TypesInv, NEW m \in Message, NEW i \in Nat, i >= 1, i <= Len(D(m).nested),
         NEW n, n = D(m).nested[i], ~D(n).map
  PROVE  n \in Traversed(m)
<1>1. D(m).nested \in Seq(Message)
  BY DescriptorOf
<1>2. i \in DOMAIN D(m).nested
  BY <1>1
<1>3. n \in Range(D(m).nested)
  BY <1>2 DEF Range
<1> QED
  BY <1>3 DEF Traversed

LEMMA TypeTraversed ==
  ASSUME TypesInv, NEW m \in Message, Kept(m), IsTarget(File(m)),
         NEW i \in Nat, i >= 1, i <= Len(Collected(m)), Collected(m)[i].type \in Message
  PROVE  Collected(m)[i].type \in Traversed(m)
<1>1. i \in DOMAIN Collected(m)
  BY CollectedTyped
<1>2. Collected(m)[i] \in Range(Collected(m))
  BY <1>1 DEF Range
<1> QED
  BY <1>2 DEF Traversed

LEMMA ReachTraverseNested ==
  ASSUME IRInv, StackInv, ReachInv, TraverseNested
  PROVE  ReachInv' /\ (\E W : Follows(W, {}))
<1>1. PICK m, i : m = Top.msg /\ i = Top.i
  OBVIOUS
<1>2. PICK n : n = D(m).nested[i]
  OBVIOUS
<1>3. /\ Given /\ stack # <<>> /\ Top.at = "nested" /\ i <= Len(D(m).nested) /\ messages' = messages
      /\ IF D(n).map THEN stack' = Advanced ELSE Call(n)
  BY <1>1, <1>2 DEF TraverseNested, In, Given, ir
<1>4. TypesInv
  BY DEF IRInv
<1>5. /\ m \in Message /\ i \in Nat /\ i >= 1 /\ n \in Message
      /\ \E k \in DOMAIN stack : stack[k].msg = m
  BY <1>1, <1>2, <1>3, <1>4, TopIs, NestedNext
<1>6. CASE D(n).map
  BY <1>3, <1>6, AdvancedMoves, MovedFollows, ReachSame
<1>7. CASE ~D(n).map
  <2>1. Follows({n}, {})
    BY <1>3, <1>5, <1>7, PushedFollows
  <2>2. n \in Traversed(m)
    BY <1>2, <1>3, <1>4, <1>5, <1>7, NestedTraversed
  <2>3. Reached({n})
    BY <1>5, <2>2 DEF Closed, Reached
  <2> QED
    BY <1>3, <2>1, <2>3, ReachCalls
<1> QED
  BY <1>6, <1>7

LEMMA ReachTraverseType ==
  ASSUME IRInv, StackInv, ReachInv, NEW f, TraverseType(f)
  PROVE  ReachInv' /\ (\E W : Follows(W, {}))
<1>1. PICK m, i : m = Top.msg /\ i = Top.i
  OBVIOUS
<1>2. PICK n : n = f.type
  OBVIOUS
<1>3. /\ Given /\ stack # <<>> /\ Top.at = "fields" /\ i <= Len(Collected(m)) /\ messages' = messages
      /\ f = Collected(m)[i] /\ n \in Message /\ Call(n)
  BY <1>1, <1>2 DEF TraverseType, AtField, In, Given, ir
<1>4. TypesInv
  BY DEF IRInv
<1>5. /\ i \in Nat /\ i >= 1 /\ \E k \in DOMAIN stack : stack[k].msg = m
  BY <1>1, <1>3, TopIs
<1>6. m \in Message /\ m \in DOMAIN messages /\ IsTarget(File(m))
  BY <1>1, <1>3, AtFieldIs
<1>7. Kept(m)
  BY <1>6 DEF IRInv, MessageInv
<1>8. Follows({n}, {})
  BY <1>3, PushedFollows
<1>9. n \in Traversed(m)
  BY <1>2, <1>3, <1>4, <1>5, <1>6, <1>7, TypeTraversed
<1>10. Reached({n})
  BY <1>5, <1>9 DEF Closed, Reached
<1> QED
  BY <1>3, <1>8, <1>10, ReachCalls

LEMMA ReachTraverseNext ==
  ASSUME IRInv, StackInv, ReachInv, TraverseNext
  PROVE  ReachInv' /\ (\E W : Follows(W, {}))
<1>1. PICK n : n = Head(todo)
  OBVIOUS
<1>2. Given /\ todo # <<>> /\ messages' = messages /\ Call(n)
  BY <1>1 DEF TraverseNext, Given, ir
<1>3. todo \in Seq(Message) /\ \A i \in DOMAIN todo : todo[i] \in Range(program.roots)
  BY DEF StackInv
<1>4. 1 \in DOMAIN todo /\ n = todo[1] /\ n \in Message
  BY <1>1, <1>2, <1>3
<1>5. n \in Range(program.roots)
  BY <1>3, <1>4
<1>6. Follows({n}, {})
  BY <1>2, <1>4, PushedFollows
<1>7. Reached({n})
  BY <1>5 DEF Closed, Reached
<1> QED
  BY <1>2, <1>6, <1>7, ReachCalls

LEMMA ReachEmplaced ==
  ASSUME IRInv, StackInv, ReachInv, NEW m \in Message, Emplace(m)
  PROVE  ReachInv'
<1>1. /\ Given /\ stack # <<>> /\ m = Top.msg /\ Top.at = "nested"
      /\ DOMAIN messages' = DOMAIN messages \cup {m}
  BY Emplacing
<1>2. /\ IF IsTarget(File(m))
           THEN stack' = [stack EXCEPT ![Len(stack)].at = "fields", ![Len(stack)].i = 1]
           ELSE stack' = Front(stack)
  BY DEF Emplace, Return
<1>3. \E C : Follows({}, C)
  <2>1. CASE IsTarget(File(m))
    BY <1>1, <1>2, <2>1, Enters, EnteredFollows
  <2>2. CASE ~IsTarget(File(m))
    BY <1>1, <1>2, <2>2, PoppedFollows
  <2> QED
    BY <2>1, <2>2
<1>4. \E k \in DOMAIN stack : stack[k].msg = m
  BY <1>1, TopIs
<1>5. Reached({m})
  BY <1>4 DEF Reached
<1>6. Reached({}) /\ Adds({m})
  BY <1>1 DEF Reached, Adds
<1> QED
  BY <1>1, <1>3, <1>5, <1>6, ReachStep

-----------------------------------------------------------------------------
(* What has been seen, after every step.                                   *)

(* What the call c has traversed of its nested types is in T.              *)
Behind(c, T) ==
  c.at = "nested" => \A j \in 1 .. c.i - 1 : D(D(c.msg).nested[j]).map \/ D(c.msg).nested[j] \in T

NestedBehind(m, T) == \A j \in DOMAIN D(m).nested : D(D(m).nested[j]).map \/ D(m).nested[j] \in T

LEMMA SeenNestedStep ==
  ASSUME Given, NEW T, NEW U, T \subseteq U, SeenNested(T), \A m \in U : m \in T \/ NestedBehind(m, U),
         \A k \in DOMAIN stack' :
           (k \in DOMAIN stack /\ stack'[k] = stack[k]) \/ \A c : c = stack'[k] => Behind(c, U)
  PROVE  SeenNested(U)'
<1>1. \A m : D(m)' = D(m)
  BY Statics
<1>2. \A m \in U : NestedBehind(m, U)
  BY DEF SeenNested, NestedBehind
<1>3. \A k \in DOMAIN stack' : \A c : c = stack'[k] => Behind(c, U)
  BY DEF SeenNested, Behind
<1> QED
  BY <1>1, <1>2, <1>3 DEF SeenNested, Behind, NestedBehind

(* Field j of m is traversed or ahead.                                     *)
TypeSeen(m, j, T) == Collected(m)[j].type \in Message => Collected(m)[j].type \in T

LEMMA SeenTypesStep ==
  ASSUME Given, NEW T, NEW U, T \subseteq U, SeenTypes(T),
         \A m : \A j \in DOMAIN Collected(m) :
           FieldAhead(m, j) => FieldAhead(m, j)' \/ TypeSeen(m, j, U),
         \A m \in U : m \in T \/ ~(Kept(m) /\ IsTarget(File(m))) \/ \A j \in DOMAIN Collected(m) : FieldAhead(m, j)'
  PROVE  SeenTypes(U)'
<1>1. /\ \A m : Collected(m)' = Collected(m)
      /\ \A m : File(m)' = File(m)
      /\ \A g : IsTarget(g)' <=> IsTarget(g)
      /\ Message' = Message
  BY Statics
<1>2. \A m : Kept(m)' <=> Kept(m)
  BY KeptStatic
<1>3. ASSUME NEW m \in U, Kept(m) /\ IsTarget(File(m)), NEW j \in DOMAIN Collected(m)
      PROVE  TypeSeen(m, j, U) \/ FieldAhead(m, j)'
  <2>1. CASE m \in T
    BY <1>3, <2>1 DEF SeenTypes, TypeSeen
  <2>2. CASE m \notin T
    BY <1>3, <2>2
  <2> QED
    BY <2>1, <2>2
<1> QED
  BY <1>1, <1>2, <1>3 DEF SeenTypes, TypeSeen

LEMMA SeenRootsStep ==
  ASSUME Given, NEW T, NEW U, T \subseteq U, SeenRoots(T),
         \A r \in Range(todo) : r \in Range(todo') \/ (stack' # <<>> /\ stack'[1].msg = r),
         stack # <<>> => stack[1].msg \in U \/ (stack' # <<>> /\ stack'[1].msg = stack[1].msg)
  PROVE  SeenRoots(U)'
<1>1. program' = program
  BY DEF Given
<1> QED
  BY <1>1 DEF SeenRoots

LEMMA SeenMessagesSame ==
  ASSUME Given, DOMAIN messages' = DOMAIN messages, NEW T, SeenMessages(T)
  PROVE  SeenMessages(T)'
<1>1. \A m : Kept(m)' <=> Kept(m)
  BY KeptStatic
<1> QED
  BY <1>1 DEF SeenMessages

LEMMA SeenNoResult ==
  ASSUME result' = None, NEW T
  PROVE  SeenResult(T)'
  BY DEF SeenResult

(* What is missing is ahead: a call that moves on has seen what it passed, *)
LEMMA SeenMoved ==
  ASSUME TypesInv, StackInv, Given, stack # <<>>, Moved, DOMAIN messages' = DOMAIN messages,
         todo' = todo, result' = None, NEW T, Seen(T), NEW m, m = Top.msg, NEW i, i = Top.i,
         Top.at = "nested" => D(D(m).nested[i]).map \/ D(m).nested[i] \in T,
         Top.at = "fields" => TypeSeen(m, i, T)
  PROVE  Seen(T)'
<1>1. Top = stack[Len(stack)] /\ Len(stack) \in Nat /\ Len(stack) >= 1 /\ DOMAIN stack = 1 .. Len(stack) /\ i \in Nat /\ i >= 1
  BY TopIs
<1>2. \A k \in DOMAIN stack : (k < Len(stack) /\ stack'[k] = stack[k]) \/ k = Len(stack)
  BY <1>1 DEF Moved
<1>3. DOMAIN stack' = DOMAIN stack /\ 1 \in DOMAIN stack /\ stack' # <<>> /\ stack'[1].msg = stack[1].msg
  BY <1>1 DEF Moved
<1>4. SeenNested(T)'
  <2>1. PICK c : c = stack'[Len(stack)]
    OBVIOUS
  <2>2. c.msg = m /\ c.at = Top.at /\ c.i = i + 1
    BY <1>1, <2>1 DEF Moved
  <2>3. Behind(c, T)
    <3> SUFFICES ASSUME Top.at = "nested", NEW j \in 1 .. i
                 PROVE  D(D(m).nested[j]).map \/ D(m).nested[j] \in T
      BY <1>1, <2>2 DEF Behind
    <3>1. j = i \/ j \in 1 .. i - 1
      BY <1>1
    <3>2. j \in 1 .. i - 1 => D(D(m).nested[j]).map \/ D(m).nested[j] \in T
      BY <1>1 DEF Seen, SeenNested
    <3> QED
      BY <3>1, <3>2
  <2>4. \A k \in DOMAIN stack' :
          (k \in DOMAIN stack /\ stack'[k] = stack[k]) \/ \A d : d = stack'[k] => Behind(d, T)
    BY <1>2, <1>3, <2>1, <2>3
  <2> QED
    BY <2>4, SeenNestedStep DEF Seen
<1>5. SeenTypes(T)'
  <2>1. ASSUME NEW t, NEW j \in DOMAIN Collected(t), FieldAhead(t, j), ~FieldAhead(t, j)'
        PROVE  TypeSeen(t, j, T)
    <3>1. PICK k \in DOMAIN stack : stack[k].at = "fields" /\ stack[k].msg = t /\ stack[k].i <= j
      BY <2>1 DEF FieldAhead
    <3>2. k = Len(stack)
      BY <1>2, <1>3, <2>1, <3>1 DEF FieldAhead
    <3>3. stack'[k].at = "fields" /\ stack'[k].msg = t /\ stack'[k].i = i + 1 /\ k \in DOMAIN stack'
      BY <1>1, <3>1, <3>2 DEF Moved
    <3>4. ~(i + 1 <= j) /\ i <= j /\ t = m /\ Top.at = "fields"
      BY <1>1, <2>1, <3>1, <3>2, <3>3 DEF FieldAhead
    <3>5. DOMAIN Collected(t) \subseteq Nat => j = i
      BY <1>1, <3>4
    <3>6. DOMAIN Collected(t) \subseteq Nat
      <4>1. DOMAIN Collected(t) = 1 .. Len(Collected(t))
        BY <3>4, TopIs, CollectedTyped
      <4> QED
        BY <4>1
    <3> QED
      BY <3>4, <3>5, <3>6
  <2> QED
    BY <2>1, SeenTypesStep DEF Seen
<1>6. SeenRoots(T)'
  BY <1>3, SeenRootsStep DEF Seen
<1>7. SeenMessages(T)' /\ SeenResult(T)'
  BY SeenMessagesSame, SeenNoResult DEF Seen
<1> QED
  BY <1>4, <1>5, <1>6, <1>7 DEF Seen

(* a call that is made is seen by the one that waits,                      *)
LEMMA SeenPushed ==
  ASSUME StackInv, Given, NEW n \in Message, Call(n), DOMAIN messages' = DOMAIN messages,
         NEW T, Seen(T),
         \/ todo' = todo /\ stack # <<>>
         \/ stack = <<>> /\ \A r \in Range(todo) : r = n \/ r \in Range(todo')
  PROVE  Seen(T)'
<1>1. /\ Len(stack) \in Nat /\ DOMAIN stack = 1 .. Len(stack) /\ DOMAIN stack' = 1 .. Len(stack) + 1
      /\ \A k \in DOMAIN stack : k \in DOMAIN stack' /\ stack'[k] = stack[k]
      /\ \A k \in DOMAIN stack' : k \in DOMAIN stack \/ k = Len(stack) + 1
      /\ stack'[Len(stack) + 1].msg = n /\ stack'[Len(stack) + 1].at = "nested"
      /\ stack'[Len(stack) + 1].i = 1 /\ result' = None /\ stack' # <<>>
  BY PushedIs
<1>2. SeenNested(T)'
  <2>1. \A c : c = stack'[Len(stack) + 1] => Behind(c, T)
    BY <1>1 DEF Behind
  <2>2. \A k \in DOMAIN stack' :
          (k \in DOMAIN stack /\ stack'[k] = stack[k]) \/ \A c : c = stack'[k] => Behind(c, T)
    BY <1>1, <2>1
  <2> QED
    BY <2>2, SeenNestedStep DEF Seen
<1>3. SeenTypes(T)'
  <2>1. \A t : \A j : FieldAhead(t, j) => FieldAhead(t, j)'
    BY <1>1 DEF FieldAhead
  <2> QED
    BY <2>1, SeenTypesStep DEF Seen
<1>4. SeenRoots(T)'
  <2>1. CASE todo' = todo /\ stack # <<>>
    <3>1. 1 \in DOMAIN stack
      BY <1>1, <2>1, TopIs
    <3> QED
      BY <1>1, <2>1, <3>1, SeenRootsStep DEF Seen
  <2>2. CASE stack = <<>> /\ \A r \in Range(todo) : r = n \/ r \in Range(todo')
    <3>1. Len(stack) = 0
      BY <2>2
    <3>2. stack'[1].msg = n
      BY <1>1, <3>1
    <3> QED
      BY <1>1, <2>2, <3>2, SeenRootsStep DEF Seen
  <2> QED
    BY <2>1, <2>2
<1>5. SeenMessages(T)' /\ SeenResult(T)'
  BY <1>1, SeenMessagesSame, SeenNoResult DEF Seen
<1> QED
  BY <1>2, <1>3, <1>4, <1>5 DEF Seen

(* and one that returns leaves its message in the set.                     *)
LEMMA SeenPopped ==
  ASSUME TypesInv, StackInv, Given, stack # <<>>, stack' = Front(stack), todo' = todo,
         NEW T, Seen(T), NEW m, m = Top.msg, NEW U, U = T \cup {m}, SeenMessages(U)',
         result' = IF Kept(m) THEN m ELSE Null,
         Top.at = "nested" => Top.i > Len(D(m).nested) /\ (m \in T \/ ~(Kept(m) /\ IsTarget(File(m)))),
         Top.at = "fields" => Top.i > Len(Collected(m)) /\ m \in T
  PROVE  Seen(U)'
<1>1. /\ DOMAIN stack' = 1 .. Len(stack) - 1 /\ Len(stack') = Len(stack) - 1
      /\ \A k \in DOMAIN stack' : k \in DOMAIN stack /\ k < Len(stack) /\ stack'[k] = stack[k]
      /\ \A k \in DOMAIN stack : k = Len(stack) \/ k \in DOMAIN stack'
  BY PoppedIs
<1>2. /\ Len(stack) \in Nat /\ Len(stack) >= 1 /\ Len(stack) \in DOMAIN stack /\ DOMAIN stack = 1 .. Len(stack)
      /\ Top = stack[Len(stack)] /\ m \in Message /\ Top.at \in {"nested", "fields"} /\ Top.i \in Nat
  BY TopIs
<1>3. T \subseteq U /\ m \in U
  OBVIOUS
<1>4. m \in T \/ NestedBehind(m, U)
  <2> SUFFICES ASSUME Top.at = "nested", NEW j \in DOMAIN D(m).nested
               PROVE  D(D(m).nested[j]).map \/ D(m).nested[j] \in U
    BY <1>2 DEF NestedBehind
  <2>1. D(m).nested \in Seq(Message)
    BY <1>2, DescriptorOf
  <2>2. j \in 1 .. Top.i - 1
    <3>1. j \in 1 .. Len(D(m).nested) /\ Len(D(m).nested) \in Nat
      BY <2>1
    <3> QED
      BY <1>2, <3>1
  <2> QED
    BY <1>2, <1>3, <2>2 DEF Seen, SeenNested
<1>5. SeenNested(U)'
  BY <1>1, <1>3, <1>4, SeenNestedStep DEF Seen
<1>6. SeenTypes(U)'
  <2>1. ASSUME NEW t, NEW j \in DOMAIN Collected(t), FieldAhead(t, j), ~FieldAhead(t, j)' PROVE FALSE
    <3>1. PICK k \in DOMAIN stack : stack[k].at = "fields" /\ stack[k].msg = t /\ stack[k].i <= j
      BY <2>1 DEF FieldAhead
    <3>2. k = Len(stack)
      BY <1>1, <2>1, <3>1 DEF FieldAhead
    <3>3. t = m /\ Top.i > Len(Collected(m)) /\ Top.i <= j
      BY <1>2, <3>1, <3>2
    <3>4. DOMAIN Collected(m) = 1 .. Len(Collected(m)) /\ Len(Collected(m)) \in Nat
      BY <1>2, CollectedTyped
    <3> QED
      BY <1>2, <2>1, <3>3, <3>4
  <2>2. \A t \in U : t \in T \/ ~(Kept(t) /\ IsTarget(File(t)))
    BY <1>2
  <2> QED
    BY <1>3, <2>1, <2>2, SeenTypesStep DEF Seen
<1>7. SeenRoots(U)'
  <2>1. stack[1].msg \in U \/ (stack' # <<>> /\ stack'[1].msg = stack[1].msg)
    <3>1. CASE Len(stack) = 1
      BY <1>2, <1>3, <3>1
    <3>2. CASE Len(stack) # 1
      <4>1. 1 \in DOMAIN stack' /\ Len(stack') # 0
        BY <1>1, <1>2, <3>2
      <4> QED
        BY <1>1, <4>1
    <3> QED
      BY <3>1, <3>2
  <2> QED
    BY <1>3, <2>1, SeenRootsStep DEF Seen
<1>8. SeenResult(U)'
  <2> SUFFICES ASSUME stack' # <<>>
               PROVE  \E n \in U : Awaits(Top, n)' /\ (result = IF Kept(n) THEN n ELSE Null)'
    BY DEF SeenResult
  <2>1. /\ \A c, n : Awaits(c, n)' <=> Awaits(c, n)
        /\ \A n : Kept(n)' <=> Kept(n)
    BY AwaitsStatic, KeptStatic
  <2>2. Len(stack) - 1 \in DOMAIN stack /\ Len(stack) - 1 < Len(stack) /\ (Len(stack) - 1) + 1 = Len(stack)
        /\ Len(stack) - 1 \in DOMAIN stack'
    <3>1. stack' \in Seq(OpenCall) /\ Len(stack') # 0
      <4>1. stack' \in Seq(OpenCall)
        BY FrontIs DEF StackInv
      <4> QED
        BY <4>1
    <3> QED
      BY <1>1, <1>2, <3>1
  <2>3. PICK c : c = stack[Len(stack) - 1]
    OBVIOUS
  <2>4. Awaits(c, m)
    BY <1>2, <2>2, <2>3 DEF StackInv
  <2>5. Top' = c
    BY <1>1, <2>2, <2>3 DEF Top, Last
  <2>6. Awaits(Top, m)'
    <3>1. \A d : Awaits(d, m)' <=> Awaits(d, m)
      BY <2>1
    <3>2. \A d : Top' = d => (Awaits(Top, m)' <=> Awaits(d, m)')
      BY DEF Awaits
    <3> QED
      BY <2>4, <2>5, <3>1, <3>2
  <2> QED
    BY <1>3, <2>1, <2>6
<1> QED
  BY <1>5, <1>6, <1>7, <1>8 DEF Seen

(* A message enters the set when its call decides about it.                *)
LEMMA SeenEntered ==
  ASSUME TypesInv, StackInv, Given, stack # <<>>, Entered, Top.at = "nested", todo' = todo, result' = None,
         NEW T, Seen(T), NEW m, m = Top.msg, NEW U, U = T \cup {m}, SeenMessages(U)',
         Top.i > Len(D(m).nested)
  PROVE  Seen(U)'
<1>1. /\ Len(stack) \in Nat /\ Len(stack) >= 1 /\ Len(stack) \in DOMAIN stack /\ DOMAIN stack = 1 .. Len(stack)
      /\ Top = stack[Len(stack)] /\ m \in Message /\ Top.i \in Nat
  BY TopIs
<1>2. /\ DOMAIN stack' = DOMAIN stack
      /\ \A k \in DOMAIN stack : (k < Len(stack) /\ stack'[k] = stack[k]) \/ k = Len(stack)
      /\ \A k \in DOMAIN stack : stack'[k].msg = stack[k].msg
      /\ stack'[Len(stack)].at = "fields" /\ stack'[Len(stack)].i = 1
  BY <1>1 DEF Entered
<1>3. T \subseteq U /\ m \in U
  OBVIOUS
<1>4. NestedBehind(m, U)
  <2> SUFFICES ASSUME NEW j \in DOMAIN D(m).nested
               PROVE  D(D(m).nested[j]).map \/ D(m).nested[j] \in U
    BY DEF NestedBehind
  <2>1. D(m).nested \in Seq(Message)
    BY <1>1, DescriptorOf
  <2>2. j \in 1 .. Top.i - 1
    <3>1. j \in 1 .. Len(D(m).nested) /\ Len(D(m).nested) \in Nat
      BY <2>1
    <3> QED
      BY <1>1, <3>1
  <2> QED
    BY <1>1, <1>3, <2>2 DEF Seen, SeenNested
<1>5. SeenNested(U)'
  <2>1. \A c : c = stack'[Len(stack)] => Behind(c, U)
    BY <1>2 DEF Behind
  <2>2. \A k \in DOMAIN stack' :
          (k \in DOMAIN stack /\ stack'[k] = stack[k]) \/ \A c : c = stack'[k] => Behind(c, U)
    BY <1>2, <2>1
  <2>3. \A t \in U : t \in T \/ NestedBehind(t, U)
    BY <1>4
  <2> QED
    BY <1>3, <2>2, <2>3, SeenNestedStep DEF Seen
<1>6. SeenTypes(U)'
  <2>1. \A t : \A j \in DOMAIN Collected(t) : FieldAhead(t, j) => FieldAhead(t, j)'
    BY <1>1, <1>2 DEF FieldAhead
  <2>2. \A j \in DOMAIN Collected(m) : FieldAhead(m, j)'
    <3>1. DOMAIN Collected(m) = 1 .. Len(Collected(m)) /\ Len(Collected(m)) \in Nat
      BY <1>1, CollectedTyped
    <3>2. stack'[Len(stack)].msg = m /\ Len(stack) \in DOMAIN stack'
      BY <1>1, <1>2
    <3>3. \A j \in DOMAIN Collected(m) : 1 <= j
      BY <3>1
    <3> QED
      BY <1>2, <3>2, <3>3 DEF FieldAhead
  <2>3. \A t \in U : t \in T \/ t = m
    OBVIOUS
  <2> QED
    BY <1>3, <2>1, <2>2, <2>3, SeenTypesStep DEF Seen
<1>7. SeenRoots(U)'
  <2>1. 1 \in DOMAIN stack /\ stack' # <<>> /\ stack'[1].msg = stack[1].msg
    BY <1>1, <1>2
  <2> QED
    BY <1>3, <2>1, SeenRootsStep DEF Seen
<1>8. SeenResult(U)'
  BY SeenNoResult
<1> QED
  BY <1>5, <1>6, <1>7, <1>8 DEF Seen

-----------------------------------------------------------------------------
(* Every step of the front end.                                            *)

Traversal == StackInv /\ OpenInv /\ ReachInv /\ \E T \in SUBSET Message : Seen(T)

LEMMA TraversalKept ==
  ASSUME Given, StackInv', OpenInv', ReachInv', NEW T \in SUBSET Message, Seen(T)'
  PROVE  Traversal'
<1>1. Message' = Message
  BY Statics
<1> QED
  BY <1>1 DEF Traversal

(* Every action of the front end keeps its invariant.                      *)
LEMMA TraverseNestedKeeps ==
  ASSUME IRInv, Traversal, TraverseNested
  PROVE  IRInv' /\ Traversal'
<1>1. PICK T \in SUBSET Message : Seen(T)
  BY DEF Traversal
<1>2. PICK m, i : m = Top.msg /\ i = Top.i
  OBVIOUS
<1>3. PICK n : n = D(m).nested[i]
  OBVIOUS
<1>4. StackInv /\ OpenInv /\ ReachInv
  BY DEF Traversal
<1>5. /\ Given /\ UNCHANGED ir /\ messages' = messages /\ stack # <<>> /\ Top.at = "nested"
      /\ todo' = todo /\ result = None
      /\ IF D(n).map THEN stack' = Advanced /\ UNCHANGED result ELSE Call(n)
      /\ i <= Len(D(m).nested)
  BY <1>2, <1>3 DEF TraverseNested, In, Given, ir
<1>6. IRInv'
  BY <1>5, IRKept
<1>7. StackInv'
  BY <1>4, StackTraverseNested
<1>8. ReachInv' /\ \E W : Follows(W, {})
  BY <1>4, ReachTraverseNested
<1>9. OpenInv'
  BY <1>4, <1>5, <1>8, OpenSame
<1>10. TypesInv
  BY DEF IRInv
<1>11. Seen(T)'
  <2>1. CASE D(n).map
    <3>1. Moved /\ result' = None
      BY <1>4, <1>5, <2>1, AdvancedMoves
    <3>2. Top.at # "fields"
      BY <1>5
    <3> QED
      BY <1>1, <1>2, <1>3, <1>4, <1>5, <1>10, <2>1, <3>1, <3>2, SeenMoved
  <2>2. CASE ~D(n).map
    <3>1. n \in Message
      BY <1>2, <1>3, <1>4, <1>5, <1>10, NestedNext
    <3> QED
      BY <1>1, <1>4, <1>5, <2>2, <3>1, SeenPushed
  <2> QED
    BY <2>1, <2>2
<1> QED
  BY <1>5, <1>6, <1>7, <1>8, <1>9, <1>11, TraversalKept

LEMMA TraverseTypeKeeps ==
  ASSUME IRInv, Traversal, NEW f, TraverseType(f)
  PROVE  IRInv' /\ Traversal'
<1>1. PICK T \in SUBSET Message : Seen(T)
  BY DEF Traversal
<1>2. StackInv /\ OpenInv /\ ReachInv
  BY DEF Traversal
<1>3. /\ Given /\ UNCHANGED ir /\ messages' = messages /\ stack # <<>>
      /\ todo' = todo /\ f.type \in Message /\ Call(f.type)
  BY DEF TraverseType, AtField, In, Given, ir
<1>4. IRInv'
  BY <1>3, IRKept
<1>5. StackInv'
  BY <1>2, StackTraverseType
<1>6. ReachInv' /\ \E W : Follows(W, {})
  BY <1>2, ReachTraverseType
<1>7. OpenInv'
  BY <1>2, <1>3, <1>6, OpenSame
<1>8. Seen(T)'
  BY <1>1, <1>2, <1>3, SeenPushed
<1> QED
  BY <1>3, <1>4, <1>5, <1>6, <1>7, <1>8, TraversalKept

LEMMA TraverseNextKeeps ==
  ASSUME IRInv, Traversal, TraverseNext
  PROVE  IRInv' /\ Traversal'
<1>1. PICK T \in SUBSET Message : Seen(T)
  BY DEF Traversal
<1>2. StackInv /\ OpenInv /\ ReachInv
  BY DEF Traversal
<1>3. PICK n : n = Head(todo)
  OBVIOUS
<1>4. /\ Given /\ UNCHANGED ir /\ messages' = messages /\ stack = <<>> /\ todo # <<>>
      /\ todo' = Tail(todo) /\ Call(n)
  BY <1>3 DEF TraverseNext, Given, ir
<1>5. IRInv'
  BY <1>4, IRKept
<1>6. StackInv'
  BY <1>2, StackTraverseNext
<1>7. ReachInv' /\ \E W : Follows(W, {})
  BY <1>2, ReachTraverseNext
<1>8. OpenInv'
  BY <1>2, <1>4, <1>7, OpenSame
<1>9. todo \in Seq(Message)
  BY <1>2 DEF StackInv
<1>10. n \in Message
  BY <1>3, <1>4, <1>9
<1>11. \A r \in Range(todo) : r = n \/ r \in Range(todo')
  <2> SUFFICES ASSUME NEW i \in DOMAIN todo, todo[i] # n PROVE todo[i] \in Range(todo')
    BY DEF Range
  <2>1. /\ DOMAIN todo' = 1 .. Len(todo) - 1 /\ Len(todo) \in Nat /\ DOMAIN todo = 1 .. Len(todo)
        /\ \A j \in 1 .. Len(todo) - 1 : todo'[j] = todo[j + 1]
    BY <1>4, <1>9
  <2>2. i # 1
    BY <1>3, <1>4, <1>9
  <2>3. i - 1 \in DOMAIN todo' /\ todo'[i - 1] = todo[i]
    BY <2>1, <2>2
  <2> QED
    BY <2>3 DEF Range
<1>12. Seen(T)'
  BY <1>1, <1>2, <1>4, <1>10, <1>11, SeenPushed
<1> QED
  BY <1>4, <1>5, <1>6, <1>7, <1>8, <1>12, TraversalKept

LEMMA NestedReturnedKeeps ==
  ASSUME IRInv, Traversal, NestedReturned
  PROVE  IRInv' /\ Traversal'
<1>1. PICK T \in SUBSET Message : Seen(T)
  BY DEF Traversal
<1>2. PICK m, i : m = Top.msg /\ i = Top.i
  OBVIOUS
<1>3. StackInv /\ OpenInv /\ ReachInv
  BY DEF Traversal
<1>4. /\ Given /\ UNCHANGED ir /\ messages' = messages /\ stack # <<>> /\ Top.at = "nested"
      /\ todo' = todo /\ result' = None /\ result # None
  BY DEF NestedReturned, In, Given, ir
<1>5. IRInv'
  BY <1>4, IRKept
<1>6. StackInv' /\ Moved
  BY <1>1, <1>3, StackNestedReturned
<1>7. Follows({}, {})
  BY <1>3, <1>4, <1>6, MovedFollows
<1>8. ReachInv'
  BY <1>3, <1>4, <1>7, ReachSame
<1>9. OpenInv'
  BY <1>3, <1>4, <1>7, OpenSame
<1>10. D(m).nested[i] \in T
  BY <1>1, <1>2, <1>4 DEF Seen, SeenResult, Awaits
<1>11. TypesInv /\ Top.at # "fields"
  BY <1>4 DEF IRInv
<1>12. Seen(T)'
  BY <1>1, <1>2, <1>3, <1>4, <1>6, <1>10, <1>11, SeenMoved
<1> QED
  BY <1>4, <1>5, <1>6, <1>8, <1>9, <1>12, TraversalKept

LEMMA SkipFieldKeeps ==
  ASSUME IRInv, Traversal, NEW f, SkipField(f)
  PROVE  IRInv' /\ Traversal'
<1>1. PICK T \in SUBSET Message : Seen(T)
  BY DEF Traversal
<1>2. PICK m, i : m = Top.msg /\ i = Top.i
  OBVIOUS
<1>3. StackInv /\ OpenInv /\ ReachInv
  BY DEF Traversal
<1>4. /\ Given /\ UNCHANGED ir /\ messages' = messages /\ stack # <<>> /\ Top.at = "fields"
      /\ todo' = todo /\ result' = None /\ result = Null /\ stack' = Advanced
  BY DEF SkipField, AtField, In, Given, ir
<1>5. IRInv'
  BY <1>4, IRKept
<1>6. StackInv' /\ Moved
  BY <1>1, <1>3, <1>4, StackSkipField, AdvancedMoves
<1>7. Follows({}, {})
  BY <1>3, <1>4, <1>6, MovedFollows
<1>8. ReachInv'
  BY <1>3, <1>4, <1>7, ReachSame
<1>9. OpenInv'
  BY <1>3, <1>4, <1>7, OpenSame
<1>10. TypeSeen(m, i, T)
  BY <1>1, <1>2, <1>4 DEF Seen, SeenResult, Awaits, TypeSeen, None, Null
<1>11. TypesInv /\ Top.at # "nested"
  BY <1>4 DEF IRInv
<1>12. Seen(T)'
  BY <1>1, <1>2, <1>3, <1>4, <1>6, <1>10, <1>11, SeenMoved
<1> QED
  BY <1>4, <1>5, <1>6, <1>8, <1>9, <1>12, TraversalKept

LEMMA AddFieldKeeps ==
  ASSUME IRInv, Traversal, NEW f, AddField(f)
  PROVE  IRInv' /\ Traversal'
<1>1. PICK T \in SUBSET Message : Seen(T)
  BY DEF Traversal
<1>2. PICK m, i : m = Top.msg /\ i = Top.i
  OBVIOUS
<1>3. StackInv /\ OpenInv /\ ReachInv
  BY DEF Traversal
<1>4. /\ Given /\ stack # <<>> /\ Top.at = "fields" /\ f = Collected(m)[i]
      /\ todo' = todo /\ result' = None /\ stack' = Advanced
  BY <1>2 DEF AddField, AtField, In, Given
<1>5. f.type \in Message => f.type \in DOMAIN messages /\ f.type \in T
  BY <1>1, <1>3, AddedType
<1>6. IRInv'
  <2>1. PICK new : new = Added(m, f)
    OBVIOUS
  <2> QED
    BY <1>2, <1>3, <1>5, <2>1, IRFieldAdded
<1>7. DOMAIN messages' = DOMAIN messages
  BY DEF AddField
<1>8. StackInv' /\ Moved
  BY <1>1, <1>3, <1>4, StackAddField, AdvancedMoves
<1>9. Follows({}, {})
  BY <1>3, <1>4, <1>8, MovedFollows
<1>10. ReachInv'
  BY <1>3, <1>4, <1>7, <1>9, ReachSame
<1>11. OpenInv'
  BY <1>3, OpenFieldAdded
<1>12. TypeSeen(m, i, T)
  BY <1>4, <1>5 DEF TypeSeen
<1>13. TypesInv /\ Top.at # "nested"
  BY <1>4 DEF IRInv
<1>14. Seen(T)'
  BY <1>1, <1>2, <1>3, <1>4, <1>7, <1>8, <1>12, <1>13, SeenMoved
<1> QED
  BY <1>4, <1>6, <1>8, <1>10, <1>11, <1>14, TraversalKept

LEMMA DropKeeps ==
  ASSUME IRInv, Traversal, NEW m \in Message, Drop(m) \/ Known(m)
  PROVE  IRInv' /\ Traversal'
<1>1. PICK T \in SUBSET Message : Seen(T)
  BY DEF Traversal
<1>2. StackInv /\ OpenInv /\ ReachInv
  BY DEF Traversal
<1>3. /\ Given /\ messages' = messages /\ stack # <<>> /\ m = Top.msg /\ Top.at = "nested"
      /\ Top.i > Len(D(m).nested) /\ todo' = todo /\ stack' = Front(stack)
  BY DEF Drop, Known, Accepted, Ready, In, Return, Given, ir
<1>4. TypesInv
  BY DEF IRInv
<1>5. IRInv'
  <2>1. CASE Drop(m)
    <3>1. D(m).enums \in SUBSET Enum
      BY <1>4, DescriptorOf
    <3>2. RegisterEnums(D(m).enums)
      BY <2>1 DEF Drop
    <3> QED
      BY <1>3, <3>1, <3>2, IRRegistered
  <2>2. CASE Known(m)
    <3>1. UNCHANGED ir
      BY <2>2 DEF Known
    <3> QED
      BY <1>3, <3>1, IRKept
  <2> QED
    BY <2>1, <2>2
<1>6. StackInv'
  BY <1>2, StackDropped
<1>7. Follows({}, {})
  BY <1>2, <1>3, PoppedFollows
<1>8. ReachInv'
  BY <1>2, <1>3, <1>7, ReachSame
<1>9. OpenInv'
  BY <1>2, <1>3, <1>7, OpenSame
<1>10. /\ result' = IF Kept(m) THEN m ELSE Null
       /\ Kept(m) => m \in DOMAIN messages
  <2>1. CASE Drop(m)
    BY <2>1 DEF Drop, Return, Kept
  <2>2. CASE Known(m)
    BY <2>2 DEF Known, Accepted, Emplaced, Return, Kept
  <2> QED
    BY <2>1, <2>2
<1>11. PICK U : U = T \cup {m}
  OBVIOUS
<1>12. SeenMessages(U)'
  <2>1. \A t : Kept(t)' <=> Kept(t)
    BY <1>3, KeptStatic
  <2>2. SeenMessages(U)
    BY <1>1, <1>10, <1>11 DEF Seen, SeenMessages
  <2> QED
    BY <1>3, <2>1, <2>2 DEF SeenMessages
<1>13. m \in T \/ ~(Kept(m) /\ IsTarget(File(m)))
  BY <1>1, <1>10 DEF Seen, SeenMessages
<1>14. Top.at # "fields"
  BY <1>3
<1>15. Seen(U)'
  BY <1>1, <1>2, <1>3, <1>4, <1>10, <1>11, <1>12, <1>13, <1>14, SeenPopped
<1>16. U \in SUBSET Message
  BY <1>11
<1> QED
  BY <1>3, <1>5, <1>6, <1>8, <1>9, <1>15, <1>16, TraversalKept

LEMMA EmplaceKeeps ==
  ASSUME IRInv, Traversal, NEW m \in Message, Emplace(m)
  PROVE  IRInv' /\ Traversal'
<1>1. PICK T \in SUBSET Message : Seen(T)
  BY DEF Traversal
<1>2. StackInv /\ OpenInv /\ ReachInv
  BY DEF Traversal
<1>3. /\ Given /\ stack # <<>> /\ m = Top.msg /\ Top.at = "nested" /\ Top.at # "fields"
      /\ Top.i > Len(D(m).nested) /\ result = None /\ Kept(m)
      /\ DOMAIN messages' = DOMAIN messages \cup {m}
  BY <1>2, Emplacing
<1>4. /\ todo' = todo
      /\ IF IsTarget(File(m))
           THEN stack' = [stack EXCEPT ![Len(stack)].at = "fields", ![Len(stack)].i = 1] /\ UNCHANGED result
           ELSE stack' = Front(stack) /\ result' = m
  BY DEF Emplace, Return
<1>5. TypesInv
  BY DEF IRInv
<1>6. IRInv' /\ StackInv' /\ OpenInv' /\ ReachInv'
  BY <1>2, IREmplaced, StackEmplaced, OpenEmplaced, ReachEmplaced
<1>7. PICK U : U = T \cup {m}
  OBVIOUS
<1>8. SeenMessages(U)'
  <2>1. \A t : Kept(t)' <=> Kept(t)
    BY <1>3, KeptStatic
  <2> QED
    BY <1>1, <1>3, <1>7, <2>1 DEF Seen, SeenMessages
<1>9. Seen(U)'
  <2>1. CASE IsTarget(File(m))
    <3>1. Entered
      BY <1>2, <1>3, <1>4, <2>1, Enters
    <3> QED
      BY <1>1, <1>2, <1>3, <1>4, <1>5, <1>7, <1>8, <2>1, <3>1, SeenEntered
  <2>2. CASE ~IsTarget(File(m))
    <3>1. result' = IF Kept(m) THEN m ELSE Null
      BY <1>3, <1>4, <2>2
    <3> QED
      BY <1>1, <1>2, <1>3, <1>4, <1>5, <1>7, <1>8, <2>2, <3>1, SeenPopped
  <2> QED
    BY <2>1, <2>2
<1>10. U \in SUBSET Message
  BY <1>7
<1> QED
  BY <1>3, <1>6, <1>9, <1>10, TraversalKept

LEMMA FinishMessageKeeps ==
  ASSUME IRInv, Traversal, NEW m \in Message, FinishMessage(m)
  PROVE  IRInv' /\ Traversal'
<1>1. PICK T \in SUBSET Message : Seen(T)
  BY DEF Traversal
<1>2. StackInv /\ OpenInv /\ ReachInv
  BY DEF Traversal
<1>3. /\ Given /\ stack # <<>> /\ m = Top.msg /\ Top.at = "fields" /\ Top.at # "nested"
      /\ Top.i > Len(Collected(m)) /\ m \in DOMAIN messages
      /\ DOMAIN messages' = DOMAIN messages
      /\ \A n \in DOMAIN messages : n # m => messages'[n] = messages[n]
  BY <1>2, Finishing DEF IsNow
<1>4. todo' = todo /\ stack' = Front(stack) /\ result' = m
  BY DEF FinishMessage, Return
<1>5. TypesInv
  BY DEF IRInv
<1>6. IRInv' /\ StackInv' /\ OpenInv'
  BY <1>2, IRFinished, StackFinishMessage, OpenFinished
<1>7. ReachInv'
  <2>1. \E C : Follows({}, C)
    BY <1>2, <1>3, <1>4, PoppedFollows
  <2> QED
    BY <1>2, <1>3, <2>1, ReachSame
<1>8. Kept(m) /\ m \in T
  BY <1>1, <1>3 DEF IRInv, MessageInv, Seen, SeenMessages
<1>9. SeenMessages(T)'
  BY <1>1, <1>3, SeenMessagesSame DEF Seen
<1>10. Seen(T)'
  <2>1. result' = IF Kept(m) THEN m ELSE Null
    BY <1>4, <1>8
  <2>2. T = T \cup {m}
    BY <1>8
  <2> QED
    BY <1>1, <1>2, <1>3, <1>4, <1>5, <1>8, <1>9, <2>1, <2>2, SeenPopped
<1> QED
  BY <1>1, <1>3, <1>6, <1>7, <1>10, TraversalKept

LEMMA FinishFileKeeps ==
  ASSUME IRInv, Traversal, FinishFile
  PROVE  IRInv' /\ Traversal'
<1>1. PICK T \in SUBSET Message : Seen(T)
  BY DEF Traversal
<1>2. StackInv /\ OpenInv /\ ReachInv
  BY DEF Traversal
<1>3. /\ Given /\ stack = <<>> /\ stack' = stack /\ todo' = todo /\ result' = result /\ messages' = messages
      /\ RegisterEnums(program.enums)
  BY DEF FinishFile, Given, parsing
<1>4. program.enums \in SUBSET Enum
  BY DEF IRInv, TypesInv, WellFormed
<1>5. IRInv'
  BY <1>3, <1>4, IRRegistered
<1>6. StackInv'
  BY <1>2, StackFinishFile
<1>7. Follows({}, {})
  BY <1>3 DEF Follows, IsOpen
<1>8. ReachInv' /\ OpenInv'
  BY <1>2, <1>3, <1>7, ReachSame, OpenSame
<1>9. Seen(T)'
  <2>1. SeenMessages(T)'
    BY <1>1, <1>3, SeenMessagesSame DEF Seen
  <2>2. SeenNested(T)'
    BY <1>1, <1>3, SeenNestedStep DEF Seen
  <2>3. SeenTypes(T)'
    <3>1. \A t : \A j : FieldAhead(t, j) => FieldAhead(t, j)'
      BY <1>3 DEF FieldAhead
    <3> QED
      BY <1>1, <1>3, <3>1, SeenTypesStep DEF Seen
  <2>4. SeenRoots(T)'
    BY <1>1, <1>3, SeenRootsStep DEF Seen
  <2>5. SeenResult(T)'
    BY <1>3 DEF SeenResult
  <2> QED
    BY <2>1, <2>2, <2>3, <2>4, <2>5 DEF Seen
<1> QED
  BY <1>1, <1>3, <1>5, <1>6, <1>8, <1>9, TraversalKept

(* All of them together.                                                   *)
LEMMA ParseKeeps ==
  ASSUME IRInv, ParseInv, Parse
  PROVE  IRInv' /\ ParseInv'
<1>1. ASSUME phase = "parse", IRInv' /\ Traversal'
      PROVE  IRInv' /\ ParseInv'
  BY <1>1 DEF ParseInv, Traversal
<1>2. phase = "parse" => Traversal
  BY DEF ParseInv, Traversal
<1>3. CASE TraverseNested
  BY <1>1, <1>2, <1>3, TraverseNestedKeeps DEF TraverseNested, In
<1>4. CASE NestedReturned
  BY <1>1, <1>2, <1>4, NestedReturnedKeeps DEF NestedReturned, In
<1>5. CASE TraverseNext
  BY <1>1, <1>2, <1>5, TraverseNextKeeps DEF TraverseNext
<1>6. CASE FinishFile
  BY <1>1, <1>2, <1>6, FinishFileKeeps DEF FinishFile
<1>7. ASSUME NEW m \in Message, Contradiction(m)
      PROVE  IRInv' /\ ParseInv'
  <2>1. Given /\ UNCHANGED ir /\ phase' = "rejected"
    BY <1>7 DEF Contradiction, Reject, Given
  <2> QED
    BY <2>1, IRKept DEF ParseInv
<1>8. ASSUME NEW m \in Message, Drop(m) \/ Known(m)
      PROVE  IRInv' /\ ParseInv'
  BY <1>1, <1>2, <1>8, DropKeeps DEF Drop, Known, Accepted, Ready, In
<1>9. ASSUME NEW m \in Message, Emplace(m)
      PROVE  IRInv' /\ ParseInv'
  BY <1>1, <1>2, <1>9, EmplaceKeeps DEF Emplace, Accepted, Ready, In
<1>10. ASSUME NEW m \in Message, FinishMessage(m)
       PROVE  IRInv' /\ ParseInv'
  BY <1>1, <1>2, <1>10, FinishMessageKeeps DEF FinishMessage, In
<1>11. ASSUME NEW f, TraverseType(f)
       PROVE  IRInv' /\ ParseInv'
  BY <1>1, <1>2, <1>11, TraverseTypeKeeps DEF TraverseType, AtField, In
<1>12. ASSUME NEW f, SkipField(f)
       PROVE  IRInv' /\ ParseInv'
  BY <1>1, <1>2, <1>12, SkipFieldKeeps DEF SkipField, AtField, In
<1>13. ASSUME NEW f, AddField(f)
       PROVE  IRInv' /\ ParseInv'
  BY <1>1, <1>2, <1>13, AddFieldKeeps DEF AddField, AtField, In
<1> QED
  BY <1>3, <1>4, <1>5, <1>6, <1>7, <1>8, <1>9, <1>10, <1>11, <1>12, <1>13 DEF Parse

(* Nothing is registered at the start.                                     *)
LEMMA StartsEmpty ==
  ASSUME FrontEndInit
  PROVE  IRInv /\ ParseInv
<1>1. PICK input \in Inputs : program = input.program /\ options = input.options
  BY DEF FrontEndInit
<1>2. WellFormed(program) /\ options \in ParseOptions
  BY <1>1, FrontEndAssumption
<1>3. /\ todo = program.roots /\ stack = <<>> /\ result = None
      /\ schemas = <<>> /\ enums = {} /\ messages = <<>> /\ phase = "parse"
  BY DEF FrontEndInit
<1>4. DOMAIN schemas = {} /\ DOMAIN messages = {} /\ DOMAIN stack = {}
  BY <1>3
<1>5. IRInv
  BY <1>2, <1>3, <1>4 DEF IRInv, TypesInv, SchemasInv
<1>6. StackInv
  <2>1. todo \in Seq(Message) /\ << >> \in Seq(OpenCall)
    BY <1>2, <1>3 DEF WellFormed, Message
  <2>2. \A i \in DOMAIN todo : todo[i] \in Range(program.roots)
    BY <1>3 DEF Range
  <2> QED
    BY <1>3, <1>4, <2>1, <2>2 DEF StackInv
<1>7. OpenInv /\ ReachInv
  BY <1>4 DEF OpenInv, ReachInv
<1>8. Seen({})
  BY <1>3, <1>4 DEF Seen, SeenMessages, SeenNested, SeenTypes, SeenRoots, SeenResult
<1> QED
  BY <1>5, <1>6, <1>7, <1>8 DEF ParseInv

-----------------------------------------------------------------------------
(* What the front end has built when it is done.                           *)

KeptAll ==
  DOMAIN messages = {m \in Closure(Range(program.roots), [m \in Message |-> Traversed(m)]) : Kept(m)}

(* A closure lies in every closed set,                                     *)
LEMMA ClosureIs ==
  ASSUME NEW start, NEW leads, NEW T \in SUBSET Message, start \subseteq T, \A m \in T : leads[m] \subseteq T
  PROVE  Closure(start, leads) \subseteq T
  BY DEF Closure

(* and holds what all of them hold.                                        *)
LEMMA InClosure ==
  ASSUME NEW start, NEW leads, NEW m \in Message,
         \A S \in SUBSET Message : start \subseteq S /\ (\A n \in S : leads[n] \subseteq S) => m \in S
  PROVE  m \in Closure(start, leads)
  BY DEF Closure

(* With no call open the table is what the program leads to,               *)
LEMMA AllKept ==
  ASSUME IRInv, StackInv, ReachInv, NEW T \in SUBSET Message, Seen(T), stack = <<>>, todo = <<>>
  PROVE  KeptAll
<1> DEFINE leads == [m \in Message |-> Traversed(m)]
           all == Closure(Range(program.roots), leads)
<1>1. \A m \in Message : leads[m] = Traversed(m)
  OBVIOUS
<1>2. TypesInv
  BY DEF IRInv
<1>3. Range(program.roots) \subseteq T
  <2>1. Range(todo) = {}
    BY DEF Range
  <2> QED
    BY <2>1 DEF Seen, SeenRoots
<1>4. \A m \in T : Traversed(m) \subseteq T
  <2> SUFFICES ASSUME NEW m \in T, NEW n \in Traversed(m) PROVE n \in T
    OBVIOUS
  <2>1. CASE n \in {t \in Range(D(m).nested) : ~D(t).map}
    <3>1. PICK j \in DOMAIN D(m).nested : n = D(m).nested[j]
      BY <2>1 DEF Range
    <3> QED
      BY <2>1, <3>1 DEF Seen, SeenNested
  <2>2. CASE n \notin {t \in Range(D(m).nested) : ~D(t).map}
    <3>1. Kept(m) /\ IsTarget(File(m)) /\ n \in {f.type : f \in Range(Collected(m))} \cap Message
      BY <2>2 DEF Traversed
    <3>2. PICK j \in DOMAIN Collected(m) : n = Collected(m)[j].type
      BY <3>1 DEF Range
    <3>3. ~FieldAhead(m, j)
      BY DEF FieldAhead
    <3> QED
      BY <3>1, <3>2, <3>3 DEF Seen, SeenTypes
  <2> QED
    BY <2>1, <2>2
<1>5. all \subseteq T
  BY <1>1, <1>3, <1>4, ClosureIs
<1>6. ASSUME NEW m \in DOMAIN messages PROVE m \in all /\ Kept(m)
  <2>1. m \in Message /\ Kept(m)
    BY <1>2 DEF IRInv, MessageInv, TypesInv
  <2>2. \A S \in SUBSET Message :
          Range(program.roots) \subseteq S /\ (\A n \in S : leads[n] \subseteq S) => m \in S
    BY DEF ReachInv, Closed
  <2> QED
    BY <2>1, <2>2, InClosure
<1>7. ASSUME NEW m \in all, Kept(m) PROVE m \in DOMAIN messages
  BY <1>5, <1>7 DEF Seen, SeenMessages
<1> QED
  BY <1>6, <1>7 DEF KeptAll

(* and every message of a target file is complete.                         *)
LEMMA AllComplete ==
  ASSUME IRInv, OpenInv, stack = <<>>, NEW m \in DOMAIN messages
  PROVE  /\ messages[m].defined <=> IsTarget(File(m))
         /\ messages[m].defined => FieldsIn(m, Len(Collected(m)))
         /\ ~messages[m].defined => messages[m].fields = <<>>
<1>1. ~IsOpen(m)
  BY DEF IsOpen
<1>2. OpenMessage(m) /\ MessageInv(m)
  BY DEF OpenInv, IRInv
<1>3. messages[m].defined \in BOOLEAN /\ IsTarget(File(m)) \in BOOLEAN
  BY DEF IRInv, TypesInv, IsMessageDef, IsTarget
<1> QED
  BY <1>1, <1>2, <1>3 DEF OpenMessage, MessageInv
=============================================================================
