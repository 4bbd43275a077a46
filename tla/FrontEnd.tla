------------------------------ MODULE FrontEnd ------------------------------
(***************************************************************************)
(* The protobuf front end (proto_front.cpp): it walks the descriptors of   *)
(* one file and builds the IR, schemas, messages and their fields.         *)
(* TraverseMessage recurses into nested messages before it registers a     *)
(* message and into the types of fields afterwards, so that messages that  *)
(* refer to each other are met while they are half built.  The recursion   *)
(* is an explicit stack of calls, one step of a call an action.            *)
(*                                                                         *)
(* Names are taken to differ after adaptation; a message is its own symbol.*)
(***************************************************************************)
EXTENDS Integers, SequencesExt, FiniteSetsExt

CONSTANTS Inputs,    \* [program, options]: what protoc may hand over
          EnumFile,  \* the enums, and the file of each
          MaxDepth   \* bound: calls on the machine's stack

VARIABLES program,   \* [roots, enums, messages]: a file and what it reaches
          options,   \* [slice, targets, skipEmpty, skipReserved, fillGaps]:
                     \* the tag and ProtobufReflectionFrontEndOptions
          todo,      \* top-level messages not traversed yet
          stack,     \* the open calls of TraverseMessage
          result,    \* what the last one returned, until it is used
          schemas,   \* registered files
          enums,     \* registered enums
          messages,  \* registered messages
          phase,     \* of the compilation: parse, check, process,
                     \* order, generate, done or rejected
          error      \* why it was rejected

BasicType == {"bool", "int32", "double", "string"}
None == "none"
Null == "nullptr"

Enum == DOMAIN EnumFile

(* The elements of s at the places I: of its first n places, of all.       *)
OnlyTo(s, I, n) ==
  LET upTo[k \in 0 .. Len(s)] ==
        IF k = 0 THEN <<>> ELSE IF k \in I THEN Append(upTo[k - 1], s[k]) ELSE upTo[k - 1]
  IN  upTo[n]

Only(s, I) == OnlyTo(s, I, Len(s))

(* Descriptors, as protoc accepts them.                                    *)
FieldDescriptor(p) ==
  [name : STRING \ {None}, number : Nat \ {0}, type : DOMAIN p.messages \cup Enum \cup BasicType,
   repeated : BOOLEAN, deprecated : BOOLEAN, oneof : STRING,
   options : Seq([slice : STRING, id : Nat])]

MessageOptions ==
  [slice : STRING, ignore : BOOLEAN, layout : {"unknown", "dynamic", "sparse", "flat", "fixed"},
   reserved : Seq([id : Nat, type : STRING, repeated : BOOLEAN])]

Descriptor(p) ==
  [file : STRING, map : BOOLEAN, nested : Seq(DOMAIN p.messages), enums : SUBSET Enum,
   fields : Seq(FieldDescriptor(p)), options : Seq(MessageOptions), reserved : Seq(Nat \ {0})]

(* The entry of a map: no markup, a key and a value.                       *)
IsMapEntry(d) ==
  /\ d.nested = <<>> /\ d.options = <<>> /\ d.reserved = <<>> /\ Len(d.fields) = 2
  /\ d.fields[1].type \in {"bool", "int32", "string"}
  /\ \A i \in {1, 2} :
       /\ d.fields[i].number = i /\ d.fields[i].options = <<>>
       /\ ~d.fields[i].repeated /\ ~d.fields[i].deprecated /\ d.fields[i].oneof = None

(* A file refers to types of the files it imports, and imports have no     *)
(* cycle.                                                                  *)
Imports(p, a, b) ==
  \E m \in DOMAIN p.messages : \E f \in Range(p.messages[m].fields) :
    /\ p.messages[m].file = a /\ a # b
    /\ \/ f.type \in Enum /\ EnumFile[f.type] = b
       \/ f.type \in DOMAIN p.messages /\ p.messages[f.type].file = b

ImportsEnd(p) ==
  \A files \in SUBSET {p.messages[m].file : m \in DOMAIN p.messages} :
    files # {} => \E a \in files : \A b \in files : ~Imports(p, a, b)

WellFormed(p) ==
  /\ DOMAIN p.messages \subseteq STRING \ (Enum \cup BasicType \cup {None, Null})
  /\ p.roots \in Seq(DOMAIN p.messages) /\ p.enums \subseteq Enum
  /\ ImportsEnd(p)
  /\ \A m \in DOMAIN p.messages :
       LET d == p.messages[m]
           types == {f.type : f \in Range(d.fields)} \cap DOMAIN p.messages
       IN  /\ d \in Descriptor(p) /\ (d.map => IsMapEntry(d))
           /\ \A i, j \in DOMAIN d.fields : d.fields[i].name = d.fields[j].name => i = j
           /\ \A t \in types : p.messages[t].map => p.messages[t].file = d.file

ParseOptions ==
  [slice : STRING, targets : SUBSET STRING,
   skipEmpty : BOOLEAN, skipReserved : BOOLEAN, fillGaps : BOOLEAN]

ASSUME FrontEndAssumption ==
  /\ MaxDepth \in Nat \ {0}
  /\ EnumFile \in [Enum -> STRING]
  /\ Enum \subseteq STRING \ (BasicType \cup {None, Null})
  /\ \A input \in Inputs : WellFormed(input.program) /\ input.options \in ParseOptions

-----------------------------------------------------------------------------
parsing == <<todo, stack, result>>
ir == <<schemas, enums, messages>>

Message == DOMAIN program.messages
D(m) == program.messages[m]
File(t) == IF t \in Enum THEN EnumFile[t] ELSE D(t).file
IsTarget(file) == options.targets = {} \/ file \in options.targets

-----------------------------------------------------------------------------
(* What the markup says.  Map entries are always read without a slice.     *)

Slice(m) == IF D(m).map THEN "" ELSE options.slice

(* GetFieldMeta and GetMessageMeta: the option of the slice, or the        *)
(* untagged one; at most one of each is allowed.                           *)
Resolved(metas, slice) ==
  LET of(s) == Only(metas, {i \in DOMAIN metas : metas[i].slice = s}) IN of(slice) \o of("")

Ambiguous(metas, slice) ==
  \E i, j \in DOMAIN metas :
    i < j /\ metas[i].slice = metas[j].slice /\ metas[i].slice \in {"", slice}

GetMessageLayout(m, slice) ==
  IF D(m).map THEN "fixed"
  ELSE LET found == Resolved(D(m).options, slice)
       IN IF found = <<>> THEN "dynamic" ELSE Head(found).layout

(* The first option that applies decides, tagged or not.                   *)
ShouldIgnore(m) ==
  LET found == Only(D(m).options, {i \in DOMAIN D(m).options : D(m).options[i].slice \in {"", Slice(m)}})
  IN found # <<>> /\ Head(found).ignore

(* GetYaffMessage has a value.                                             *)
Selected(m) ==
  /\ ~ShouldIgnore(m)
  /\ Slice(m) = "" \/ \E x \in Range(D(m).options) : x.slice = Slice(m)

FieldId(f, slice) ==
  LET found == Resolved(f.options, slice)
  IN IF found # <<>> /\ Head(found).id > 0 THEN Head(found).id ELSE f.number

(* CollectFields: GetYaffFields of the default or of the tagged traits.    *)
Collected(m) ==
  LET fields == D(m).fields
  IN Only(fields, {i \in DOMAIN fields :
       IF Slice(m) = "" THEN ~fields[i].deprecated
       ELSE Resolved(fields[i].options, Slice(m)) # <<>>})

GetDeprecatedFields(m) ==
  LET found == Resolved(D(m).options, Slice(m))
  IN IF found = <<>> THEN <<>> ELSE Head(found).reserved

(* Only without a slice do deprecated fields and reserved numbers count;   *)
(* a deprecated field has its protobuf number, whatever id it was given.   *)
DeprecatedFields(m) ==
  LET old == Only(D(m).fields, {i \in DOMAIN D(m).fields : D(m).fields[i].deprecated})
      typed == GetDeprecatedFields(m) \o
               [i \in DOMAIN old |-> [id |-> old[i].number, type |-> old[i].type,
                                      repeated |-> old[i].repeated]]
      untyped == Only(D(m).reserved, {i \in DOMAIN D(m).reserved :
                                       D(m).reserved[i] \notin {f.id : f \in Range(typed)}})
  IN IF Slice(m) # "" THEN GetDeprecatedFields(m)
     ELSE typed \o [i \in DOMAIN untyped |-> [id |-> untyped[i], type |-> None, repeated |-> FALSE]]

(* Two options for one slice throw wherever they are looked at.            *)
FieldsContradict(m) ==
  \/ \E f \in Range(D(m).fields) :
       /\ Slice(m) # "" \/ ~f.deprecated
       /\ Ambiguous(f.options, Slice(m))
  \/ \E f \in Range(Collected(m)) :
       /\ f.repeated /\ f.type \in Message /\ ~D(f.type).map
       /\ Ambiguous(D(f.type).options, Slice(m))

MessageContradicts(m) == ~D(m).map /\ Ambiguous(D(m).options, Slice(m))

-----------------------------------------------------------------------------
(* The IR.                                                                 *)

(* RegisterFile.                                                           *)
Registered(files) ==
  [file \in DOMAIN schemas \cup files |->
     IF file \in DOMAIN schemas THEN schemas[file]
     ELSE [deps |-> {}, messages |-> <<>>, defined |-> FALSE]]

(* RegisterEnum of each of es.                                             *)
RegisterEnums(es) ==
  /\ enums' = enums \cup es
  /\ schemas' = Registered({EnumFile[e] : e \in es})

NewField ==
  [name |-> None, id |-> 0, type |-> None, to |-> Null, deprecated |-> TRUE,
   oneof |-> None, assoc |-> FALSE, active |-> 0, offset |-> 0]

TypeOf(type, repeated) ==
  IF repeated THEN "array" ELSE IF type \in Message THEN "message"
  ELSE IF type \in Enum THEN "enum" ELSE type

(* A plausible slip: an enum stays an enum.                                *)
DeprecatedFieldKept(f) ==
  [NewField EXCEPT !.id = f.id, !.type = TypeOf(f.type, f.repeated)]

(* RegisterDeprecatedFieldType keeps no reference to the type.             *)
DeprecatedField(f) ==
  LET type == TypeOf(f.type, f.repeated)
  IN [NewField EXCEPT !.id = f.id, !.type = IF type = "enum" THEN "int32" ELSE type]

LiveField(f, id) ==
  [name |-> f.name, id |-> id, type |-> TypeOf(f.type, f.repeated),
   to |-> IF f.type \in Message THEN f.type ELSE Null, deprecated |-> FALSE, oneof |-> f.oneof,
   assoc |-> f.type \in Message /\ D(f.type).map, active |-> 0, offset |-> 0]

-----------------------------------------------------------------------------
(* TraverseMessage.                                                        *)

Top == Last(stack)
Advanced == [stack EXCEPT ![Len(stack)].i = @ + 1]
Return(r) == stack' = Front(stack) /\ result' = r

Call(m) ==
  /\ Len(stack) < MaxDepth
  /\ stack' = Append(stack, [msg |-> m, at |-> "nested", i |-> 1, nested |-> <<>>])
  /\ result' = None

Reject(reason) == phase' = "rejected" /\ error' = reason

In(at) == phase = "parse" /\ stack # <<>> /\ Top.at = at

TraverseNested ==
  /\ In("nested") /\ result = None /\ Top.i <= Len(D(Top.msg).nested)
  /\ LET nested == D(Top.msg).nested[Top.i]
     IN IF D(nested).map THEN stack' = Advanced /\ UNCHANGED result ELSE Call(nested)
  /\ UNCHANGED <<program, options, todo, ir, phase, error>>

(* A plausible slip: ignored messages are listed as well.                  *)
NestedReturnedUnchecked ==
  /\ In("nested") /\ result # None
  /\ stack' = [Advanced EXCEPT ![Len(stack)].nested = Append(@, result)]
  /\ result' = None
  /\ UNCHANGED <<program, options, todo, ir, phase, error>>

NestedReturned ==
  /\ In("nested") /\ result # None
  /\ stack' = [Advanced EXCEPT ![Len(stack)].nested =
                 IF result = Null THEN @ ELSE Append(@, result)]
  /\ result' = None
  /\ UNCHANGED <<program, options, todo, ir, phase, error>>

(* All nested types are traversed.                                         *)
Ready(m) ==
  /\ In("nested") /\ result = None /\ m = Top.msg /\ Top.i > Len(D(m).nested)

Empty(m) == options.skipEmpty /\ Collected(m) = <<>>

Contradiction(m) ==
  /\ Ready(m)
  /\ FieldsContradict(m) \/ (~Empty(m) /\ Selected(m) /\ MessageContradicts(m))
  /\ Reject("two options for one slice")
  /\ UNCHANGED <<program, options, parsing, ir>>

Drop(m) ==
  /\ Ready(m) /\ ~FieldsContradict(m)
  /\ Empty(m) \/ ~Selected(m)
  /\ RegisterEnums(D(m).enums)
  /\ Return(Null)
  /\ UNCHANGED <<program, options, todo, messages, phase, error>>

(* A plausible slip: messages that are still open do not count.            *)
EmplacedDefined(m) == m \in DOMAIN messages /\ messages[m].defined

Emplaced(m) == m \in DOMAIN messages

Accepted(m) ==
  /\ Ready(m) /\ ~FieldsContradict(m)
  /\ ~Empty(m) /\ Selected(m) /\ ~MessageContradicts(m)

(* Emplaced by an earlier call, or by one that is still open.              *)
Known(m) ==
  /\ Accepted(m) /\ Emplaced(m)
  /\ Return(m)
  /\ UNCHANGED <<program, options, todo, ir, phase, error>>

Emplace(m) ==
  /\ Accepted(m) /\ ~Emplaced(m)
  /\ LET known == Registered({File(m)} \cup {EnumFile[e] : e \in D(m).enums})
     IN schemas' = [known EXCEPT ![File(m)].messages = Append(@, m)]
  /\ enums' = enums \cup D(m).enums
  /\ messages' = [n \in DOMAIN messages \cup {m} |->
       IF n # m THEN messages[n]
       ELSE [defined |-> FALSE, layout |-> "unknown", nested |-> Top.nested,
             fields |-> <<>>, pair |-> FALSE, oneofs |-> <<>>]]
  /\ IF IsTarget(File(m))
       THEN stack' = [stack EXCEPT ![Len(stack)].at = "fields", ![Len(stack)].i = 1]
            /\ UNCHANGED result
       ELSE Return(m)
  /\ UNCHANGED <<program, options, todo, phase, error>>

(* The field the topmost call is at.                                       *)
AtField(f) ==
  /\ In("fields") /\ Top.i <= Len(Collected(Top.msg))
  /\ f = Collected(Top.msg)[Top.i]

TraverseType(f) ==
  /\ AtField(f) /\ f.type \in Message /\ result = None
  /\ Call(f.type)
  /\ UNCHANGED <<program, options, todo, ir, phase, error>>

(* A field whose type is ignored is ignored.                               *)
SkipField(f) ==
  /\ AtField(f) /\ result = Null
  /\ stack' = Advanced /\ result' = None
  /\ UNCHANGED <<program, options, todo, ir, phase, error>>

AddField(f) ==
  /\ AtField(f)
  /\ IF f.type \in Message THEN result = f.type ELSE result = None
  /\ LET m == Top.msg
         types == {f.type} \cap (Message \cup Enum)
         deps == {File(t) : t \in types} \ {File(m)}
     IN  /\ enums' = enums \cup (types \cap Enum)
         /\ schemas' = [Registered(deps) EXCEPT ![File(m)].deps = @ \cup deps]
         /\ messages' = [messages EXCEPT ![m].fields =
                           Append(@, LiveField(f, FieldId(f, Slice(m))))]
  /\ stack' = Advanced /\ result' = None
  /\ UNCHANGED <<program, options, todo, phase, error>>

(* The deprecated fields, but for reserved numbers without a type that are *)
(* in use again or not wanted; then the gaps, if they are to be filled.    *)
WithDeprecated(fields, deprecated) ==
  LET unused(i) ==
        /\ deprecated[i].id \notin {f.id : f \in Range(fields)}
        /\ \A j \in 1 .. i - 1 : deprecated[j].id # deprecated[i].id
  IN fields \o Only([i \in DOMAIN deprecated |-> DeprecatedField(deprecated[i])],
                    {i \in DOMAIN deprecated :
                       deprecated[i].type # None \/ (~options.skipReserved /\ unused(i))})

Unnumbered(fields) ==
  LET ids == {f.id : f \in Range(fields)}
  IN IF options.fillGaps THEN Only([id \in 1 .. Max(ids \cup {0}) |-> id], Nat \ ids) ELSE <<>>

WithGapsFilled(fields) ==
  LET gaps == Unnumbered(fields)
  IN fields \o [i \in DOMAIN gaps |-> [NewField EXCEPT !.id = gaps[i]]]

FinishMessage(m) ==
  /\ In("fields") /\ m = Top.msg /\ Top.i > Len(Collected(m))
  /\ \E deprecated \in {DeprecatedFields(m)} :
     \E fields \in {WithDeprecated(messages[m].fields, deprecated)} :
       messages' = [messages EXCEPT ![m].fields = WithGapsFilled(fields),
                                    ![m].layout = GetMessageLayout(m, Slice(m)),
                                    ![m].defined = TRUE]
  /\ Return(m)
  /\ UNCHANGED <<program, options, todo, schemas, enums, phase, error>>

-----------------------------------------------------------------------------
(* TraverseFile.                                                           *)

TraverseNext ==
  /\ phase = "parse" /\ stack = <<>> /\ todo # <<>>
  /\ Call(Head(todo))
  /\ todo' = Tail(todo)
  /\ UNCHANGED <<program, options, ir, phase, error>>

FinishFile ==
  /\ phase = "parse" /\ stack = <<>> /\ todo = <<>>
  /\ RegisterEnums(program.enums)
  /\ phase' = "check"
  /\ UNCHANGED <<program, options, parsing, messages, error>>

FrontEndInit ==
  /\ \E input \in Inputs : program = input.program /\ options = input.options
  /\ todo = program.roots /\ stack = <<>> /\ result = None
  /\ schemas = <<>> /\ enums = {} /\ messages = <<>>
  /\ phase = "parse" /\ error = None

Parse ==
  \/ TraverseNested \/ NestedReturned
  \/ \E m \in Message :
       Contradiction(m) \/ Drop(m) \/ Known(m) \/ Emplace(m) \/ FinishMessage(m)
  \/ \E m \in Message : \E f \in Range(D(m).fields) :
       TraverseType(f) \/ SkipField(f) \/ AddField(f)
  \/ TraverseNext \/ FinishFile
=============================================================================
