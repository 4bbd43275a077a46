------------------------------ MODULE Compiler ------------------------------
(***************************************************************************)
(* Compile for one file: the front end builds the IR, ProcessIR validates  *)
(* it and completes it (ir_processor.cpp), and the generator takes schemas *)
(* and messages in the order of their dependencies (util.cpp).             *)
(* ProcessMessage recurses into the types of fields as the front end does, *)
(* on a second explicit stack.  The symbol tables are ordered by name; the *)
(* names are left open, so tables are visited in any order.                *)
(***************************************************************************)
EXTENDS FrontEnd

CONSTANTS FieldOffsetMod,  \* how many values a FieldOffset has, 2^16
          FieldLimit       \* documented: fields of one message, 8190

VARIABLES pending,    \* messages the loop over the table has not reached
          processed,  \* ProcessedMessages_
          calls,      \* the open calls of ProcessMessage
          order,      \* the schemas to generate
          used,       \* what the order being made has visited
          walk,       \* the open calls that make it
          output      \* the definitions in the order they are generated

processing == <<pending, processed, calls>>
generation == <<order, used, walk, output>>
vars == <<program, options, parsing, ir, phase, error, processing, generation>>

(* A field takes eight bytes at most; within the limit places fit.         *)
ASSUME CompilerAssumption ==
  FieldOffsetMod \in Nat /\ FieldLimit \in Nat /\ 8 * FieldLimit < FieldOffsetMod

InlineSize(type) ==
  CASE type = None -> 0 [] type = "bool" -> 1 [] type = "double" -> 8 [] OTHER -> 4

IsScalar(type) == type \in {"bool", "int32", "double", "enum"}

EnumDefined(e) == IsTarget(EnumFile[e])

(* The generated definitions live in the schemas with something defined.   *)
SchemaDefined(file) ==
  \/ \E e \in enums : EnumFile[e] = file /\ EnumDefined(e)
  \/ \E m \in Range(schemas[file].messages) : messages[m].defined

-----------------------------------------------------------------------------
(* ProcessIR.                                                              *)

(* std::sort leaves fields of one id in any order.                         *)
SortedById(fields) ==
  LET sorts(p) == \A i \in 1 .. Len(fields) - 1 : fields[p[i]].id <= fields[p[i + 1]].id
  IN {[i \in DOMAIN fields |-> fields[p[i]]] :
        p \in {q \in Bijection(DOMAIN fields, DOMAIN fields) : sorts(q)}}

(* A plausible slip: only the largest id is compared.                      *)
IsGapMessageByMax(fields) == fields # <<>> /\ Last(fields).id # Len(fields)

IsGapMessage(fields) == \E i \in DOMAIN fields : fields[i].id # i

(* The offset and the index of every field, in the order of ids; the sum   *)
(* of sizes is a FieldOffset and wraps.                                    *)
Placed(fields) ==
  LET offset[i \in 0 .. Len(fields)] ==
        IF i = 0 THEN 0 ELSE (offset[i - 1] + InlineSize(fields[i].type)) % FieldOffsetMod
  IN  [i \in DOMAIN fields |->
         [fields[i] EXCEPT
            !.offset = offset[i - 1],
            !.active = IF fields[i].deprecated THEN 0
                       ELSE Cardinality({j \in 1 .. i : ~fields[j].deprecated})]]

(* Fields of a oneof are listed with it, after those listed before.        *)
Grouped(oneofs, fields) ==
  FoldLeft(LAMBDA groups, f :
             IF f.oneof = None THEN groups
             ELSE IF f.oneof \in DOMAIN groups
                    THEN [groups EXCEPT ![f.oneof] = Append(@, f.id)]
                    ELSE groups @@ f.oneof :> <<f.id>>,
           oneofs, fields)

(* What ProcessMessage ensures of a message alone.                         *)
Complaint(m, fields) ==
  CASE m \in processed -> "processed more than once"
    [] ~schemas[File(m)].defined -> "definition status"
    [] IsGapMessage(fields) /\ messages[m].layout \in {"flat", "fixed"} -> "gaps"
    [] \E f \in Range(fields) : f.active # 0 -> "active index"
    [] messages[m].layout = "fixed" /\ (\E f \in Range(fields) : f.oneof # None) -> "oneof in fixed"
    [] OTHER -> None

EnterMessage(m) ==
  \E fields \in SortedById(messages[m].fields) :
    /\ calls' = Append(calls, [msg |-> m, i |-> 1])
    /\ processed' = processed \cup {m}
    /\ messages' = [messages EXCEPT ![m].fields = Placed(fields),
                                    ![m].oneofs = Grouped(@, fields)]
    /\ LET complaint == Complaint(m, fields)
       IN IF complaint = None THEN UNCHANGED <<phase, error>> ELSE Reject(complaint)

(* ProcessSchema and ProcessEnum of everything.                            *)
ProcessSchemas ==
  /\ phase = "check"
  /\ schemas' = [file \in DOMAIN schemas |->
                   [schemas[file] EXCEPT !.defined = SchemaDefined(file)]]
  /\ pending' = DOMAIN messages
  /\ IF \A e \in enums : EnumDefined(e) = SchemaDefined(EnumFile[e])
       THEN phase' = "process" /\ UNCHANGED error ELSE Reject("definition status")
  /\ UNCHANGED <<program, options, parsing, enums, messages, processed, calls, generation>>

ProcessNext(m) ==
  /\ phase = "process" /\ calls = <<>> /\ m \in pending
  /\ pending' = pending \ {m}
  /\ IF m \in processed \/ ~messages[m].defined
       THEN UNCHANGED <<processed, calls, messages, phase, error>>
       ELSE EnterMessage(m)
  /\ UNCHANGED <<program, options, parsing, schemas, enums, generation>>

(* The field the topmost call is at.                                       *)
Processing(f) ==
  /\ phase = "process" /\ calls # <<>>
  /\ LET call == Last(calls) IN
       /\ call.i <= Len(messages[call.msg].fields)
       /\ f = messages[call.msg].fields[call.i]

(* A plausible slip: the recursion does not ask what has been processed.   *)
MustProcessAlways(m) == m # Null /\ messages[m].defined

MustProcess(m) == m # Null /\ m \notin processed /\ messages[m].defined

ProcessType(f) ==
  /\ Processing(f) /\ MustProcess(f.to)
  /\ Len(calls) < MaxDepth
  /\ EnterMessage(f.to)
  /\ UNCHANGED <<program, options, parsing, schemas, enums, pending, generation>>

(* A plausible slip: the number of fields is not checked.                  *)
PairComplaintUnsized(fields, layout) ==
  IF layout # "fixed" THEN "pair layout" ELSE None

(* The entries of a map are pairs.                                         *)
PairComplaint(fields, layout) ==
  CASE layout # "fixed" -> "pair layout"
    [] Len(fields) # 2 -> "pair size"
    [] fields[1].deprecated \/ ~(IsScalar(fields[1].type) \/ fields[1].type = "string") -> "pair key"
    [] OTHER -> None

CompleteField(f) ==
  /\ Processing(f) /\ ~MustProcess(f.to)
  /\ calls' = [calls EXCEPT ![Len(calls)].i = @ + 1]
  /\ IF f.assoc
       THEN LET complaint == PairComplaint(messages[f.to].fields, messages[f.to].layout)
            IN  /\ messages' = [messages EXCEPT ![f.to].pair = TRUE]
                /\ IF complaint = None THEN UNCHANGED <<phase, error>> ELSE Reject(complaint)
       ELSE UNCHANGED <<messages, phase, error>>
  /\ UNCHANGED <<program, options, parsing, schemas, enums, pending, processed, generation>>

ProcessReturn ==
  /\ phase = "process" /\ calls # <<>>
  /\ Last(calls).i > Len(messages[Last(calls).msg].fields)
  /\ calls' = Front(calls)
  /\ UNCHANGED <<program, options, parsing, ir, phase, error, pending, processed, generation>>

-----------------------------------------------------------------------------
(* Generation, in the order of dependencies (util.cpp): depth first, what  *)
(* something refers to comes before it.                                    *)

Enter(n) == used' = used \cup {n} /\ walk' = Append(walk, n)

(* The first of s that has not been visited.                               *)
IsNext(n, s) == \E i \in DOMAIN s : n = s[i] /\ n \notin used /\ \A j \in 1 .. i - 1 : s[j] \in used

OrderSchemas ==
  /\ phase = "process" /\ calls = <<>> /\ pending = {}
  /\ phase' = "order"
  /\ UNCHANGED <<program, options, parsing, ir, error, processing, generation>>

VisitSchema(file) ==
  /\ phase = "order" /\ file \notin used
  /\ file \in (IF walk = <<>> THEN DOMAIN schemas ELSE schemas[Last(walk)].deps)
  /\ Enter(file)
  /\ UNCHANGED <<program, options, parsing, ir, phase, error, processing, order, output>>

SchemaVisited ==
  /\ phase = "order" /\ walk # <<>> /\ schemas[Last(walk)].deps \subseteq used
  /\ order' = Append(order, Last(walk)) /\ walk' = Front(walk)
  /\ UNCHANGED <<program, options, parsing, ir, phase, error, processing, used, output>>

SchemasOrdered ==
  /\ phase = "order" /\ walk = <<>> /\ DOMAIN schemas \subseteq used
  /\ phase' = "generate" /\ used' = {}
  /\ UNCHANGED <<program, options, parsing, ir, error, processing, order, walk, output>>

(* A plausible slip: messages are taken as they were registered.           *)
ReferencesNone(m) == <<>>

(* The messages of m's own schema its fields refer to.                     *)
References(m) ==
  LET to == [i \in DOMAIN messages[m].fields |-> messages[m].fields[i].to]
  IN  Only(to, {i \in DOMAIN to : to[i] # Null /\ File(to[i]) = File(m)})

Generating == phase = "generate" /\ order # <<>>

VisitMessage(m) ==
  /\ Generating /\ schemas[Head(order)].defined
  /\ IsNext(m, IF walk = <<>> THEN schemas[Head(order)].messages ELSE References(Last(walk)))
  /\ Enter(m)
  /\ UNCHANGED <<program, options, parsing, ir, phase, error, processing, order, output>>

MessageVisited ==
  /\ Generating /\ walk # <<>> /\ Range(References(Last(walk))) \subseteq used
  /\ output' = Append(output, Last(walk)) /\ walk' = Front(walk)
  /\ UNCHANGED <<program, options, parsing, ir, phase, error, processing, order, used>>

MessagesOrdered ==
  Generating /\ walk = <<>> /\ Range(schemas[Head(order)].messages) \subseteq used

(* There is no base class for a message whose layout is LAYOUT_UNKNOWN.    *)
HasUnknownLayout(file) == \E m \in Range(schemas[file].messages) : messages[m].layout = "unknown"

GenerationThrows ==
  /\ MessagesOrdered /\ schemas[Head(order)].defined /\ HasUnknownLayout(Head(order))
  /\ Reject("unknown message layout")
  /\ UNCHANGED <<program, options, parsing, ir, processing, generation>>

(* A schema without definitions is passed over.                            *)
SchemaGenerated ==
  /\ Generating /\ walk = <<>>
  /\ schemas[Head(order)].defined => MessagesOrdered /\ ~HasUnknownLayout(Head(order))
  /\ order' = Tail(order) /\ used' = {}
  /\ UNCHANGED <<program, options, parsing, ir, phase, error, processing, walk, output>>

Finish ==
  /\ phase = "generate" /\ order = <<>>
  /\ phase' = "done"
  /\ UNCHANGED <<program, options, parsing, ir, error, processing, generation>>

-----------------------------------------------------------------------------
Init ==
  /\ FrontEndInit
  /\ pending = {} /\ processed = {} /\ calls = <<>>
  /\ order = <<>> /\ used = {} /\ walk = <<>> /\ output = <<>>

Next ==
  \/ Parse /\ UNCHANGED <<processing, generation>>
  \/ ProcessSchemas
  \/ \E m \in Message : ProcessNext(m)
  \/ \E m \in DOMAIN messages : \E f \in Range(messages[m].fields) :
       ProcessType(f) \/ CompleteField(f)
  \/ ProcessReturn
  \/ OrderSchemas \/ SchemaVisited \/ SchemasOrdered
  \/ \E file \in DOMAIN schemas : VisitSchema(file)
  \/ \E m \in DOMAIN messages : VisitMessage(m)
  \/ MessageVisited \/ GenerationThrows \/ SchemaGenerated \/ Finish

(* The compiler is a sequential program: it takes its next step.           *)
Spec == Init /\ [][Next]_vars /\ WF_vars(Next)
-----------------------------------------------------------------------------
(* The IR is well formed at every step: definitions refer to registered    *)
(* ones, what is deprecated refers to nothing (proto_front.cpp:309-388,    *)
(* 475-493).                                                               *)
TypeOK ==
  /\ \A file \in DOMAIN schemas : schemas[file].deps \subseteq DOMAIN schemas \ {file}
  /\ \A e \in enums : EnumFile[e] \in DOMAIN schemas
  /\ \A m \in DOMAIN messages :
       /\ m \in Range(schemas[File(m)].messages)
       /\ \A f \in Range(messages[m].fields) :
            /\ f.to \in DOMAIN messages \cup {Null}
            /\ f.deprecated <=> f.name = None
            /\ f.deprecated => f.to = Null /\ f.type # "enum"
            /\ f.type = "message" /\ ~f.deprecated => f.to # Null
  /\ processed \subseteq DOMAIN messages /\ pending \subseteq DOMAIN messages
  /\ phase \in {"parse", "check", "process", "order", "generate", "done", "rejected"}
  /\ phase = "rejected" <=> error # None

(* Both recursions end, whatever refers to whatever: compilation succeeds  *)
(* or is refused (proto_front.cpp:276-312, ir_processor.cpp:55-60, 145-154).*)
Terminates == <>(phase \in {"done", "rejected"})

(* What starts leads to.                                                   *)
Closure(start, leads) ==
  LET closed == {S \in SUBSET Message : start \subseteq S /\ \A m \in S : leads[m] \subseteq S}
  IN {m \in Message : \A S \in closed : m \in S}

Kept(m) == Selected(m) /\ ~Empty(m)

Traversed(m) ==
  {n \in Range(D(m).nested) : ~D(n).map}
    \cup IF Kept(m) /\ IsTarget(File(m)) THEN {f.type : f \in Range(Collected(m))} \cap Message
                                         ELSE {}

(* However messages nest and refer to each other, every message that is    *)
(* kept is defined once and in full: no field and no nested message is     *)
(* lost or repeated because its message was met again while it was open    *)
(* (proto_front.cpp:276-388).                                              *)
EveryMessageOnce ==
  phase \in {"check", "done"} =>
    /\ DOMAIN messages = {m \in Closure(Range(program.roots), [m \in Message |-> Traversed(m)]) : Kept(m)}
    /\ \A m \in DOMAIN messages :
         LET fields == messages[m].fields
             live == {i \in DOMAIN fields : ~fields[i].deprecated}
             kept == {f \in Range(Collected(m)) : f.type \in Message => Kept(f.type)}
             registered == schemas[File(m)].messages
         IN  /\ \E i \in DOMAIN registered : \A j \in DOMAIN registered : registered[j] = m <=> j = i
             /\ messages[m].defined = IsTarget(File(m))
             /\ messages[m].nested = Only(D(m).nested, {i \in DOMAIN D(m).nested : LET n == D(m).nested[i] IN ~D(n).map /\ Kept(n)})
             /\ {fields[i].name : i \in live} = IF messages[m].defined THEN {f.name : f \in kept} ELSE {}
             /\ \A i, j \in live : fields[i].name = fields[j].name => i = j

(* What the processor asserts of the IR and of itself holds of whatever    *)
(* the front end builds: nothing is processed twice, numbered twice, or    *)
(* defined in an undefined schema (ir_processor.cpp:46-79, 106-108,        *)
(* 165-170).                                                               *)
AssertionsHold ==
  error \notin {"processed more than once", "definition status", "active index",
               "pair layout", "pair key"}

(* In a layout of field sizes the fields are 1, 2, ... without gap or      *)
(* repetition, whatever numbers, overrides, deprecated and reserved fields *)
(* they come from, and up to the documented number of fields they do not   *)
(* overlap although places are kept in 16 bits; the readers index by id    *)
(* (ir_processor.cpp:72-79, 83, 137-138, ir.cpp:240-247, limits.md:13).    *)
StaticLayoutsDense ==
  phase = "done" =>
    \A m \in DOMAIN messages :
      LET fields == messages[m].fields
      IN messages[m].layout \in {"flat", "fixed"} =>
           \A i \in DOMAIN fields :
             /\ fields[i].id = i
             /\ Len(fields) <= FieldLimit => \A j \in 1 .. i - 1 :
                  fields[j].offset + InlineSize(fields[j].type) <= fields[i].offset

(* Exactly the entries of maps are pairs, and a pair has a key and a value *)
(* although an ignored value type takes its field away                     *)
(* (ir_processor.cpp:156-173, proto_front.cpp:331-334).                    *)
PairsWellFormed ==
  phase = "done" =>
    \A m \in DOMAIN messages :
      LET associated == \E n \in DOMAIN messages : \E f \in Range(messages[n].fields) :
                          f.assoc /\ f.to = m
      IN  /\ messages[m].pair <=> associated
          /\ associated => D(m).map /\ Len(messages[m].fields) = 2
                             /\ messages[m].fields[1].active = 1

(* A definition comes after those its fields refer to, unless they refer   *)
(* to each other; a type of a schema that is not generated is included,    *)
(* and nothing is generated twice (util.cpp:5-62, cpp_gen.cpp:318-325,     *)
(* 397-402).                                                               *)
DefinedBeforeUse ==
  LET refers(m) == {f.to : f \in Range(messages[m].fields)} \ {Null}
      near(m) == {n \in refers(m) : File(n) = File(m)}
      place(m) == CHOOSE i \in DOMAIN output : output[i] = m
  IN phase = "done" =>
       /\ IsInjective(output)
       /\ Range(output) = {m \in DOMAIN messages : messages[m].defined}
       /\ \A m \in Range(output) : \A n \in refers(m) :
            \/ n \in Range(output) /\ place(n) < place(m)
            \/ File(n) = File(m) /\ m \in Closure({n}, [x \in Message |-> IF x \in DOMAIN messages THEN near(x) ELSE {}])
            \/ File(n) \in schemas[File(m)].deps /\ ~schemas[File(n)].defined

(* "[deprecated = true] keeps the field in the schema but hides it from    *)
(* the generated YaFF interfaces.  This leaves YaFF with more information  *)
(* about the field, so all layouts remain available" (overview.md:76): a   *)
(* message whose fields have the ids 1, 2, ... by their markup is not      *)
(* refused for gaps because some of them are deprecated                    *)
(* (proto_front.cpp:141-152).                                              *)
DeprecationKeepsLayouts ==
  error = "gaps" /\ options.slice = "" =>
    \E m \in processed :
      /\ messages[m].layout \in {"flat", "fixed"}
      /\ {FieldId(f, "") : f \in Range(D(m).fields)} # 1 .. Len(D(m).fields)
=============================================================================
