----------------------------- MODULE Evolution -----------------------------
(***************************************************************************)
(* A message type through the versions of its schema.  Data written under  *)
(* one version is stored, and read by programs compiled from any other one *)
(* that is still running.  The changes are those the documentation of the  *)
(* schema evolution (docs/schema/evolution.md) lets a team make, as far as *)
(* the compiler accepts the result (ir_processor.cpp, proto_front.cpp);    *)
(* the data is what the generated serializers write (cpp_gen.cpp) in the   *)
(* bytes of FlatCodec, a sparse message being its map from ids to values,  *)
(* whose bytes are the subject of Serializer.                              *)
(***************************************************************************)
EXTENDS FlatCodec

CONSTANTS Scalars,        \* the types IsScalar holds for
          Schemas,        \* the first versions
          NewTypes,       \* the types of fields added later
          Patterns,       \* the values of a type
          Generalized,    \* the static layouts that become dynamic
          MaxVersions     \* bound: the number of changes

FieldDef == [type : Type, live : BOOLEAN]
Schema == [layout : {"flat", "sparse", "dynamic"},
           fields : UNION {[ids -> FieldDef] : ids \in SUBSET Field}]

(* IRProcessor::ProcessMessage rejects gaps in layouts of field sizes.     *)
Compiles(s) == IsGapMessage(s) => s.layout \notin {"flat", "fixed"}

ASSUME EvolutionAssumption ==
  /\ \A s \in Schemas : s \in Schema /\ Compiles(s)
  /\ \A id \in Field : Default[id] \notin NonFinite    \* no C++ literal is generated for one
  /\ Scalars \subseteq Type /\ NewTypes \subseteq Type
  /\ Patterns \in [Type -> SUBSET Value]
  /\ Generalized \subseteq {"flat", "sparse"} /\ MaxVersions \in Nat

VARIABLES schema,   \* the version new code is compiled from
          readers,  \* earlier versions that are still running
          used,     \* every field number ever assigned
          written,  \* the stored message, or Nothing
          changes   \* how often the schema has changed

vars == <<schema, readers, used, written, changes>>

Nothing == [form |-> "none"]

-----------------------------------------------------------------------------
(* What CheckIRCompatibility, the subject of Compatibility, takes for the  *)
(* same type.                                                              *)
CheckBaseType(t, u) == t = u \/ ({t, u} \subseteq Scalars /\ Width[t] = Width[u])

-----------------------------------------------------------------------------
(* Changes of the schema.                                                  *)

Publish(s) ==
  /\ changes < MaxVersions
  /\ Compiles(s)
  /\ schema' = s
  /\ readers' = readers \cup {schema}
  /\ changes' = changes + 1
  /\ UNCHANGED written

(* Numbers are never used again.                                           *)
AddField(id, type) ==
  /\ id \notin used
  /\ Publish([schema EXCEPT !.fields =
                 [f \in Ids(schema) \cup {id} |->
                    IF f = id THEN [type |-> type, live |-> TRUE] ELSE schema.fields[f]]])
  /\ used' = used \cup {id}

(* deprecated, or a reserved field that keeps its type.                    *)
Deprecate(id) ==
  /\ id \in Live(schema)
  /\ Publish([schema EXCEPT !.fields[id].live = FALSE])
  /\ UNCHANGED used

(* reserved without a type, or deleted: SkipTypeReserved.                  *)
Delete(id) ==
  /\ id \in Ids(schema)
  /\ Publish([schema EXCEPT !.fields = Restrict(schema.fields, Ids(schema) \ {id})])
  /\ UNCHANGED used

(* Signed to unsigned and back.                                            *)
ChangeType(id, type) ==
  /\ id \in Live(schema) /\ type # schema.fields[id].type
  /\ {type, schema.fields[id].type} \cap Floats = {}
  /\ CheckBaseType(schema.fields[id].type, type)
  /\ Publish([schema EXCEPT !.fields[id].type = type])
  /\ UNCHANGED used

(* Static back to dynamic, once every static reader is gone.               *)
Generalize ==
  /\ schema.layout \in Generalized
  /\ changes < MaxVersions
  /\ schema' = [schema EXCEPT !.layout = "dynamic"]
  /\ readers' = {} /\ changes' = changes + 1
  /\ UNCHANGED <<used, written>>

-----------------------------------------------------------------------------
(* Writing, with the generated serializer of the current version.          *)

(* GenerateByMessageLayout.                                                *)
Forms(s) ==
  CASE s.layout = "flat" -> {"flat"}
    [] s.layout = "sparse" -> {"sparse"}
    [] s.layout = "dynamic" -> {"sparse"} \cup IF IsGapMessage(s) THEN {} ELSE {"flat"}

(* What a client may add to the fields of ids.                             *)
Additions(ids) ==
  LET patterns(id) == Patterns[schema.fields[id].type]
  IN  {added \in [ids -> UNION {patterns(id) : id \in ids}] :
         \A id \in ids : added[id] \in patterns(id)}

Stored(s, added, expl) ==
  Restrict(added, {id \in DOMAIN added :
                     expl \/ ~IsEqual(s.fields[id].type, added[id], Default[id])})

(* A plausible slip: a dynamic message is written without its sizes.       *)
WriteUnsized(form, added, expl) ==
  /\ form = "flat"
  /\ written' = [form |-> form, by |-> schema, added |-> added, expl |-> expl,
                 bytes |-> Encode(schema, added, expl, FALSE)]
  /\ UNCHANGED <<schema, readers, used, changes>>

Write(form, added, expl) ==
  /\ written' = [form |-> form, by |-> schema, added |-> added, expl |-> expl,
                 bytes |-> IF form = "flat"
                             THEN Encode(schema, added, expl, schema.layout = "dynamic")
                             ELSE Stored(schema, added, expl)]
  /\ UNCHANGED <<schema, readers, used, changes>>

-----------------------------------------------------------------------------
(* Reading: DynamicMessage tells the two representations apart.            *)

Read(s, w, id) ==
  IF w.form = "flat" THEN ReadValue(s, w.bytes, id)
  ELSE IF id \in DOMAIN w.bytes THEN w.bytes[id] ELSE Default[id]

Has(s, w, id) ==
  IF w.form = "flat" THEN ReadPresence(s, w.bytes, id) ELSE id \in DOMAIN w.bytes

-----------------------------------------------------------------------------
Init ==
  /\ schema \in Schemas
  /\ readers = {} /\ used = Ids(schema)
  /\ written = Nothing /\ changes = 0

Next ==
  \/ \E id \in Field, t \in NewTypes : AddField(id, t)
  \/ \E id \in Field : Deprecate(id)
  \/ \E id \in Field : Delete(id)
  \/ \E id \in Field, t \in Type : ChangeType(id, t)
  \/ Generalize
  \/ /\ written = Nothing
     /\ \E ids \in SUBSET Live(schema) :
          \E added \in Additions(ids), form \in Forms(schema), expl \in BOOLEAN :
            Write(form, added, expl)

Spec == Init /\ [][Next]_vars

-----------------------------------------------------------------------------
(* Every schema compiles, and what is stored are bytes (message.h:108-310, *)
(* ir_processor.cpp:59-165).                                               *)
TypeOK ==
  /\ \A s \in readers \cup {schema} : Compiles(s) /\ Ids(s) \subseteq used
  /\ used \subseteq Field
  /\ changes \in 0 .. MaxVersions
  /\ written.form \in {"none", "flat", "sparse"}
  /\ written.form = "flat" =>
       /\ \A k \in DOMAIN written.bytes.meta : written.bytes.meta[k] \in Byte
       /\ \A o \in DOMAIN written.bytes.data : written.bytes.data[o] \in Value

(* In the stored message w, read by programs of version s, a field has the *)
(* value it was written with, the bits themselves unless an implicit       *)
(* writer dropped a value that is equal to the default, and a field the    *)
(* writer did not add is absent.                                           *)
FieldReadsBack(s, w, id, value, present) ==
  LET set == id \in DOMAIN w.added
      same == set /\ IsEqual(w.by.fields[id].type, w.added[id], Default[id])
  IN  /\ value = IF set /\ (w.expl \/ ~same) THEN w.added[id] ELSE Default[id]
      /\ present = (set /\ (w.expl \/ ~same))

ReadsBack(s, w) ==
  \A id \in Live(s) : FieldReadsBack(s, w, id, Read(s, w, id), Has(s, w, id))

(* Forward and backward compatibility: whatever documented changes lie     *)
(* between a writer and a reader, in either order, the reader reads what   *)
(* was written (message.h:108-310, 404-500, serializer.h:563-726,          *)
(* ir_processor.cpp:80-143, cpp_gen.cpp:1921-1938).                        *)
EveryReaderReads ==
  written # Nothing => \A s \in readers \cup {schema} : ReadsBack(s, written)

(* A program that knows the message by its descriptor only reads the same: *)
(* the resolver made at run time agrees with the compiled one on data of   *)
(* every version (reflect.h:123-131, any_message.h:61-95).                 *)
EveryVisitorReads ==
  written.form = "flat" =>
    \A s \in readers \cup {schema} : \A id \in Live(s) :
      FieldReadsBack(s, written, id, AnyReadValue(s, written.bytes, id),
                     AnyReadPresence(s, written.bytes, id))

(* A reader corrects an offset for deleted fields only where the sizes of  *)
(* the fields were written: no explicit dynamic check is needed because    *)
(* "in this mode, we always write Sized data" (message.h:246-253).         *)
CorrectionsAreSized ==
  written.form = "flat" =>
    \A s \in readers \cup {schema} :
      \A id \in Live(s) :
        id < written.bytes.maxId /\ ~IsStatic(s, id) => written.bytes.sized

(* With an explicit writer every AddField records the field as set,        *)
(* whatever its value (support.md:37, serializer.h:649-675, 711-726).      *)
ExplicitRecorded ==
  written.form = "flat" /\ written.expl =>
    \A id \in DOMAIN written.added : ReadPresence(written.by, written.bytes, id)
=============================================================================
