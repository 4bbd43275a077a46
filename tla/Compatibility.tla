--------------------------- MODULE Compatibility ---------------------------
(***************************************************************************)
(* CheckIRCompatibility (ir_compat.cpp) as Compile calls it (compiler.cpp) *)
(* for every version of a schema but the first.  CheckMessage, CheckField  *)
(* and CheckTypes recurse into the types of fields; the open calls of      *)
(* CheckMessage are an explicit stack.  A version maps the name of every   *)
(* message to its layout and to its fields by id.  All messages are of     *)
(* target files, and their names differ.                                   *)
(***************************************************************************)
EXTENDS Integers, SequencesExt, FiniteSetsExt

CONSTANTS MaxField,     \* the largest field id
          Width,        \* the inline size of every base type
          FieldOffsetMod, \* how many values a FieldOffset has, 2^16
          Scalars,      \* the base types IsScalar holds for
          FieldTypes,   \* the types fields are declared with
          Layouts,      \* the layouts messages are declared with
          Null,         \* no message
          First,        \* the first versions
          MaxVersions,  \* bound: the versions after the first
          MaxDepth      \* bound: the open calls of CheckMessage

Field == 1 .. MaxField

VARIABLES history,    \* the versions accepted so far, without the last
          base,       \* the version the next one is compared with
          patched,    \* the version Compile is given
          pending,    \* messages the loop over the table has not reached
          checked,    \* CheckedMessages_
          calls,      \* the open calls of CheckMessage
          critical,   \* HasCriticalErrors_
          reused,     \* the fields reported as COMPAT_DEPRECATED_REMOVE
          phase

vars == <<history, base, patched, pending, checked, calls, critical, reused, phase>>

versions == <<history, base, patched>>

(* The accepted versions.                                                  *)
accepted == history \o <<base>> \o IF phase = "accepted" THEN <<patched>> ELSE <<>>

-----------------------------------------------------------------------------
(* The IR of a version.  A type is its base type, its default ("" if there *)
(* is none), the message it refers to, and the type of its elements.       *)

FieldDef == [id : Field, type : FieldTypes, deprecated : BOOLEAN]
MessageDef == [layout : Layouts, fields : Seq(FieldDef)]

(* RegisterDeprecatedFieldType keeps the size of a field and no more.      *)
Retired(type) ==
  [is |-> IF type.is = "enum" THEN "int32" ELSE type.is,
   default |-> "", to |-> Null, of |-> <<>>]

(* The fields of a message with the offsets ProcessMessage gives them.     *)
OffsetOf(fields, i) ==
  MapThenSumSet(LAMBDA j : Width[fields[j].type.is], 1 .. i - 1) % FieldOffsetMod

FieldAt(fields, i) ==
  [id |-> fields[i].id, deprecated |-> fields[i].deprecated, offset |-> OffsetOf(fields, i),
   type |-> IF fields[i].deprecated THEN Retired(fields[i].type) ELSE fields[i].type]

(* What the front end and ProcessIR accept: fields in the order of their   *)
(* ids, no gap in a layout of field sizes, and the messages referred to;   *)
(* only reserved fields have no type.                                      *)
Known(type, v) ==
  /\ type.to \in (DOMAIN v) \cup {Null}
  /\ type.of # <<>> => type.of[1].to \in (DOMAIN v) \cup {Null}

Compiles(v) ==
  \A m \in DOMAIN v :
    LET fields == v[m].fields
    IN  /\ v[m] \in MessageDef
        /\ \A i \in DOMAIN fields : \A j \in DOMAIN fields : i < j => fields[i].id < fields[j].id
        /\ v[m].layout \in {"flat", "fixed"} => \A i \in DOMAIN fields : fields[i].id = i
        /\ \A i \in DOMAIN fields :
             /\ Known(fields[i].type, v)
             /\ fields[i].type.is = "none" => fields[i].deprecated

ASSUME CompatibilityAssumption ==
  /\ MaxField \in Nat /\ MaxVersions \in Nat /\ MaxDepth \in Nat /\ FieldOffsetMod \in Nat \ {0}
  /\ \A v \in First : Compiles(v)

(* A version that differs from v in one field, one layout, or a message.   *)
Redeclared(fields) ==
  LET at(id) == {i \in DOMAIN fields : fields[i].id = id}
      below(id) == {i \in DOMAIN fields : fields[i].id < id}
  IN  {RemoveAt(fields, i) : i \in DOMAIN fields}
      \cup {ReplaceAt(fields, CHOOSE i \in at(f.id) : TRUE, f) : f \in {g \in FieldDef : at(g.id) # {}}}
      \cup {InsertAt(fields, Cardinality(below(f.id)) + 1, f) : f \in {g \in FieldDef : at(g.id) = {}}}

Revised(v) ==
  (UNION {{[v EXCEPT ![m].fields = fields] : fields \in Redeclared(v[m].fields)} : m \in DOMAIN v})
  \cup {[v EXCEPT ![m].layout = layout] : m \in DOMAIN v, layout \in Layouts}
  \cup {Restrict(v, DOMAIN v \ {m}) : m \in DOMAIN v}

Revisions(v) == {u \in Revised(v) : u # v /\ Compiles(u)}

-----------------------------------------------------------------------------
(* The comparison of two fields.                                           *)

CheckBaseType(b, p) == b = p \/ ({b, p} \subseteq Scalars /\ Width[b] = Width[p])

(* The types CheckTypes compares: those of the fields, then of their       *)
(* elements, which are not arrays themselves.                              *)
Compared(b, p) ==
  {<<b, p>>} \cup IF b.is = "array" /\ b.of # <<>> /\ p.of # <<>>
                    THEN {<<b.of[1], p.of[1]>>} ELSE {}

(* The messages it goes on with, one pair at most.                         *)
Nested(b, p) ==
  {<<t[1].to, t[2].to>> : t \in {u \in Compared(b, p) :
                                   u[1].is = "message" /\ u[1].to # Null /\ u[2].to # Null}}

FieldFault(b, p) ==
  \/ b.offset # p.offset
  \/ \E t \in Compared(b.type, p.type) :
       \/ ~p.deprecated /\ t[1].default # t[2].default
       \/ ~CheckBaseType(t[1].is, t[2].is)

(* The fields of a pair of messages that are compared: by their place.     *)
Common(pair) == (DOMAIN base[pair[1]].fields) \cap (DOMAIN patched[pair[2]].fields)
BaseField(pair, i) == FieldAt(base[pair[1]].fields, i)
PatchedField(pair, i) == FieldAt(patched[pair[2]].fields, i)

LayoutFault(pair) == base[pair[1]].layout # patched[pair[2]].layout

-----------------------------------------------------------------------------
(* Compile with a base version.  A plausible slip: the pairs of the last   *)
(* check are remembered.                                                   *)
ProposeRemembering(v) ==
  /\ phase \in {"idle", "accepted"} /\ Len(accepted) <= MaxVersions
  /\ history' = Front(accepted) /\ base' = patched /\ patched' = v
  /\ pending' = DOMAIN base'
  /\ calls' = <<>>
  /\ critical' = FALSE /\ phase' = "check"
  /\ UNCHANGED <<reused, checked>>

Propose(v) ==
  /\ phase \in {"idle", "accepted"} /\ Len(accepted) <= MaxVersions
  /\ history' = Front(accepted) /\ base' = patched /\ patched' = v
  /\ pending' = DOMAIN base'
  /\ checked' = {} /\ calls' = <<>>
  /\ critical' = FALSE /\ phase' = "check"
  /\ UNCHANGED reused

(* Plausible slips: CheckMessage remembers nothing, or only the message of *)
(* the base version.                                                       *)
UncheckedAlways(pairs) == pairs

UncheckedBase(pairs) == {p \in pairs : \A c \in checked : c[1] # p[1]}

Unchecked(pairs) == pairs \ checked

(* CheckMessage of pairs, one at most, from calls: fault is what its       *)
(* caller has found.                                                       *)
CheckMessage(pairs, open, fault) ==
  LET new == Unchecked(pairs) IN
  /\ Len(open) < MaxDepth
  /\ checked' = checked \cup new
  /\ critical' = (critical \/ fault \/ \E p \in new : LayoutFault(p))
  /\ \/ new = {} /\ calls' = open
     \/ \E p \in new : calls' = Append(open, [pair |-> p, i |-> 1])

(* The loop of Check; a removed message is a warning.                      *)
CheckNext(m) ==
  /\ phase = "check" /\ calls = <<>> /\ m \in pending
  /\ pending' = pending \ {m}
  /\ CheckMessage({<<m, m>>} \cap ((DOMAIN base) \X (DOMAIN patched)), calls, FALSE)
  /\ UNCHANGED <<versions, reused, phase>>

(* A plausible slip: the last common field is left out.                    *)
CheckingButLast ==
  /\ phase = "check" /\ calls # <<>>
  /\ Last(calls).i + 1 \in Common(Last(calls).pair)

Checking ==
  /\ phase = "check" /\ calls # <<>>
  /\ Last(calls).i \in Common(Last(calls).pair)

(* YAFF_REQUIRE of equal ids.                                              *)
CheckThrows ==
  /\ Checking
  /\ LET call == Last(calls) IN BaseField(call.pair, call.i).id # PatchedField(call.pair, call.i).id
  /\ phase' = "threw"
  /\ UNCHANGED <<versions, pending, checked, calls, critical, reused>>

CheckField ==
  /\ Checking
  /\ LET call == Last(calls)
         b == BaseField(call.pair, call.i)
         p == PatchedField(call.pair, call.i)
     IN  /\ b.id = p.id
         /\ CheckMessage(Nested(b.type, p.type),
                         [calls EXCEPT ![Len(calls)].i = @ + 1], FieldFault(b, p))
         /\ reused' = reused \cup IF b.deprecated /\ ~p.deprecated
                                    THEN {<<call.pair[1], b.id>>} ELSE {}
  /\ UNCHANGED <<versions, pending, phase>>

CheckReturn ==
  /\ phase = "check" /\ calls # <<>> /\ ~Checking
  /\ calls' = Front(calls)
  /\ UNCHANGED <<versions, pending, checked, critical, reused, phase>>

(* Compile throws if the verdict is bad, and generates code otherwise.     *)
Verdict ==
  /\ phase = "check" /\ calls = <<>> /\ pending = {}
  /\ phase' = IF critical THEN "refused" ELSE "accepted"
  /\ UNCHANGED <<versions, pending, checked, calls, critical, reused>>

-----------------------------------------------------------------------------
Init ==
  /\ history = <<>> /\ base \in First /\ patched = base
  /\ pending = {} /\ checked = {} /\ calls = <<>>
  /\ critical = FALSE /\ reused = {} /\ phase = "idle"

Check ==
  \/ \E m \in pending : CheckNext(m)
  \/ CheckThrows
  \/ CheckField
  \/ CheckReturn
  \/ Verdict

Next == (\E v \in Revisions(patched) : Propose(v)) \/ Check

(* The check is a sequential function; nobody has to write a new version.  *)
Spec == Init /\ [][Next]_vars /\ WF_vars(Check)

-----------------------------------------------------------------------------
(* Versions compile, and only their messages are compared                  *)
(* (ir_compat.cpp:48-80).                                                  *)
TypeOK ==
  /\ \A k \in DOMAIN accepted : Compiles(accepted[k])
  /\ Compiles(base) /\ Compiles(patched)
  /\ pending \subseteq DOMAIN base
  /\ checked \subseteq (DOMAIN base) \X (DOMAIN patched)
  /\ calls \in Seq([pair : checked, i : Nat])
  /\ critical \in BOOLEAN
  /\ phase \in {"idle", "check", "threw", "refused", "accepted"}

(* Remembering the pairs that were met cuts the recursion short, never the *)
(* verdict: when the check ends, every message of both versions and every  *)
(* pair of messages that common fields of a compared pair refer to has     *)
(* been compared, and an error was found exactly if a pair or two of its   *)
(* fields do not fit (ir_compat.cpp:48-128).                               *)
PairFits(pair) ==
  /\ ~LayoutFault(pair)
  /\ \A i \in Common(pair) : ~FieldFault(BaseField(pair, i), PatchedField(pair, i))

VerdictIsComplete ==
  phase \in {"refused", "accepted"} =>
    /\ \A m \in DOMAIN base \cap DOMAIN patched : <<m, m>> \in checked
    /\ \A pair \in checked : \A i \in Common(pair) :
         Nested(BaseField(pair, i).type, PatchedField(pair, i).type) \subseteq checked
    /\ phase = "accepted" <=> \A pair \in checked : PairFits(pair)

(* Between any two accepted versions a live field keeps its place, its     *)
(* size and its default, unless a version between them has dropped it or   *)
(* the check has reported its id as used again (ir_compat.cpp:76-128).     *)
SameRepresentation(a, b) ==
  /\ a.offset = b.offset /\ a.type.default = b.type.default
  /\ CheckBaseType(a.type.is, b.type.is)

Has(v, m, id) ==
  m \in DOMAIN v /\ \E i \in DOMAIN v[m].fields : v[m].fields[i].id = id

LiveFields(v, m) ==
  IF m \notin DOMAIN v THEN {}
  ELSE {f \in {FieldAt(v[m].fields, i) : i \in DOMAIN v[m].fields} : ~f.deprecated}

ChangedOnlyWithNotice ==
  \A j, k \in DOMAIN accepted : j < k =>
    \A m \in DOMAIN accepted[j] :
      \A a \in LiveFields(accepted[j], m), b \in LiveFields(accepted[k], m) :
        a.id = b.id =>
          \/ SameRepresentation(a, b)
          \/ <<m, a.id>> \in reused
          \/ \E v \in j .. k : ~Has(accepted[v], m, a.id)

(* The recursion ends although messages refer to each other                *)
(* (ir_compat.cpp:61-64).                                                  *)
Terminates == phase = "check" ~> phase # "check"

(* Adding and removing fields of a dynamic message is documented as safe   *)
(* (evolution.md:13), so the check accepts it (ir_compat.cpp:60-99).       *)
SafeChange(m) ==
  /\ base[m].layout = "dynamic" /\ patched[m].layout = "dynamic"
  /\ \A f \in Range(base[m].fields), g \in Range(patched[m].fields) : f.id = g.id => f = g

SafeChangesAccepted ==
  phase \in {"threw", "refused"} =>
    \E m \in DOMAIN base \cap DOMAIN patched : base[m] # patched[m] /\ ~SafeChange(m)
=============================================================================
