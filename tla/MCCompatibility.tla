-------------------------- MODULE MCCompatibility --------------------------
(* Messages that refer to each other, for Compatibility.                   *)
EXTENDS Compatibility

Widths == [none |-> 0, int32 |-> 4, enum |-> 4, int64 |-> 8, array |-> 4, message |-> 4]
Numbers == {"int32", "enum", "int64"}

Plain(is, default, to) == [is |-> is, default |-> default, to |-> to, of |-> <<>>]
Number == Plain("int32", "", Null)
To(m) == Plain("message", "", m)
Array(type) == [Plain("array", "", Null) EXCEPT !.of = <<type>>]

Types ==
  {Number, Plain("int32", "7", Null), Plain("int64", "", Null), Plain("none", "", Null),
   To("A"), To("B"), Array(To("B"))}

Of(layout, types) ==
  [layout |-> layout,
   fields |-> [i \in DOMAIN types |-> [id |-> i, type |-> types[i], deprecated |-> FALSE]]]

FirstVersions ==
  {[A |-> Of("dynamic", <<To("B"), Array(To("B"))>>), B |-> Of("flat", <<Plain("int32", "7", Null), To("A")>>)]}
=============================================================================
