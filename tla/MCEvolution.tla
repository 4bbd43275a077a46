---------------------------- MODULE MCEvolution ----------------------------
(* Small schemas for Evolution.  Two bits tell the values apart: {} is     *)
(* zero, and for a float {0} is -0.0 and {1} infinity.                     *)
EXTENDS Evolution, TLC

Widths == [bool |-> 1, int32 |-> 4, uint32 |-> 4, int64 |-> 8, float |-> 4]
Numbers == DOMAIN Widths
Bits == {{}, {0}, {1}, {0, 1}}
PatternsOf == [t \in DOMAIN Widths |-> IF t = "float" THEN {{}, {0}, {1}} ELSE {{}, {0}}]
Zeros == {<<{}, {0}>>, <<{0}, {}>>}
NonFinitePatterns == {{1}}
AllOnes == 0 .. 7

DefaultMixed == [id \in Field |-> IF id % 2 = 0 THEN {0} ELSE {}]

Fields(types) == [id \in DOMAIN types |-> [type |-> types[id], live |-> TRUE]]
Of(layout, types) == [layout |-> layout, fields |-> Fields(types)]

(* Every correction, sizes on both sides of a byte of metadata, and a      *)
(* message with a gap from the start.                                      *)
DynamicSchemas ==
  {Of("dynamic", <<"bool", "int64", "int32", "bool">>),
   Of("dynamic", <<"int32", "bool", "int64", "int32">>),
   Of("dynamic", <<"float", "bool", "float">>),
   Of("dynamic", 1 :> "int64" @@ 4 :> "bool")}
StaticSchemas ==
  {Of("flat", <<"bool", "int64", "int32">>), Of("sparse", 2 :> "int32" @@ 3 :> "bool")}
FirstSchemas == DynamicSchemas \cup StaticSchemas
=============================================================================
