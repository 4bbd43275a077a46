----------------------------- MODULE MCCompiler -----------------------------
(* Programs for Compiler: one family varies what refers to what, one how   *)
(* the fields of one message are numbered, marked up and retired, and one  *)
(* has as many fields as FieldLimit or more, in layouts of all kinds.      *)
EXTENDS Compiler

CONSTANTS Shapes, Numberings, Wide  \* whether a family is taken

MCEnumFile == ("Kind" :> "f" @@ "Color" :> "f" @@ "Level" :> "lib")

Field(name, number, type) ==
  [name |-> name, number |-> number, type |-> type, repeated |-> FALSE,
   deprecated |-> FALSE, oneof |-> None, options |-> <<>>]

Plain(fields) ==
  [file |-> "f", map |-> FALSE, nested |-> <<>>, enums |-> {}, fields |-> fields,
   options |-> <<>>, reserved |-> <<>>]

Option(slice, ignore, layout, reserved) ==
  [slice |-> slice, ignore |-> ignore, layout |-> layout, reserved |-> reserved]

(* A holds B and the entries E of a map, C stands beside it, L in a library. *)
Shape(a, a2, b, c, e, ignored) ==
  LET marked(m, desc) ==
        IF m = ignored THEN [desc EXCEPT !.options = <<Option("", TRUE, "dynamic", <<>>)>>] ELSE desc
      flat(desc) == [desc EXCEPT !.options = <<Option("", FALSE, "flat", <<>>)>>]
      second == [Field("y", 2, a2) EXCEPT !.repeated = a2 = "E"]
  IN [roots |-> <<"A", "C">>, enums |-> {"Color"},
      messages |->
        "A" :> [flat(Plain(<<Field("x", 1, a), second>>)) EXCEPT
                  !.nested = IF a2 = "E" THEN <<"B", "E">> ELSE <<"B">>, !.enums = {"Kind"}]
        @@ "B" :> marked("B", Plain(<<Field("b", 1, b)>>))
        @@ "C" :> marked("C", Plain(IF c = None THEN <<>> ELSE <<Field("c", 1, c)>>))
        @@ "L" :> marked("L", [Plain(<<Field("l", 1, "double")>>) EXCEPT !.file = "lib"])
        @@ IF a2 = "E"
             THEN "E" :> [Plain(<<Field("key", 1, "string"), Field("value", 2, e)>>) EXCEPT !.map = TRUE]
             ELSE <<>>]

ShapePrograms ==
  {Shape(a, a2, b, c, e, ignored) :
     a \in {"B", "C"}, a2 \in {"E", "A", "Level"}, b \in {"A", "C", "Kind"},
     c \in {None, "B", "L"}, e \in {"C", "int32"}, ignored \in {None, "B", "C"}}

(* One message of three fields, the third of number 3 or 4; the other one  *)
(* may be reserved.                                                        *)
Numbering(d1, d2, d3, number3, id3, slices, marks, reserved) ==
  [roots |-> <<"A">>, enums |-> {},
   messages |->
     "A" :> [Plain(<<[Field("x", 1, "int32") EXCEPT
                        !.deprecated = d1, !.oneof = "o", !.options = slices],
                     [Field("y", 2, "string") EXCEPT !.deprecated = d2],
                     [Field("z", number3, "Color") EXCEPT
                        !.deprecated = d3, !.options = <<[slice |-> "", id |-> id3]>>]>>)
               EXCEPT !.options = marks, !.reserved = reserved]]

NumberingPrograms ==
  {Numbering(d1, d2, d3, z[1], z[2], slices, marks, IF gap THEN <<7 - z[1]>> ELSE <<>>) :
     d1 \in BOOLEAN, d2 \in BOOLEAN, d3 \in BOOLEAN, z \in {<<3, 0>>, <<4, 0>>, <<4, 2>>, <<4, 3>>},
     slices \in {<<>>, <<[slice |-> "s", id |-> 2]>>,
                <<[slice |-> "", id |-> 0], [slice |-> "", id |-> 1]>>},
     marks \in {<<Option("", FALSE, "flat", <<>>)>>,
                 <<Option("s", FALSE, "fixed", <<>>), Option("", FALSE, "dynamic", <<>>)>>,
                 <<Option("s", FALSE, "flat", <<[id |-> 3, type |-> "enum", repeated |-> FALSE]>>)>>},
     gap \in BOOLEAN}

FieldNames == <<"a", "b", "c", "d", "e", "f">>

WidePrograms ==
  {[roots |-> <<"A">>, enums |-> {},
    messages |-> "A" :> [Plain([i \in 1 .. n |-> Field(FieldNames[i], i, "double")])
                           EXCEPT !.options = <<Option("", FALSE, layout, <<>>)>>]] :
     n \in {FieldLimit, FieldLimit + 2}, layout \in {"flat", "fixed", "dynamic", "unknown"}}

Options(slice, targets, skipEmpty, skipReserved, fillGaps) ==
  [slice |-> slice, targets |-> targets, skipEmpty |-> skipEmpty,
   skipReserved |-> skipReserved, fillGaps |-> fillGaps]

MCInputs ==
  (IF Shapes
     THEN [program : ShapePrograms,
           options : {Options("", targets, skip, TRUE, FALSE) : targets \in {{}, {"f"}}, skip \in BOOLEAN}]
     ELSE {})
  \cup
  (IF Numberings
     THEN [program : NumberingPrograms,
           options : {Options(slice, {"f"}, FALSE, skip, fill) :
                        slice \in {"", "s"}, skip \in BOOLEAN, fill \in BOOLEAN}]
     ELSE {})
  \cup
  (IF Wide THEN [program : WidePrograms, options : {Options("", {"f"}, FALSE, FALSE, FALSE)}] ELSE {})
=============================================================================
