---------------------------- MODULE MCConversion ----------------------------
(* A small schema for Conversion: every kind of field in messages of every *)
(* layout, nested, repeated and in maps.                                   *)
EXTENDS Conversion

ScalarField(default, explicit) ==
  [is |-> "scalar", live |-> TRUE, explicit |-> explicit, default |-> default]
StringField(explicit) == [is |-> "string", live |-> TRUE, explicit |-> explicit]
ScalarsField == [is |-> "scalars", live |-> TRUE, explicit |-> FALSE]
StringsField == [is |-> "strings", live |-> TRUE, explicit |-> FALSE]
MessageField(t) == [is |-> "message", live |-> TRUE, explicit |-> TRUE, of |-> t]
MessagesField(t) == [is |-> "messages", live |-> TRUE, explicit |-> FALSE, of |-> t]
MapField(t) == [is |-> "map", live |-> TRUE, explicit |-> FALSE, of |-> t]
Deprecated(field) == [field EXCEPT !.live = FALSE]

TypeOf(layout, fields) == [layout |-> layout, fields |-> fields, oneof |-> {}]

MCTypes == [
  Leaf |-> TypeOf("dynamic", <<ScalarField(1, TRUE)>>),
  Item |-> TypeOf("fixed", <<ScalarField(1, FALSE), StringField(FALSE)>>),
  Gap  |-> TypeOf("dynamic", 2 :> ScalarField(0, FALSE) @@ 3 :> StringField(FALSE)),
  Count |-> TypeOf("fixed", <<StringField(FALSE), ScalarField(0, FALSE)>>),
  Entry |-> TypeOf("fixed", <<ScalarField(0, FALSE), MessageField("Leaf")>>),
  Tree |-> TypeOf("dynamic", <<ScalarField(0, FALSE), MessagesField("Item"),
                               MapField("Count")>>),
  List |-> TypeOf("flat", <<MessagesField("Leaf"), StringsField, MessageField("Gap")>>),
  Book |-> TypeOf("sparse", 1 :> MapField("Entry") @@ 2 :> MessageField("Item")
                            @@ 4 :> ScalarsField),
  Choice |-> [TypeOf("dynamic", <<Deprecated(ScalarField(0, FALSE)), ScalarField(0, TRUE),
                                  StringField(TRUE), MessageField("Leaf")>>)
                EXCEPT !.oneof = {2, 3, 4}]]

(* The messages that have a value of options[id] at id, or none.           *)
AnyOf(options) ==
  FoldSet(LAMBDA id, acc : acc \cup {(id :> x) @@ v : x \in options[id], v \in acc},
          {Empty}, DOMAIN options)

(* Two Booleans need no name.                                              *)
Leaves == AnyOf(<<{0, 1}>>)
Items == AnyOf(<<{0}, {<<1>>}>>)
Gaps == AnyOf(2 :> {1} @@ 3 :> {<<1>>})

MapsOf(keys, values) == UNION {[K -> values] : K \in (SUBSET keys) \ {{}}}
Full == <<0, <<1>>>>
ItemLists == {<<i>> : i \in Items} \cup {<<i, Full>> : i \in Items \ {Full}}
LeafLists == {<<l>> : l \in Leaves} \cup {<<1 :> 0, 1 :> 1>>, <<1 :> 1, Empty>>}

ShortKeys == {<<>>, <<1>>, <<0, 1>>}

MCProtos ==
  [t \in DOMAIN MCTypes |->
     CASE t = "Tree" -> AnyOf(<<{1}, ItemLists, MapsOf(ShortKeys, {1})>>)
       [] t = "List" -> AnyOf(<<LeafLists, {<<<<1>>, <<1>>>>, <<<<>>>>}, Gaps>>)
       [] t = "Book" -> AnyOf(1 :> MapsOf({0, 1}, Leaves) @@ 2 :> {Full} @@ 4 :> {<<1, 0>>})
       [] t = "Choice" -> AnyOf(2 :> {0, 1}) \cup AnyOf(3 :> {<<>>, <<1>>})
                          \cup AnyOf(4 :> Leaves)
       [] OTHER -> {}]
=============================================================================
