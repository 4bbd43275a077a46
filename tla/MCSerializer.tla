---------------------------- MODULE MCSerializer ----------------------------
(* Values for the constants of Serializer that a cfg cannot write.         *)
EXTENDS Serializer

DefaultOne == [id \in Field |-> id % 2]
MCRefFields == {2}
ShortStrings == {<<1>>}
TwoStrings == {<<>>, <<1>>}
ShortVectors == {<<1, 0>>}
NoSequences == {}
=============================================================================
