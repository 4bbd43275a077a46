---------------------------- MODULE MCDualBuffer ----------------------------
(* A small DualBuffer: strings of one and two bytes over {0, 1}, a block   *)
(* of at most MCSizeMax bytes (the code's own overflow test bounds it).    *)
EXTENDS DualBuffer

MCByte == {0, 1}
MCData == {<<1>>, <<0, 1>>}
=============================================================================
