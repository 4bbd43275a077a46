----------------------------- MODULE TwoStacks -----------------------------
(***************************************************************************)
(* What DualBuffer promises its only client, the serializer: two byte      *)
(* stacks that share an allocation without ever disturbing each other, and *)
(* the contents of the right one handed over when it is detached.          *)
(*                                                                         *)
(* The right stack is indexed by the library's offsets: r[k] is the byte   *)
(* RightDataAt(k) points at, so growth of the block never moves an offset. *)
(* After a failed allocation (broken) nothing is promised until the block  *)
(* is dropped by Reset or by a detach.                                     *)
(***************************************************************************)
EXTENDS Naturals, Sequences, SequencesExt

CONSTANTS Data,     \* the byte strings a client may push
          Byte      \* the values of a byte

VARIABLES l,        \* the left stack, bottom first
          r,        \* the right stack by offset: r[1] is the last byte
          out,      \* what the last right detach handed over, by offset
          broken    \* an allocation has failed since the block was taken

vars == <<l, r, out, broken>>

Init == l = <<>> /\ r = <<>> /\ out = <<>> /\ broken = FALSE

LeftPush(d) ==
  /\ ~broken
  /\ l' = l \o d
  /\ UNCHANGED <<r, out, broken>>

LeftPop(n) ==
  /\ ~broken
  /\ n <= Len(l)
  /\ l' = SubSeq(l, 1, Len(l) - n)
  /\ UNCHANGED <<r, out, broken>>

LeftClear ==
  /\ ~broken
  /\ l' = <<>>
  /\ UNCHANGED <<r, out, broken>>

(* memcpy puts d's last byte next to the previous top, hence Reverse.      *)
RightPush(d) ==
  /\ ~broken
  /\ r' = r \o Reverse(d)
  /\ UNCHANGED <<l, out, broken>>

RightPop(n) ==
  /\ ~broken
  /\ n <= Len(r)
  /\ r' = SubSeq(r, 1, Len(r) - n)
  /\ UNCHANGED <<l, out, broken>>

RightClear ==
  /\ ~broken
  /\ r' = <<>>
  /\ UNCHANGED <<l, out, broken>>

RightWrite(k, b) ==
  /\ ~broken
  /\ k \in 1 .. Len(r)
  /\ r' = [r EXCEPT ![k] = b]
  /\ UNCHANGED <<l, out, broken>>

Clear ==
  /\ ~broken
  /\ l' = <<>> /\ r' = <<>>
  /\ UNCHANGED <<out, broken>>

Reset ==
  /\ l' = <<>> /\ r' = <<>> /\ broken' = FALSE
  /\ UNCHANGED out

RightDetach ==
  /\ l' = <<>> /\ r' = <<>> /\ broken' = FALSE
  /\ ~broken => out' = r

(* What LeftDetach hands over is the subject of a run of its own.          *)
LeftDetach ==
  /\ l' = <<>> /\ r' = <<>> /\ broken' = FALSE

(* The client sees std::bad_alloc from inside a push.                      *)
Fail ==
  /\ broken' = TRUE
  /\ l' = <<>> /\ r' = <<>>
  /\ UNCHANGED out

Next ==
  \/ \E d \in Data : LeftPush(d) \/ RightPush(d)
  \/ \E n \in 1 .. Len(l) : LeftPop(n)
  \/ \E n \in 1 .. Len(r) : RightPop(n)
  \/ \E k \in 1 .. Len(r), b \in Byte : RightWrite(k, b)
  \/ LeftClear \/ RightClear \/ Clear \/ Reset
  \/ RightDetach \/ LeftDetach \/ Fail

Spec == Init /\ [][Next]_vars
=============================================================================
