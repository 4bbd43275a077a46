----------------------- MODULE Compatibility_proofs -----------------------
(***************************************************************************)
(* Proofs that the verdict of the compatibility check is complete, and     *)
(* that between any two accepted versions a live field changes its         *)
(* representation only with notice: for any messages, types, layouts and   *)
(* versions.                                                               *)
(***************************************************************************)
EXTENDS Compatibility, TLAPS, FiniteSetTheorems, SequenceTheorems

(* A pair of messages, and an open call of CheckMessage about it.          *)
Pairs == (DOMAIN base) \X (DOMAIN patched)
Call == [pair : Pairs, i : Nat \ {0}]

(* A call of pair has still to come to field i.                            *)
Ahead(pair, i) == \E k \in DOMAIN calls : calls[k].pair = pair /\ calls[k].i <= i

AreChecked(cs) == \A k \in DOMAIN cs : cs[k].pair \in checked

(* The strengthening: what is missing of the verdict is ahead of the open  *)
(* calls, or of the loop over the messages.                                *)
TypeInv ==
  /\ Compiles(base) /\ Compiles(patched)
  /\ checked \subseteq Pairs /\ calls \in Seq(Call) /\ AreChecked(calls)
  /\ critical \in BOOLEAN
  /\ phase \in {"idle", "check", "threw", "refused", "accepted"}

RootsMet ==
  phase # "idle" =>
    \A m \in (DOMAIN base) \cap (DOMAIN patched) : m \in pending \/ <<m, m>> \in checked

NestedMet ==
  \A pair \in checked : \A i \in Common(pair) :
    \/ Nested(BaseField(pair, i).type, PatchedField(pair, i).type) \subseteq checked
    \/ Ahead(pair, i)

FaultsMet ==
  ~critical =>
    \A pair \in checked :
      /\ ~LayoutFault(pair)
      /\ \A i \in Common(pair) :
           ~FieldFault(BaseField(pair, i), PatchedField(pair, i)) \/ Ahead(pair, i)

FaultsReal == critical => \E pair \in checked : ~PairFits(pair)

Ended ==
  phase \in {"refused", "accepted"} =>
    calls = <<>> /\ pending = {} /\ (phase = "accepted" <=> ~critical)

IInv == TypeInv /\ RootsMet /\ NestedMet /\ FaultsMet /\ FaultsReal /\ Ended

-----------------------------------------------------------------------------
(* The fields two messages have in common are numbered from 1.             *)
LEMMA CommonNumbered ==
  ASSUME Compiles(base), Compiles(patched), NEW pair \in Pairs
  PROVE  \E n \in Nat : Common(pair) = 1 .. n
<1>1. /\ base[pair[1]].fields \in Seq(FieldDef)
      /\ patched[pair[2]].fields \in Seq(FieldDef)
  BY DEF Compiles, Pairs, MessageDef
<1>2. PICK n \in Nat : DOMAIN base[pair[1]].fields = 1 .. n
  <2>1. \A s \in Seq(FieldDef) : Len(s) \in Nat /\ DOMAIN s = 1 .. Len(s)
    OBVIOUS
  <2> QED
    BY <1>1, <2>1
<1>3. PICK k \in Nat : DOMAIN patched[pair[2]].fields = 1 .. k
  <2>1. \A s \in Seq(FieldDef) : Len(s) \in Nat /\ DOMAIN s = 1 .. Len(s)
    OBVIOUS
  <2> QED
    BY <1>1, <2>1
<1>4. Common(pair) = (1 .. n) \cap (1 .. k)
  BY <1>2, <1>3 DEF Common
<1>5. CASE n <= k
  BY <1>4, <1>5
<1>6. CASE k < n
  BY <1>4, <1>6
<1> QED
  BY <1>5, <1>6

(* The messages a field refers to are those of its version.                *)
LEMMA FieldRefers ==
  ASSUME NEW v, Compiles(v), NEW m \in DOMAIN v, NEW i \in DOMAIN v[m].fields
  PROVE  Known(FieldAt(v[m].fields, i).type, v)
<1>1. Known(v[m].fields[i].type, v)
  BY DEF Compiles
<1>2. Known(Retired(v[m].fields[i].type), v)
  BY DEF Known, Retired
<1> QED
  BY <1>1, <1>2 DEF FieldAt

LEMMA NestedArePairs ==
  ASSUME Compiles(base), Compiles(patched), NEW pair \in Pairs, NEW i \in Common(pair)
  PROVE  Nested(BaseField(pair, i).type, PatchedField(pair, i).type) \subseteq Pairs
<1> DEFINE b == BaseField(pair, i).type
           p == PatchedField(pair, i).type
<1>1. Known(b, base)
  BY FieldRefers DEF Pairs, Common, BaseField
<1>2. Known(p, patched)
  BY FieldRefers DEF Pairs, Common, PatchedField
<1> HIDE DEF b, p
<1>3. \A t \in Compared(b, p) :
        /\ t[1].to \in (DOMAIN base) \cup {Null}
        /\ t[2].to \in (DOMAIN patched) \cup {Null}
  BY <1>1, <1>2 DEF Compared, Known
<1>4. Nested(b, p) \subseteq Pairs
  BY <1>3 DEF Nested, Pairs
<1> QED
  BY <1>4 DEF b, p

AtMostOne(pairs) == \A p, q \in pairs : p = q

(* A field leads to one pair of messages at most.                          *)
LEMMA NestedOnce ==
  ASSUME NEW b, NEW p
  PROVE  AtMostOne(Nested(b, p))
<1>1. CASE b.is = "array"
  <2>1. \A t \in Compared(b, p) : t[1].is = "message" => t = <<b.of[1], p.of[1]>>
    BY <1>1 DEF Compared
  <2> QED
    BY <2>1 DEF Nested, AtMostOne
<1>2. CASE b.is # "array"
  <2>1. Compared(b, p) = {<<b, p>>}
    BY <1>2 DEF Compared
  <2> QED
    BY <2>1 DEF Nested, AtMostOne
<1> QED
  BY <1>1, <1>2

-----------------------------------------------------------------------------
(* What a call reads of two versions does not change while they stay.      *)
LEMMA VersionsStay ==
  ASSUME UNCHANGED versions
  PROVE  /\ Pairs' = Pairs /\ Call' = Call
         /\ Compiles(base)' = Compiles(base) /\ Compiles(patched)' = Compiles(patched)
         /\ \A pair : /\ Common(pair)' = Common(pair)
                      /\ LayoutFault(pair)' = LayoutFault(pair)
                      /\ PairFits(pair)' = PairFits(pair)
                      /\ \A i : /\ BaseField(pair, i)' = BaseField(pair, i)
                                /\ PatchedField(pair, i)' = PatchedField(pair, i)
<1>1. base' = base /\ patched' = patched
  BY DEF versions
<1>2. Pairs' = Pairs /\ Call' = Call
  BY <1>1 DEF Pairs, Call
<1>3. Compiles(base)' = Compiles(base) /\ Compiles(patched)' = Compiles(patched)
  BY <1>1
<1>4. ASSUME NEW pair
      PROVE  /\ Common(pair)' = Common(pair)
             /\ LayoutFault(pair)' = LayoutFault(pair)
             /\ \A i : /\ BaseField(pair, i)' = BaseField(pair, i)
                       /\ PatchedField(pair, i)' = PatchedField(pair, i)
  BY <1>1 DEF Common, LayoutFault, BaseField, PatchedField
<1>5. ASSUME NEW pair PROVE PairFits(pair)' = PairFits(pair)
  BY <1>4 DEF PairFits
<1> QED
  BY <1>2, <1>3, <1>4, <1>5

(* CheckMessage opens a call for a pair that was not met.                  *)
LEMMA CheckMessageOpens ==
  ASSUME TypeInv, UNCHANGED versions,
         NEW pairs \in SUBSET Pairs, AtMostOne(pairs),
         NEW open \in Seq(Call), AreChecked(open), NEW fault \in BOOLEAN,
         CheckMessage(pairs, open, fault)
  PROVE  /\ pairs \subseteq checked' /\ checked \subseteq checked'
         /\ checked' \subseteq Pairs /\ calls' \in Seq(Call)
         /\ AreChecked(calls)'
         /\ \A k \in DOMAIN open : k \in DOMAIN calls' /\ calls'[k] = open[k]
         /\ \A p \in checked' \ checked :
              \E k \in DOMAIN calls' : calls'[k].pair = p /\ calls'[k].i = 1
         /\ critical' = (critical \/ fault \/ \E p \in checked' \ checked : LayoutFault(p))
<1> DEFINE new == pairs \ checked
<1>1. checked' = checked \cup new
  BY DEF CheckMessage, Unchecked
<1>2. critical' = (critical \/ fault \/ \E p \in new : LayoutFault(p))
  BY DEF CheckMessage, Unchecked
<1>3. checked' \ checked = new
  BY <1>1
<1>4. checked' \subseteq Pairs
  BY <1>1 DEF TypeInv
<1>5. CASE new = {} /\ calls' = open
  BY <1>1, <1>2, <1>3, <1>4, <1>5 DEF AreChecked
<1>6. ASSUME NEW p \in new, calls' = Append(open, [pair |-> p, i |-> 1])
      PROVE  /\ calls' \in Seq(Call) /\ AreChecked(calls)'
             /\ \A k \in DOMAIN open : k \in DOMAIN calls' /\ calls'[k] = open[k]
             /\ \A q \in new : \E k \in DOMAIN calls' : calls'[k].pair = q /\ calls'[k].i = 1
  <2>1. [pair |-> p, i |-> 1] \in Call
    BY DEF Call
  <2>2. calls' \in Seq(Call) /\ Len(open) + 1 \in DOMAIN calls'
        /\ calls'[Len(open) + 1] = [pair |-> p, i |-> 1]
    BY <1>6, <2>1
  <2>3. \A k \in DOMAIN open : k \in DOMAIN calls' /\ calls'[k] = open[k]
    BY <1>6, <2>1
  <2>4. \A q \in new : q = p
    BY DEF AtMostOne
  <2>5. ASSUME NEW k \in DOMAIN calls' PROVE calls'[k].pair \in checked'
    <3>1. k \in DOMAIN open \/ k = Len(open) + 1
      BY <1>6, <2>1
    <3> QED
      BY <1>1, <2>2, <2>3, <3>1 DEF AreChecked
  <2> QED
    BY <2>2, <2>3, <2>4, <2>5 DEF AreChecked
<1>7. (new = {} /\ calls' = open) \/ \E p \in new : calls' = Append(open, [pair |-> p, i |-> 1])
  BY DEF CheckMessage, Unchecked
<1> HIDE DEF new
<1>8. \A p \in new : calls' = Append(open, [pair |-> p, i |-> 1]) =>
        /\ calls' \in Seq(Call) /\ AreChecked(calls)'
        /\ \A k \in DOMAIN open : k \in DOMAIN calls' /\ calls'[k] = open[k]
        /\ \A q \in new : \E k \in DOMAIN calls' : calls'[k].pair = q /\ calls'[k].i = 1
  BY <1>6
<1>9. pairs \subseteq checked'
  BY <1>1 DEF new
<1> QED
  BY <1>1, <1>2, <1>3, <1>4, <1>5, <1>7, <1>8, <1>9

(* Fields that were ahead of the calls are ahead of open, or lead to pairs *)
(* and have no fault but fault.                                            *)
GoesOn(open, pairs, fault) ==
  \A pair \in checked : \A i \in Common(pair) : Ahead(pair, i) =>
    \/ \E k \in DOMAIN open : open[k].pair = pair /\ open[k].i <= i
    \/ /\ Nested(BaseField(pair, i).type, PatchedField(pair, i).type) \subseteq pairs
       /\ FieldFault(BaseField(pair, i), PatchedField(pair, i)) => fault

IsReal(fault) == fault => \E pair \in checked : ~PairFits(pair)

(* What is kept and what is met when a call goes on from open: a field     *)
(* that is no longer ahead leads to pairs, and its fault is fault.         *)
LEMMA CheckMessageMeets ==
  ASSUME TypeInv, NestedMet, FaultsMet, FaultsReal,
         UNCHANGED versions, UNCHANGED phase,
         NEW pairs \in SUBSET Pairs, AtMostOne(pairs),
         NEW open \in Seq(Call), AreChecked(open), NEW fault \in BOOLEAN,
         CheckMessage(pairs, open, fault), GoesOn(open, pairs, fault), IsReal(fault)
  PROVE  TypeInv' /\ NestedMet' /\ FaultsMet' /\ FaultsReal'
<1> DEFINE NestedOf(pair, i) == Nested(BaseField(pair, i).type, PatchedField(pair, i).type)
           FaultOf(pair, i) == FieldFault(BaseField(pair, i), PatchedField(pair, i))
<1>1. /\ pairs \subseteq checked' /\ checked \subseteq checked'
      /\ checked' \subseteq Pairs /\ calls' \in Seq(Call) /\ AreChecked(calls)'
      /\ \A k \in DOMAIN open : k \in DOMAIN calls' /\ calls'[k] = open[k]
      /\ \A p \in checked' \ checked :
           \E k \in DOMAIN calls' : calls'[k].pair = p /\ calls'[k].i = 1
      /\ critical' = (critical \/ fault \/ \E p \in checked' \ checked : LayoutFault(p))
  BY CheckMessageOpens
<1>2. /\ Pairs' = Pairs /\ Call' = Call
      /\ Compiles(base)' = Compiles(base) /\ Compiles(patched)' = Compiles(patched)
  BY VersionsStay
<1>3. \A pair : /\ Common(pair)' = Common(pair)
                /\ LayoutFault(pair)' = LayoutFault(pair)
                /\ PairFits(pair)' = PairFits(pair)
                /\ \A i : /\ BaseField(pair, i)' = BaseField(pair, i)
                          /\ PatchedField(pair, i)' = PatchedField(pair, i)
  BY VersionsStay
<1>4. TypeInv'
  BY <1>1, <1>2 DEF TypeInv
<1>5. ASSUME NEW pair \in checked' \ checked, NEW i \in Common(pair)
      PROVE  Ahead(pair, i)'
  <2>1. i \in Nat /\ i >= 1
    BY <1>1, CommonNumbered DEF TypeInv
  <2> QED
    BY <1>1, <2>1 DEF Ahead
<1>6. ASSUME NEW pair \in checked, NEW i \in Common(pair), Ahead(pair, i)
      PROVE  Ahead(pair, i)' \/ (NestedOf(pair, i) \subseteq checked' /\ (FaultOf(pair, i) => fault))
  BY <1>1, <1>6 DEF Ahead, GoesOn
<1>7. NestedMet'
  <2>1. ASSUME NEW pair \in checked', NEW i \in Common(pair)
        PROVE  NestedOf(pair, i) \subseteq checked' \/ Ahead(pair, i)'
    BY <1>1, <1>5, <1>6 DEF NestedMet
  <2> QED
    BY <1>3, <2>1 DEF NestedMet
<1>8. FaultsMet'
  <2>1. SUFFICES ASSUME ~critical', NEW pair \in checked'
                 PROVE  /\ ~LayoutFault(pair)
                        /\ \A i \in Common(pair) : ~FaultOf(pair, i) \/ Ahead(pair, i)'
    BY <1>3, <2>1 DEF FaultsMet
  <2>2. ~critical /\ ~fault /\ \A p \in checked' \ checked : ~LayoutFault(p)
    BY <1>1, <2>1
  <2>3. ~LayoutFault(pair)
    BY <2>2 DEF FaultsMet
  <2>4. ASSUME NEW i \in Common(pair)
        PROVE  ~FaultOf(pair, i) \/ Ahead(pair, i)'
    BY <1>5, <1>6, <2>2 DEF FaultsMet
  <2> QED
    BY <2>3, <2>4
<1>9. FaultsReal'
  <2>1. SUFFICES ASSUME critical' PROVE \E pair \in checked' : ~PairFits(pair)
    BY <1>3, <2>1 DEF FaultsReal
  <2>2. CASE critical \/ fault
    BY <1>1, <2>2 DEF FaultsReal, IsReal
  <2>3. CASE \E p \in checked' \ checked : LayoutFault(p)
    BY <1>1, <2>3 DEF PairFits
  <2> QED
    BY <1>1, <2>1, <2>2, <2>3
<1> QED
  BY <1>4, <1>7, <1>8, <1>9

-----------------------------------------------------------------------------
(* The steps.                                                              *)

LEMMA CheckNextPreserves ==
  ASSUME IInv, NEW m \in pending, CheckNext(m)
  PROVE  IInv'
<1> DEFINE pairs == {<<m, m>>} \cap ((DOMAIN base) \X (DOMAIN patched))
<1>1. CheckMessage(pairs, calls, FALSE) /\ UNCHANGED versions /\ UNCHANGED phase
      /\ phase = "check" /\ pending' = pending \ {m}
  BY DEF CheckNext
<1>2. pairs \in SUBSET Pairs /\ AtMostOne(pairs)
  BY DEF Pairs, AtMostOne
<1>3. GoesOn(calls, pairs, FALSE) /\ IsReal(FALSE)
  BY DEF Ahead, GoesOn, IsReal
<1> HIDE DEF pairs
<1>4. TypeInv' /\ NestedMet' /\ FaultsMet' /\ FaultsReal'
  <2>1. TypeInv /\ NestedMet /\ FaultsMet /\ FaultsReal
    BY DEF IInv
  <2>2. calls \in Seq(Call) /\ AreChecked(calls)
    BY <2>1 DEF TypeInv
  <2> QED
    BY <1>1, <1>2, <1>3, <2>1, <2>2, CheckMessageMeets
<1>5. pairs \subseteq checked' /\ checked \subseteq checked'
  BY <1>1, <1>2, CheckMessageOpens DEF IInv, TypeInv
<1> USE DEF pairs
<1>6. RootsMet'
  <2>1. base' = base /\ patched' = patched
    BY <1>1 DEF versions
  <2>2. ASSUME NEW r \in (DOMAIN base) \cap (DOMAIN patched)
        PROVE  r \in pending' \/ <<r, r>> \in checked'
    <3>1. CASE r = m
      BY <1>5, <3>1
    <3>2. CASE r # m
      BY <1>1, <1>5, <3>2 DEF IInv, RootsMet
    <3> QED
      BY <3>1, <3>2
  <2> QED
    BY <2>1, <2>2 DEF RootsMet
<1>7. Ended'
  BY <1>1 DEF Ended
<1> QED
  BY <1>4, <1>6, <1>7 DEF IInv

LEMMA CheckFieldPreserves ==
  ASSUME IInv, CheckField
  PROVE  IInv'
<1> DEFINE call == calls[Len(calls)]
           b == BaseField(call.pair, call.i)
           p == PatchedField(call.pair, call.i)
           pairs == Nested(b.type, p.type)
           open == [calls EXCEPT ![Len(calls)].i = @ + 1]
           fault == FieldFault(b, p)
<1>1. /\ TypeInv /\ RootsMet /\ NestedMet /\ FaultsMet /\ FaultsReal
      /\ calls \in Seq(Call) /\ calls # <<>>
  BY DEF IInv, TypeInv, CheckField, Checking
<1>2. Last(calls) = call
  BY DEF Last
<1>3. /\ CheckMessage(pairs, open, fault) /\ call.i \in Common(call.pair)
      /\ UNCHANGED versions /\ UNCHANGED phase /\ UNCHANGED pending /\ phase = "check"
  BY <1>2 DEF CheckField, Checking
<1>4. Len(calls) \in DOMAIN calls /\ call \in Call
  BY <1>1
<1>5. /\ open \in Seq(Call) /\ DOMAIN open = DOMAIN calls
      /\ open[Len(calls)].pair = call.pair /\ open[Len(calls)].i = call.i + 1
      /\ \A k \in DOMAIN calls : k # Len(calls) => open[k] = calls[k]
  <2> DEFINE next == [call EXCEPT !.i = @ + 1]
  <2>1. next \in Call /\ next.pair = call.pair /\ next.i = call.i + 1
    BY <1>4 DEF Call
  <2>2. open = [calls EXCEPT ![Len(calls)] = next]
    OBVIOUS
  <2> HIDE DEF call, open, next
  <2>3. /\ open \in Seq(Call) /\ Len(open) = Len(calls)
        /\ \A k \in 1 .. Len(calls) : open[k] = IF k = Len(calls) THEN next ELSE calls[k]
    BY <1>1, <1>4, <2>1, <2>2, ExceptSeq, Len(calls) \in 1 .. Len(calls)
  <2> QED
    BY <1>1, <1>4, <2>1, <2>3
<1>6. call.pair \in checked /\ AreChecked(open)
  BY <1>1, <1>4, <1>5 DEF TypeInv, AreChecked
<1>7. call.pair \in Pairs /\ Compiles(base) /\ Compiles(patched)
  BY <1>1, <1>6 DEF TypeInv
<1>8. pairs \in SUBSET Pairs /\ AtMostOne(pairs)
  BY <1>3, <1>7, NestedArePairs, NestedOnce
<1>9. fault \in BOOLEAN
  BY DEF FieldFault
<1>10. IsReal(fault)
  BY <1>3, <1>6 DEF IsReal, PairFits
<1>11. GoesOn(open, pairs, fault)
  <2>1. SUFFICES ASSUME NEW pair \in checked, NEW i \in Common(pair),
                        NEW k \in DOMAIN calls, calls[k].pair = pair, calls[k].i <= i,
                        ~ \E j \in DOMAIN open : open[j].pair = pair /\ open[j].i <= i
                 PROVE  pair = call.pair /\ i = call.i
    BY <2>1 DEF GoesOn, Ahead
  <2>2. k = Len(calls)
    BY <1>5, <2>1
  <2>3. i \in Nat /\ call.i \in Nat
    BY <1>1, <1>4, <2>1, CommonNumbered DEF TypeInv, Call
  <2>4. pair = call.pair /\ call.i <= i /\ ~(call.i + 1 <= i)
    BY <1>4, <1>5, <2>1, <2>2
  <2> QED
    BY <2>3, <2>4
<1> HIDE DEF pairs, open, fault
<1>12. TypeInv' /\ NestedMet' /\ FaultsMet' /\ FaultsReal'
  BY <1>1, <1>3, <1>5, <1>6, <1>8, <1>9, <1>10, <1>11, CheckMessageMeets
<1>13. checked \subseteq checked'
  BY <1>1, <1>3, <1>5, <1>6, <1>8, <1>9, CheckMessageOpens
<1>14. RootsMet' /\ Ended'
  BY <1>1, <1>3, <1>13 DEF RootsMet, Ended, versions
<1> QED
  BY <1>12, <1>14 DEF IInv

LEMMA CheckReturnPreserves ==
  ASSUME IInv, CheckReturn
  PROVE  IInv'
<1> DEFINE call == calls[Len(calls)]
<1>1. /\ TypeInv /\ RootsMet /\ NestedMet /\ FaultsMet /\ FaultsReal
      /\ calls \in Seq(Call) /\ calls # <<>> /\ AreChecked(calls)
      /\ Compiles(base) /\ Compiles(patched)
  BY DEF IInv, TypeInv, CheckReturn
<1>2. Last(calls) = call
  BY DEF Last
<1>3. /\ calls' = Front(calls) /\ call.i \notin Common(call.pair)
      /\ UNCHANGED <<versions, pending, checked, critical, phase>> /\ phase = "check"
  BY <1>2 DEF CheckReturn, Checking
<1>4. Len(calls) \in DOMAIN calls /\ call \in Call /\ call.pair \in checked
  BY <1>1 DEF AreChecked
<1>5. calls' \in Seq(Call) /\ \A k \in DOMAIN calls : k # Len(calls) => k \in DOMAIN calls' /\ calls'[k] = calls[k]
  BY <1>1, <1>3 DEF Front
<1>6. \A k \in DOMAIN calls' : k \in DOMAIN calls /\ calls'[k] = calls[k]
  BY <1>1, <1>3 DEF Front
<1>7. ASSUME NEW pair \in checked, NEW i \in Common(pair), Ahead(pair, i)
      PROVE  Ahead(pair, i)'
  <2>1. PICK k \in DOMAIN calls : calls[k].pair = pair /\ calls[k].i <= i
    BY <1>7 DEF Ahead
  <2>2. k # Len(calls)
    <3>1. SUFFICES ASSUME k = Len(calls) PROVE FALSE
      OBVIOUS
    <3>2. pair = call.pair /\ call.i <= i /\ call.i \in Nat /\ call.i >= 1
      BY <1>4, <2>1, <3>1 DEF Call
    <3>3. PICK n \in Nat : Common(pair) = 1 .. n
      BY <1>1, CommonNumbered DEF TypeInv
    <3> QED
      BY <1>3, <3>2, <3>3
  <2> QED
    BY <1>5, <2>1, <2>2 DEF Ahead
<1>8. /\ Pairs' = Pairs /\ Call' = Call
      /\ Compiles(base)' = Compiles(base) /\ Compiles(patched)' = Compiles(patched)
  BY <1>3, VersionsStay
<1>9. \A pair : /\ Common(pair)' = Common(pair)
                /\ LayoutFault(pair)' = LayoutFault(pair)
                /\ PairFits(pair)' = PairFits(pair)
                /\ \A i : /\ BaseField(pair, i)' = BaseField(pair, i)
                          /\ PatchedField(pair, i)' = PatchedField(pair, i)
  BY <1>3, VersionsStay
<1>10. TypeInv'
  BY <1>1, <1>3, <1>5, <1>6, <1>8 DEF TypeInv, AreChecked
<1>11. NestedMet' /\ FaultsMet'
  BY <1>1, <1>3, <1>7, <1>9 DEF NestedMet, FaultsMet
<1>12. RootsMet' /\ FaultsReal' /\ Ended'
  BY <1>1, <1>3, <1>9 DEF RootsMet, FaultsReal, Ended, versions
<1> QED
  BY <1>10, <1>11, <1>12 DEF IInv

(* Steps that change nothing the open calls refer to: the end of the       *)
(* check, the exception, and stuttering.                                   *)
LEMMA QuietStepPreserves ==
  ASSUME IInv, UNCHANGED <<versions, pending, checked, calls, critical>>,
         phase # "idle" \/ phase' = "idle",
         phase' \in {"idle", "check", "threw", "refused", "accepted"},
         phase' \in {"refused", "accepted"} =>
           calls = <<>> /\ pending = {} /\ (phase' = "accepted" <=> ~critical)
  PROVE  IInv'
<1>1. UNCHANGED versions /\ base' = base /\ patched' = patched
      /\ checked' = checked /\ calls' = calls /\ critical' = critical
      /\ pending' = pending
  BY DEF versions
<1>2. /\ Pairs' = Pairs /\ Call' = Call
      /\ Compiles(base)' = Compiles(base) /\ Compiles(patched)' = Compiles(patched)
  BY <1>1, VersionsStay
<1>3. \A pair : /\ Common(pair)' = Common(pair)
                /\ LayoutFault(pair)' = LayoutFault(pair)
                /\ PairFits(pair)' = PairFits(pair)
                /\ \A i : /\ BaseField(pair, i)' = BaseField(pair, i)
                          /\ PatchedField(pair, i)' = PatchedField(pair, i)
  BY <1>1, VersionsStay
<1>4. TypeInv'
  BY <1>1, <1>2 DEF IInv, TypeInv, AreChecked
<1>5. \A pair, i : Ahead(pair, i)' = Ahead(pair, i)
  BY <1>1 DEF Ahead
<1>6. NestedMet' /\ FaultsMet'
  BY <1>1, <1>3, <1>5 DEF IInv, NestedMet, FaultsMet
<1>7. RootsMet' /\ FaultsReal' /\ Ended'
  BY <1>1, <1>3 DEF IInv, RootsMet, FaultsReal, Ended
<1> QED
  BY <1>4, <1>6, <1>7 DEF IInv

LEMMA ProposePreserves ==
  ASSUME IInv, NEW v \in Revisions(patched), Propose(v)
  PROVE  IInv'
<1>1. /\ base' = patched /\ patched' = v /\ pending' = DOMAIN patched
      /\ checked' = {} /\ calls' = <<>> /\ critical' = FALSE /\ phase' = "check"
  BY DEF Propose
<1>2. Compiles(patched) /\ Compiles(v)
  BY DEF IInv, TypeInv, Revisions
<1>3. Compiles(base)' /\ Compiles(patched)'
  BY <1>1, <1>2
<1>4. TypeInv'
  <2>1. calls' \in Seq(Call)' /\ \A k : k \notin DOMAIN calls'
    BY <1>1
  <2> QED
    BY <1>1, <1>3, <2>1 DEF TypeInv, AreChecked
<1>5. RootsMet' /\ NestedMet' /\ FaultsMet' /\ FaultsReal' /\ Ended'
  BY <1>1 DEF RootsMet, NestedMet, FaultsMet, FaultsReal, Ended
<1> QED
  BY <1>4, <1>5 DEF IInv

LEMMA InitEstablishes ==
  ASSUME Init
  PROVE  IInv
<1>1. Compiles(base) /\ Compiles(patched)
  BY CompatibilityAssumption DEF Init
<1>2. TypeInv
  <2>1. calls \in Seq(Call) /\ \A k : k \notin DOMAIN calls
    BY DEF Init
  <2> QED
    BY <1>1, <2>1 DEF Init, TypeInv, AreChecked
<1> QED
  BY <1>2 DEF Init, IInv, RootsMet, NestedMet, FaultsMet, FaultsReal, Ended

LEMMA StepPreserves ==
  ASSUME IInv, [Next]_vars
  PROVE  IInv'
<1>1. ASSUME NEW v \in Revisions(patched), Propose(v) PROVE IInv'
  BY <1>1, ProposePreserves
<1>2. ASSUME NEW m \in pending, CheckNext(m) PROVE IInv'
  BY <1>2, CheckNextPreserves
<1>3. CASE CheckThrows
  BY <1>3, QuietStepPreserves DEF CheckThrows, Checking
<1>4. CASE CheckField
  BY <1>4, CheckFieldPreserves
<1>5. CASE CheckReturn
  BY <1>5, CheckReturnPreserves
<1>6. CASE Verdict
  <2>1. critical \in BOOLEAN
    BY DEF IInv, TypeInv
  <2> QED
    BY <1>6, <2>1, QuietStepPreserves DEF Verdict
<1>7. CASE UNCHANGED vars
  BY <1>7, QuietStepPreserves DEF vars, versions, IInv, TypeInv, Ended
<1> QED
  BY <1>1, <1>2, <1>3, <1>4, <1>5, <1>6, <1>7 DEF Next, Check

(* With no call open and no message left, nothing is ahead any more.       *)
LEMMA InvariantSuffices == IInv => VerdictIsComplete
<1>1. SUFFICES ASSUME IInv, phase \in {"refused", "accepted"}
               PROVE  /\ \A m \in DOMAIN base \cap DOMAIN patched : <<m, m>> \in checked
                      /\ \A pair \in checked : \A i \in Common(pair) :
                           Nested(BaseField(pair, i).type, PatchedField(pair, i).type)
                             \subseteq checked
                      /\ phase = "accepted" <=> \A pair \in checked : PairFits(pair)
  BY <1>1 DEF VerdictIsComplete
<1>2. calls = <<>> /\ pending = {} /\ (phase = "accepted" <=> ~critical)
  BY <1>1 DEF IInv, Ended
<1>3. \A pair, i : ~Ahead(pair, i)
  BY <1>2 DEF Ahead
<1>4. \A m \in DOMAIN base \cap DOMAIN patched : <<m, m>> \in checked
  BY <1>1, <1>2 DEF IInv, RootsMet
<1>5. \A pair \in checked : \A i \in Common(pair) :
        Nested(BaseField(pair, i).type, PatchedField(pair, i).type) \subseteq checked
  BY <1>1, <1>3 DEF IInv, NestedMet
<1>6. ~critical => \A pair \in checked : PairFits(pair)
  BY <1>1, <1>3 DEF IInv, FaultsMet, PairFits
<1>7. critical => \E pair \in checked : ~PairFits(pair)
  BY <1>1 DEF IInv, FaultsReal
<1> QED
  BY <1>2, <1>4, <1>5, <1>6, <1>7

(* The compatibility check looks at every pair of messages it has to, once *)
(* each however messages refer to each other, and refuses a version exactly *)
(* if one of them does not fit (ir_compat.cpp:48-128).                     *)
THEOREM VerdictCorrect == Spec => []VerdictIsComplete
<1>1. Init => IInv
  BY InitEstablishes
<1>2. IInv /\ [Next]_vars => IInv'
  BY StepPreserves
<1>3. IInv => VerdictIsComplete
  BY InvariantSuffices
<1> QED
  BY <1>1, <1>2, <1>3, PTL DEF Spec

-----------------------------------------------------------------------------
(* All versions.  The verdict compares a version with the one before it    *)
(* only; that this is enough for any two takes what it has compared, field *)
(* by field.                                                               *)

(* A field that is behind the open calls has the same id on both sides,    *)
(* and was reported if it has come back to life.                           *)
Met(pair, i) ==
  LET b == BaseField(pair, i)
      p == PatchedField(pair, i)
  IN  b.id = p.id /\ (b.deprecated /\ ~p.deprecated => <<pair[1], b.id>> \in reused)

FieldsMet == \A pair \in checked : \A i \in Common(pair) : Met(pair, i) \/ Ahead(pair, i)

(* The versions before base.                                               *)
HistoryInv ==
  /\ history \in Seq(Range(history))
  /\ \A k \in DOMAIN history : Compiles(history[k])
  /\ phase = "idle" => history = <<>> /\ patched = base
  /\ pending \subseteq DOMAIN base

HInv == IInv /\ FieldsMet /\ HistoryInv /\ ChangedOnlyWithNotice

-----------------------------------------------------------------------------
(* A step of the check leaves nothing behind but the field it compares.    *)
Behind(pair, i) == pair \in checked /\ ~Ahead(pair, i)

LEMMA CheckMessageLeavesBehind ==
  ASSUME TypeInv, UNCHANGED versions,
         NEW pairs \in SUBSET Pairs, AtMostOne(pairs),
         NEW open \in Seq(Call), AreChecked(open), NEW fault \in BOOLEAN,
         CheckMessage(pairs, open, fault),
         NEW pair \in checked', NEW i \in Common(pair), ~Ahead(pair, i)'
  PROVE  /\ pair \in checked
         /\ ~ \E k \in DOMAIN open : open[k].pair = pair /\ open[k].i <= i
<1>1. /\ \A k \in DOMAIN open : k \in DOMAIN calls' /\ calls'[k] = open[k]
      /\ \A p \in checked' \ checked :
           \E k \in DOMAIN calls' : calls'[k].pair = p /\ calls'[k].i = 1
      /\ checked' \subseteq Pairs
  BY CheckMessageOpens
<1>2. i \in Nat /\ i >= 1
  BY <1>1, CommonNumbered DEF TypeInv
<1> QED
  BY <1>1, <1>2 DEF Ahead

LEMMA CheckNextLeavesBehind ==
  ASSUME IInv, NEW m \in pending, CheckNext(m),
         NEW pair \in checked', NEW i \in Common(pair), ~Ahead(pair, i)'
  PROVE  Behind(pair, i)
<1> DEFINE pairs == {<<m, m>>} \cap ((DOMAIN base) \X (DOMAIN patched))
<1>1. CheckMessage(pairs, calls, FALSE) /\ UNCHANGED versions
  BY DEF CheckNext
<1>2. pairs \in SUBSET Pairs /\ AtMostOne(pairs)
  BY DEF Pairs, AtMostOne
<1> HIDE DEF pairs
<1>3. TypeInv /\ calls \in Seq(Call) /\ AreChecked(calls)
  BY DEF IInv, TypeInv
<1>4. /\ pair \in checked
      /\ ~ \E k \in DOMAIN calls : calls[k].pair = pair /\ calls[k].i <= i
  BY <1>1, <1>2, <1>3, CheckMessageLeavesBehind
<1> QED
  BY <1>4 DEF Behind, Ahead

LEMMA CheckReturnLeavesBehind ==
  ASSUME IInv, CheckReturn, NEW pair \in checked', NEW i \in Common(pair), ~Ahead(pair, i)'
  PROVE  Behind(pair, i)
<1> DEFINE call == calls[Len(calls)]
<1>1. calls \in Seq(Call) /\ calls # <<>> /\ Compiles(base) /\ Compiles(patched) /\ AreChecked(calls)
      /\ checked \subseteq Pairs
  BY DEF IInv, TypeInv, CheckReturn
<1>2. Last(calls) = call
  BY DEF Last
<1>3. calls' = Front(calls) /\ call.i \notin Common(call.pair) /\ checked' = checked /\ phase = "check"
  BY <1>2 DEF CheckReturn, Checking
<1>4. Len(calls) \in DOMAIN calls /\ call \in Call /\ call.pair \in checked
  BY <1>1 DEF AreChecked
<1>5. \A k \in DOMAIN calls : k # Len(calls) => k \in DOMAIN calls' /\ calls'[k] = calls[k]
  BY <1>1, <1>3 DEF Front
<1>6. SUFFICES ASSUME Ahead(pair, i) PROVE FALSE
  BY <1>3 DEF Behind
<1>7. PICK k \in DOMAIN calls : calls[k].pair = pair /\ calls[k].i <= i
  BY <1>6 DEF Ahead
<1>8. k = Len(calls)
  BY <1>5, <1>7 DEF Ahead
<1>9. pair = call.pair /\ call.i <= i /\ call.i \in Nat /\ call.i >= 1
  BY <1>4, <1>7, <1>8 DEF Call
<1>10. PICK n \in Nat : Common(pair) = 1 .. n
  BY <1>1, <1>3, CommonNumbered
<1> QED
  BY <1>3, <1>9, <1>10

LEMMA CheckFieldLeavesBehind ==
  ASSUME IInv, CheckField, NEW pair \in checked', NEW i \in Common(pair), ~Ahead(pair, i)'
  PROVE  \/ Behind(pair, i)
         \/ pair = calls[Len(calls)].pair /\ i = calls[Len(calls)].i
<1> DEFINE call == calls[Len(calls)]
           b == BaseField(call.pair, call.i)
           p == PatchedField(call.pair, call.i)
           pairs == Nested(b.type, p.type)
           next == [call EXCEPT !.i = @ + 1]
           open == [calls EXCEPT ![Len(calls)].i = @ + 1]
           fault == FieldFault(b, p)
<1>1. TypeInv /\ calls \in Seq(Call) /\ calls # <<>> /\ AreChecked(calls)
      /\ Compiles(base) /\ Compiles(patched) /\ checked \subseteq Pairs
  BY DEF IInv, TypeInv, CheckField, Checking
<1>2. Last(calls) = call
  BY DEF Last
<1>3. CheckMessage(pairs, open, fault) /\ call.i \in Common(call.pair) /\ UNCHANGED versions
  BY <1>2 DEF CheckField, Checking
<1>4. Len(calls) \in 1 .. Len(calls) /\ DOMAIN calls = 1 .. Len(calls) /\ call \in Call
      /\ call.pair \in checked /\ call.pair \in Pairs
  BY <1>1 DEF AreChecked
<1>5. next \in Call /\ next.pair = call.pair /\ next.i = call.i + 1 /\ call.i \in Nat
  BY <1>4 DEF Call
<1>6. open = [calls EXCEPT ![Len(calls)] = next]
  OBVIOUS
<1>7. pairs \in SUBSET Pairs /\ AtMostOne(pairs)
  BY <1>1, <1>3, <1>4, NestedArePairs, NestedOnce
<1>8. fault \in BOOLEAN
  BY DEF FieldFault
<1> HIDE DEF call, next, open, pairs, fault
<1>9. /\ open \in Seq(Call) /\ Len(open) = Len(calls)
      /\ \A k \in 1 .. Len(calls) : open[k] = IF k = Len(calls) THEN next ELSE calls[k]
  BY <1>1, <1>4, <1>5, <1>6, ExceptSeq
<1>10. DOMAIN open = DOMAIN calls
  BY <1>1, <1>9
<1>11. AreChecked(open)
  BY <1>1, <1>4, <1>5, <1>9, <1>10 DEF AreChecked
<1>12. /\ pair \in checked
       /\ ~ \E k \in DOMAIN open : open[k].pair = pair /\ open[k].i <= i
  BY <1>1, <1>3, <1>7, <1>8, <1>9, <1>11, CheckMessageLeavesBehind
<1>13. SUFFICES ASSUME Ahead(pair, i) PROVE pair = call.pair /\ i = call.i
  BY <1>12 DEF Behind, call
<1>14. PICK k \in DOMAIN calls : calls[k].pair = pair /\ calls[k].i <= i
  BY <1>13 DEF Ahead
<1>15. k = Len(calls)
  BY <1>4, <1>9, <1>10, <1>12, <1>14
<1>16. pair = call.pair /\ call.i <= i /\ ~(call.i + 1 <= i)
  BY <1>4, <1>5, <1>9, <1>10, <1>12, <1>14, <1>15 DEF call
<1>17. i \in Nat
  BY <1>1, <1>12, CommonNumbered
<1> QED
  BY <1>5, <1>16, <1>17

(* Steps that change neither the versions nor what is behind.              *)
LEMMA FieldsStayMet ==
  ASSUME FieldsMet, UNCHANGED versions, reused \subseteq reused',
         \A pair \in checked' : \A i \in Common(pair) :
           Ahead(pair, i)' \/ Behind(pair, i) \/ Met(pair, i)'
  PROVE  FieldsMet'
<1>1. \A pair : /\ Common(pair)' = Common(pair)
                /\ \A i : /\ BaseField(pair, i)' = BaseField(pair, i)
                          /\ PatchedField(pair, i)' = PatchedField(pair, i)
  BY VersionsStay
<1>2. \A pair, i : Met(pair, i) => Met(pair, i)'
  BY <1>1 DEF Met
<1>3. \A pair \in checked' : \A i \in Common(pair) : Ahead(pair, i)' \/ Met(pair, i)'
  BY <1>2 DEF FieldsMet, Behind
<1> QED
  BY <1>1, <1>3 DEF FieldsMet

LEMMA CheckStepMeets ==
  ASSUME IInv, FieldsMet, (\E m \in pending : CheckNext(m)) \/ CheckReturn \/ CheckField
  PROVE  FieldsMet'
<1>1. CASE \E m \in pending : CheckNext(m)
  <2>1. PICK m \in pending : CheckNext(m)
    BY <1>1
  <2>2. UNCHANGED versions /\ reused \subseteq reused'
    BY <2>1 DEF CheckNext
  <2> QED
    BY <2>1, <2>2, CheckNextLeavesBehind, FieldsStayMet
<1>2. CASE CheckReturn
  <2>1. UNCHANGED versions /\ reused \subseteq reused'
    BY <1>2 DEF CheckReturn
  <2> QED
    BY <1>2, <2>1, CheckReturnLeavesBehind, FieldsStayMet
<1>3. CASE CheckField
  <2> DEFINE call == calls[Len(calls)]
  <2>1. Last(calls) = call
    BY DEF Last
  <2>2. /\ UNCHANGED versions
        /\ BaseField(call.pair, call.i).id = PatchedField(call.pair, call.i).id
        /\ reused' = reused \cup
             IF BaseField(call.pair, call.i).deprecated /\ ~PatchedField(call.pair, call.i).deprecated
               THEN {<<call.pair[1], BaseField(call.pair, call.i).id>>} ELSE {}
    BY <1>3, <2>1 DEF CheckField
  <2>3. \A pair, i : pair = call.pair /\ i = call.i => Met(pair, i)'
    BY <2>2, VersionsStay DEF Met
  <2> HIDE DEF call
  <2>4. \A pair \in checked' : \A i \in Common(pair) :
          Ahead(pair, i)' \/ Behind(pair, i) \/ (pair = call.pair /\ i = call.i)
    BY <1>3, CheckFieldLeavesBehind DEF call
  <2>5. \A pair \in checked' : \A i \in Common(pair) :
          Ahead(pair, i)' \/ Behind(pair, i) \/ Met(pair, i)'
    BY <2>3, <2>4
  <2>6. reused \subseteq reused'
    BY <2>2
  <2> QED
    BY <2>2, <2>5, <2>6, FieldsStayMet
<1> QED
  BY <1>1, <1>2, <1>3

-----------------------------------------------------------------------------
(* What the verdict says of the last two versions.                         *)

(* Sizes and defaults are compared by equality, so that versions need only *)
(* be compared with their neighbours.                                      *)
LEMMA SameRepresentationTransitive ==
  ASSUME NEW a, NEW b, NEW c, SameRepresentation(a, b), SameRepresentation(b, c)
  PROVE  SameRepresentation(a, c)
  BY DEF SameRepresentation, CheckBaseType

(* Fields of one id have one place: ids increase, and agree place by place. *)
LEMMA SamePlace ==
  ASSUME Compiles(base), Compiles(patched), NEW m \in (DOMAIN base) \cap (DOMAIN patched),
         \A i \in Common(<<m, m>>) : BaseField(<<m, m>>, i).id = PatchedField(<<m, m>>, i).id,
         NEW i \in DOMAIN base[m].fields, NEW j \in DOMAIN patched[m].fields,
         base[m].fields[i].id = patched[m].fields[j].id
  PROVE  i = j
<1> DEFINE b == base[m].fields
           p == patched[m].fields
<1>1. b \in Seq(FieldDef) /\ p \in Seq(FieldDef)
  BY DEF Compiles, MessageDef
<1>2. /\ \A x, y \in DOMAIN b : x < y => b[x].id < b[y].id
      /\ \A x, y \in DOMAIN p : x < y => p[x].id < p[y].id
  BY DEF Compiles
<1>3. \A x \in (DOMAIN b) \cap (DOMAIN p) : b[x].id = p[x].id
  BY DEF Common, BaseField, PatchedField, FieldAt
<1>4. i \in DOMAIN b /\ j \in DOMAIN p /\ b[i].id = p[j].id
  OBVIOUS
<1> HIDE DEF b, p
<1>5. /\ Len(b) \in Nat /\ DOMAIN b = 1 .. Len(b) /\ Len(p) \in Nat /\ DOMAIN p = 1 .. Len(p)
      /\ \A x \in DOMAIN b : b[x].id \in Int
      /\ \A x \in DOMAIN p : p[x].id \in Int
  <2>1. \A f \in FieldDef : f.id \in Int
    BY CompatibilityAssumption DEF FieldDef, Field
  <2>2. \A s \in Seq(FieldDef) : /\ Len(s) \in Nat /\ DOMAIN s = 1 .. Len(s)
                                /\ \A x \in DOMAIN s : s[x] \in FieldDef
    OBVIOUS
  <2> QED
    BY <1>1, <2>1, <2>2
<1>6. CASE i < j
  <2>1. i \in DOMAIN p /\ p[i].id = b[i].id /\ p[i].id < p[j].id
    BY <1>2, <1>3, <1>4, <1>5, <1>6
  <2> QED
    BY <1>4, <1>5, <2>1
<1>7. CASE j < i
  <2>1. j \in DOMAIN b /\ p[j].id = b[j].id /\ b[j].id < b[i].id
    BY <1>2, <1>3, <1>4, <1>5, <1>7
  <2> QED
    BY <1>4, <1>5, <2>1
<1> QED
  BY <1>4, <1>5, <1>6, <1>7

LEMMA VerdictNotices ==
  ASSUME HInv, phase = "check", calls = <<>>, pending = {}, ~critical,
         NEW m \in DOMAIN base, NEW i \in DOMAIN base[m].fields,
         NEW b \in LiveFields(patched, m), base[m].fields[i].id = b.id
  PROVE  /\ SameRepresentation(FieldAt(base[m].fields, i), b)
         /\ base[m].fields[i].deprecated => <<m, b.id>> \in reused
<1>1. m \in DOMAIN patched /\ <<m, m>> \in checked
  BY DEF HInv, IInv, RootsMet, LiveFields
<1>2. PICK j \in DOMAIN patched[m].fields : b = FieldAt(patched[m].fields, j) /\ ~b.deprecated
  BY <1>1 DEF LiveFields
<1>3. \A pair, k : ~Ahead(pair, k)
  BY DEF Ahead
<1>4. \A k \in Common(<<m, m>>) :
        /\ Met(<<m, m>>, k)
        /\ ~FieldFault(BaseField(<<m, m>>, k), PatchedField(<<m, m>>, k))
  BY <1>1, <1>3 DEF HInv, FieldsMet, IInv, FaultsMet
<1>5. b.id = patched[m].fields[j].id
  BY <1>2 DEF FieldAt
<1>6. i = j
  BY <1>1, <1>4, <1>5, SamePlace DEF HInv, IInv, TypeInv, Met
<1>7. i \in Common(<<m, m>>)
  BY <1>2, <1>6 DEF Common
<1> DEFINE a == FieldAt(base[m].fields, i)
<1>8. BaseField(<<m, m>>, i) = a /\ PatchedField(<<m, m>>, i) = b
  BY <1>2, <1>6 DEF BaseField, PatchedField
<1>9. a.deprecated = base[m].fields[i].deprecated /\ a.id = b.id
  BY DEF FieldAt
<1> HIDE DEF a
<1>10. Met(<<m, m>>, i) /\ ~FieldFault(a, b)
  BY <1>4, <1>7, <1>8
<1>11. SameRepresentation(a, b)
  <2>1. <<a.type, b.type>> \in Compared(a.type, b.type)
    BY DEF Compared
  <2>2. a.offset = b.offset
    BY <1>10 DEF FieldFault
  <2>3. a.type.default = b.type.default /\ CheckBaseType(a.type.is, b.type.is)
    BY <1>2, <1>10, <2>1 DEF FieldFault
  <2> QED
    BY <2>2, <2>3 DEF SameRepresentation
<1>12. a.deprecated => <<m, b.id>> \in reused
  BY <1>2, <1>8, <1>9, <1>10 DEF Met
<1> QED
  BY <1>9, <1>11, <1>12 DEF a

-----------------------------------------------------------------------------
(* The accepted versions one by one.                                       *)
LEMMA OneByOne ==
  ASSUME NEW h, h \in Seq(Range(h)), NEW b, NEW t
  PROVE  /\ Len(h) \in Nat /\ DOMAIN h = 1 .. Len(h)
         /\ DOMAIN (h \o <<b>> \o <<>>) = 1 .. Len(h) + 1
         /\ DOMAIN (h \o <<b>> \o <<t>>) = 1 .. Len(h) + 2
         /\ \A e \in {<<>>, <<t>>} :
              /\ \A k \in 1 .. Len(h) : (h \o <<b>> \o e)[k] = h[k]
              /\ (h \o <<b>> \o e)[Len(h) + 1] = b
         /\ (h \o <<b>> \o <<t>>)[Len(h) + 2] = t
<1> DEFINE S == Range(h) \cup {b, t}
<1>1. h \in Seq(S) /\ b \in S /\ t \in S
  OBVIOUS
<1> HIDE DEF S
<1> QED
  BY <1>1

LEMMA AcceptedAre ==
  ASSUME HistoryInv
  PROVE  /\ Len(history) \in Nat /\ DOMAIN history = 1 .. Len(history)
         /\ \A k \in 1 .. Len(history) : accepted[k] = history[k]
         /\ accepted[Len(history) + 1] = base
         /\ phase # "accepted" => DOMAIN accepted = 1 .. Len(history) + 1
         /\ phase = "accepted" => /\ DOMAIN accepted = 1 .. Len(history) + 2
                                  /\ accepted[Len(history) + 2] = patched
<1>1. CASE phase = "accepted"
  <2>1. accepted = history \o <<base>> \o <<patched>>
    BY <1>1 DEF accepted
  <2> QED
    BY <1>1, <2>1, OneByOne DEF HistoryInv
<1>2. CASE phase # "accepted"
  <2>1. accepted = history \o <<base>> \o <<>>
    BY <1>2 DEF accepted
  <2> QED
    BY <1>2, <2>1, OneByOne DEF HistoryInv
<1> QED
  BY <1>1, <1>2

(* Notice between two versions, of those accepted.                         *)
NoticedBetween(vs, j, k) ==
  \A m \in DOMAIN vs[j] :
    \A a \in LiveFields(vs[j], m), b \in LiveFields(vs[k], m) :
      a.id = b.id =>
        \/ SameRepresentation(a, b)
        \/ <<m, a.id>> \in reused
        \/ \E v \in j .. k : ~Has(vs[v], m, a.id)

LEMMA VerdictPreserves ==
  ASSUME HInv, Verdict
  PROVE  ChangedOnlyWithNotice'
<1> DEFINE n == Len(history)
           now == accepted'
<1>1. /\ phase = "check" /\ calls = <<>> /\ pending = {}
      /\ phase' = IF critical THEN "refused" ELSE "accepted"
      /\ UNCHANGED <<history, base, patched, reused>>
  BY DEF Verdict, versions
<1>3. /\ n \in Nat /\ \A k \in 1 .. n : accepted[k] = history[k]
      /\ accepted[n + 1] = base /\ DOMAIN accepted = 1 .. n + 1
  BY <1>1, AcceptedAre DEF HInv
<1>4. /\ \A k \in 1 .. n : now[k] = history[k]
      /\ now[n + 1] = base
      /\ phase' # "accepted" => DOMAIN now = 1 .. n + 1
      /\ phase' = "accepted" => DOMAIN now = 1 .. n + 2 /\ now[n + 2] = patched
  <2>1. now = history \o <<base>> \o IF phase' = "accepted" THEN <<patched>> ELSE <<>>
    BY <1>1 DEF accepted
  <2>2. history \in Seq(Range(history))
    BY DEF HInv, HistoryInv
  <2> HIDE DEF now
  <2>3. CASE phase' = "accepted"
    <3>1. now = history \o <<base>> \o <<patched>>
      BY <2>1, <2>3
    <3> QED
      BY <2>2, <2>3, <3>1, OneByOne
  <2>4. CASE phase' # "accepted"
    <3>1. now = history \o <<base>> \o <<>>
      BY <2>1, <2>4
    <3> QED
      BY <2>2, <2>4, <3>1, OneByOne
  <2> QED
    BY <2>3, <2>4
<1>5. \A k \in 1 .. n + 1 : now[k] = accepted[k]
  BY <1>3, <1>4
<1> HIDE DEF now
<1>6. \A j, k \in 1 .. n + 1 : j < k => NoticedBetween(now, j, k)
  <2>1. SUFFICES ASSUME NEW j \in 1 .. n + 1, NEW k \in 1 .. n + 1, j < k
                 PROVE  NoticedBetween(now, j, k)
    OBVIOUS
  <2>2. NoticedBetween(accepted, j, k)
    BY <1>3, <2>1 DEF HInv, ChangedOnlyWithNotice, NoticedBetween
  <2>3. \A v \in j .. k : now[v] = accepted[v]
    BY <1>3, <1>5, <2>1
  <2>4. now[j] = accepted[j] /\ now[k] = accepted[k]
    BY <1>5
  <2> QED
    BY <2>2, <2>3, <2>4 DEF NoticedBetween
<1>7. ASSUME phase' = "accepted", NEW j \in 1 .. n + 1
      PROVE  NoticedBetween(now, j, n + 2)
  <2>1. ~critical /\ now[n + 2] = patched /\ now[n + 1] = base
    BY <1>1, <1>4, <1>7
  <2>2. SUFFICES ASSUME NEW m \in DOMAIN now[j],
                        NEW a \in LiveFields(now[j], m), NEW b \in LiveFields(patched, m),
                        a.id = b.id, <<m, a.id>> \notin reused, Has(base, m, a.id)
                 PROVE  SameRepresentation(a, b) \/ \E v \in j .. n + 2 : ~Has(now[v], m, a.id)
    <3>1. n + 1 \in j .. n + 2
      BY <1>3, <1>7
    <3> QED
      BY <2>1, <2>2, <3>1 DEF NoticedBetween
  <2>3. PICK i \in DOMAIN base[m].fields : base[m].fields[i].id = a.id
    BY <2>2 DEF Has
  <2>4. m \in DOMAIN base
    BY <2>2 DEF Has
  <2> DEFINE f == FieldAt(base[m].fields, i)
  <2>5. /\ SameRepresentation(f, b)
        /\ base[m].fields[i].deprecated => <<m, b.id>> \in reused
    BY <1>1, <2>1, <2>2, <2>3, <2>4, VerdictNotices
  <2>6. f.id = a.id /\ f.deprecated = base[m].fields[i].deprecated
    BY <2>3 DEF FieldAt
  <2>7. f \in LiveFields(base, m)
    BY <2>2, <2>4, <2>5, <2>6 DEF LiveFields
  <2> HIDE DEF f
  <2>8. CASE j = n + 1
    <3>1. PICK k \in DOMAIN base[m].fields : a = FieldAt(base[m].fields, k)
      BY <2>1, <2>2, <2>4, <2>8 DEF LiveFields
    <3>2. base[m].fields[k].id = b.id
      BY <2>2, <3>1 DEF FieldAt
    <3> QED
      BY <1>1, <2>1, <2>2, <2>4, <3>1, <3>2, VerdictNotices
  <2>9. CASE j # n + 1
    <3>1. j < n + 1 /\ j \in 1 .. n + 1 /\ n + 1 \in 1 .. n + 1
      BY <1>3, <1>7, <2>9
    <3>2. NoticedBetween(now, j, n + 1)
      BY <1>6, <3>1
    <3>3. \/ SameRepresentation(a, f)
          \/ \E v \in j .. n + 1 : ~Has(now[v], m, a.id)
      BY <2>1, <2>2, <2>6, <2>7, <3>2 DEF NoticedBetween
    <3>4. SameRepresentation(a, f) => SameRepresentation(a, b)
      BY <2>5, SameRepresentationTransitive
    <3>5. \A v \in j .. n + 1 : v \in j .. n + 2
      BY <1>3
    <3> QED
      BY <3>3, <3>4, <3>5
  <2> QED
    BY <2>8, <2>9
<1>8. \A j, k \in DOMAIN now : j < k => NoticedBetween(now, j, k)
  <2>1. CASE phase' = "accepted"
    <3>1. SUFFICES ASSUME NEW j \in 1 .. n + 2, NEW k \in 1 .. n + 2, j < k
                   PROVE  NoticedBetween(now, j, k)
      BY <1>4, <2>1
    <3>2. CASE k = n + 2
      <4>1. j \in 1 .. n + 1
        BY <1>3, <3>1, <3>2
      <4> QED
        BY <1>7, <2>1, <3>2, <4>1
    <3>3. CASE k # n + 2
      <4>1. j \in 1 .. n + 1 /\ k \in 1 .. n + 1
        BY <1>3, <3>1, <3>3
      <4> QED
        BY <1>6, <3>1, <4>1
    <3> QED
      BY <3>2, <3>3
  <2>2. CASE phase' # "accepted"
    BY <1>4, <1>6, <2>2
  <2> QED
    BY <2>1, <2>2
<1>9. reused' = reused
  BY <1>1
<1> QED
  BY <1>8, <1>9 DEF ChangedOnlyWithNotice, NoticedBetween, now

-----------------------------------------------------------------------------
(* A new version leaves the accepted ones as they are.                     *)
LEMMA FrontOfOne ==
  ASSUME NEW h, h \in Seq(Range(h)), NEW b
  PROVE  /\ Front(h \o <<b>> \o <<>>) = h
         /\ h \o <<b>> \o <<>> = h \o <<b>>
<1> DEFINE S == Range(h) \cup {b}
<1>1. h \in Seq(S) /\ b \in S
  OBVIOUS
<1> HIDE DEF S
<1> QED
  BY <1>1 DEF Front

LEMMA FrontOfTwo ==
  ASSUME NEW h, h \in Seq(Range(h)), NEW b, NEW t
  PROVE  /\ Front(h \o <<b>> \o <<t>>) = h \o <<b>>
         /\ h \o <<b>> \o <<t>> \o <<>> = h \o <<b>> \o <<t>>
<1> DEFINE S == Range(h) \cup {b, t}
<1>1. h \in Seq(S) /\ b \in S /\ t \in S
  OBVIOUS
<1> HIDE DEF S
<1> QED
  BY <1>1 DEF Front

LEMMA AppendedRange ==
  ASSUME NEW h, h \in Seq(Range(h)), NEW b
  PROVE  /\ h \o <<b>> \in Seq(Range(h \o <<b>>))
         /\ \A k \in DOMAIN (h \o <<b>>) : (h \o <<b>>)[k] \in Range(h) \cup {b}
<1> DEFINE S == Range(h) \cup {b}
           q == h \o <<b>>
<1>1. h \in Seq(S) /\ b \in S
  OBVIOUS
<1> HIDE DEF S
<1>2. /\ q \in Seq(S) /\ Len(q) \in Nat /\ DOMAIN q = 1 .. Len(q)
      /\ q = [k \in 1 .. Len(q) |-> q[k]]
  BY <1>1
<1> HIDE DEF q
<1>3. \A k \in DOMAIN q : q[k] \in Range(q) /\ q[k] \in S
  BY <1>2 DEF Range
<1>4. q \in Seq(Range(q))
  BY <1>2, <1>3
<1> QED
  BY <1>3, <1>4 DEF q, S

LEMMA ProposeHistory ==
  ASSUME HInv, NEW v \in Revisions(patched), Propose(v)
  PROVE  HistoryInv' /\ ChangedOnlyWithNotice'
<1>1. /\ phase \in {"idle", "accepted"} /\ phase' = "check" /\ reused' = reused
      /\ history' = Front(accepted) /\ base' = patched /\ pending' = DOMAIN patched
  BY DEF Propose
<1>2. history \in Seq(Range(history)) /\ \A k \in DOMAIN history : Compiles(history[k])
  BY DEF HInv, HistoryInv
<1>3. /\ history' \in Seq(Range(history')) /\ (\A k \in DOMAIN history' : Compiles(history'[k]))
      /\ accepted' = accepted
  <2>1. CASE phase = "accepted"
    <3>1. accepted = history \o <<base>> \o <<patched>>
      BY <2>1 DEF accepted
    <3>2. history' = history \o <<base>>
      BY <1>1, <1>2, <3>1, FrontOfTwo, ZenonT(60)
    <3>3. accepted' = history' \o <<patched>> \o <<>>
      BY <1>1 DEF accepted
    <3>4. Compiles(base)
      BY DEF HInv, IInv, TypeInv
    <3>5. \A u \in Range(history) \cup {base} : Compiles(u)
      BY <1>2, <3>4 DEF Range
    <3> QED
      BY <1>2, <3>1, <3>2, <3>3, <3>5, FrontOfTwo, AppendedRange
  <2>2. CASE phase = "idle"
    <3>1. history = <<>> /\ patched = base
      BY <2>2 DEF HInv, HistoryInv
    <3>2. accepted = history \o <<base>> \o <<>>
      BY <2>2 DEF accepted
    <3>3. history' = history
      BY <1>1, <1>2, <3>2, FrontOfOne
    <3>4. accepted' = history' \o <<patched>> \o <<>>
      BY <1>1 DEF accepted
    <3> QED
      BY <1>2, <3>1, <3>2, <3>3, <3>4
  <2> QED
    BY <1>1, <2>1, <2>2
<1>4. HistoryInv'
  BY <1>1, <1>3 DEF HistoryInv
<1>5. ChangedOnlyWithNotice'
  BY <1>1, <1>3 DEF HInv, ChangedOnlyWithNotice
<1> QED
  BY <1>4, <1>5

(* The steps of the check before the verdict accept nothing.               *)
LEMMA CheckingHistory ==
  ASSUME HInv, UNCHANGED versions, phase' = "accepted" <=> phase = "accepted",
         phase' = "idle" => phase = "idle",
         pending' \subseteq pending, reused \subseteq reused'
  PROVE  HistoryInv' /\ ChangedOnlyWithNotice'
<1>1. history' = history /\ base' = base /\ patched' = patched
  BY DEF versions
<1>2. accepted' = accepted
  BY <1>1 DEF accepted
<1> QED
  BY <1>1, <1>2 DEF HInv, HistoryInv, ChangedOnlyWithNotice

LEMMA HistoryStepPreserves ==
  ASSUME HInv, [Next]_vars
  PROVE  HInv'
<1>1. IInv'
  BY StepPreserves DEF HInv
<1>2. ASSUME NEW v \in Revisions(patched), Propose(v) PROVE HInv'
  <2>1. FieldsMet'
    BY <1>2 DEF Propose, FieldsMet
  <2> QED
    BY <1>1, <1>2, <2>1, ProposeHistory DEF HInv
<1>3. CASE (\E m \in pending : CheckNext(m)) \/ CheckReturn \/ CheckField
  <2>1. FieldsMet'
    BY <1>3, CheckStepMeets DEF HInv
  <2>2. /\ UNCHANGED versions /\ phase' = phase
        /\ pending' \subseteq pending /\ reused \subseteq reused'
    BY <1>3 DEF CheckNext, CheckReturn, CheckField
  <2> QED
    BY <1>1, <2>1, <2>2, CheckingHistory DEF HInv
<1>4. ASSUME UNCHANGED <<versions, checked, calls, reused>> PROVE FieldsMet'
  <2>1. \A pair, i : Ahead(pair, i)' = Ahead(pair, i)
    BY <1>4 DEF Ahead
  <2>2. UNCHANGED versions /\ reused \subseteq reused' /\ checked' = checked
    BY <1>4
  <2> QED
    BY <2>1, <2>2, FieldsStayMet DEF HInv, Behind
<1>5. CASE CheckThrows
  <2>1. /\ UNCHANGED versions /\ UNCHANGED <<checked, calls, reused>> /\ pending' = pending
        /\ phase' = "threw" /\ phase = "check"
    BY <1>5 DEF CheckThrows, Checking
  <2> QED
    BY <1>1, <1>4, <2>1, CheckingHistory DEF HInv
<1>6. CASE Verdict
  <2>1. /\ UNCHANGED versions /\ UNCHANGED <<checked, calls, reused>> /\ pending' = pending
        /\ phase' \in {"refused", "accepted"}
    BY <1>6 DEF Verdict
  <2>2. HistoryInv'
    BY <2>1 DEF HInv, HistoryInv, versions
  <2> QED
    BY <1>1, <1>4, <1>6, <2>1, <2>2, VerdictPreserves DEF HInv
<1>7. CASE UNCHANGED vars
  <2>1. /\ UNCHANGED versions /\ UNCHANGED <<checked, calls, reused>> /\ pending' = pending
        /\ phase' = phase
    BY <1>7 DEF vars, versions
  <2> QED
    BY <1>1, <1>4, <2>1, CheckingHistory DEF HInv
<1> QED
  BY <1>2, <1>3, <1>5, <1>6, <1>7 DEF Next, Check

LEMMA HistoryInitEstablishes ==
  ASSUME Init
  PROVE  HInv
<1>1. IInv
  BY InitEstablishes
<1>2. history = <<>> /\ pending = {} /\ checked = {} /\ phase = "idle" /\ patched = base
  BY DEF Init
<1>3. HistoryInv
  BY <1>2 DEF HistoryInv
<1>4. DOMAIN accepted = 1 .. 1
  BY <1>2, <1>3, AcceptedAre
<1>5. ChangedOnlyWithNotice
  <2>1. \A j, k \in DOMAIN accepted : ~(j < k)
    BY <1>4
  <2> QED
    BY <2>1 DEF ChangedOnlyWithNotice
<1> QED
  BY <1>1, <1>2, <1>3, <1>5 DEF HInv, FieldsMet

LEMMA HistoryInvariant == Spec => []HInv
<1>1. HInv /\ [Next]_vars => HInv'
  BY HistoryStepPreserves
<1> QED
  BY <1>1, HistoryInitEstablishes, PTL DEF Spec

-----------------------------------------------------------------------------
(* Between any two accepted versions, however far apart, a live field      *)
(* keeps its place, its size and its default, unless a version between     *)
(* them does not have it or the check has reported its id as used again:   *)
(* comparing neighbours is enough (ir_compat.cpp:48-128).                  *)
THEOREM RepresentationKept == Spec => []ChangedOnlyWithNotice
<1>1. HInv => ChangedOnlyWithNotice
  BY DEF HInv
<1> QED
  BY <1>1, HistoryInvariant, PTL

(* The type invariant: every accepted version compiles, and only messages  *)
(* of the two versions are compared.                                       *)
THEOREM TypeCorrect == Spec => []TypeOK
<1>1. HInv => TypeOK
  <2> SUFFICES ASSUME HInv PROVE TypeOK
    OBVIOUS
  <2>1. /\ Compiles(base) /\ Compiles(patched) /\ checked \subseteq Pairs
        /\ calls \in Seq(Call) /\ AreChecked(calls) /\ critical \in BOOLEAN
        /\ phase \in {"idle", "check", "threw", "refused", "accepted"}
        /\ HistoryInv
    BY DEF HInv, IInv, TypeInv
  <2>2. \A k \in DOMAIN accepted : Compiles(accepted[k])
    <3>1. /\ Len(history) \in Nat /\ DOMAIN history = 1 .. Len(history)
          /\ \A k \in 1 .. Len(history) : accepted[k] = history[k]
          /\ accepted[Len(history) + 1] = base
          /\ phase # "accepted" => DOMAIN accepted = 1 .. Len(history) + 1
          /\ phase = "accepted" => /\ DOMAIN accepted = 1 .. Len(history) + 2
                                   /\ accepted[Len(history) + 2] = patched
      BY <2>1, AcceptedAre
    <3>2. \A k \in 1 .. Len(history) : Compiles(history[k])
      BY <2>1, <3>1 DEF HistoryInv
    <3>3. ASSUME NEW k \in DOMAIN accepted PROVE Compiles(accepted[k])
      <4>1. \/ k \in 1 .. Len(history)
            \/ k = Len(history) + 1
            \/ phase = "accepted" /\ k = Len(history) + 2
        BY <3>1, <3>3
      <4>2. accepted[k] = history[k] \/ accepted[k] = base \/ accepted[k] = patched
        BY <3>1, <4>1
      <4> QED
        BY <2>1, <3>1, <3>2, <4>1
    <3> QED
      BY <3>3
  <2>3. calls \in Seq([pair : checked, i : Nat])
    <3> DEFINE R == [pair : checked, i : Nat]
    <3>1. DOMAIN calls = 1 .. Len(calls) /\ Len(calls) \in Nat
      BY <2>1
    <3>2. \A k \in DOMAIN calls : calls[k] \in R
      <4>1. ASSUME NEW k \in DOMAIN calls PROVE calls[k] \in R
        <5>1. calls[k] \in Call /\ calls[k].pair \in checked
          BY <2>1 DEF AreChecked
        <5> QED
          BY <5>1 DEF Call
      <4> QED
        BY <4>1
    <3>3. calls = [k \in 1 .. Len(calls) |-> calls[k]]
      BY <2>1, <3>1
    <3> HIDE DEF R
    <3>4. calls \in Seq(R)
      BY <3>1, <3>2, <3>3
    <3> QED
      BY <3>4 DEF R
  <2> QED
    BY <2>1, <2>2, <2>3 DEF TypeOK, HistoryInv, Pairs
<1> QED
  BY <1>1, HistoryInvariant, PTL
=============================================================================
