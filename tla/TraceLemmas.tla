---------------------------- MODULE TraceLemmas -----------------------------
(***************************************************************************)
(* Facts about the short sequences of records that boots consist of.       *)
(***************************************************************************)
EXTENDS DiagnosticProtocol, TLAPS

(* Appending to a sequence of one element. *)
LEMMA Append1 ==
  ASSUME NEW a, NEW x
  PROVE  Append(<<a>>, x) = <<a, x>>
<1> DEFINE s == Append(<<a>>, x)
<1>1. s \in Seq({a, x}) /\ Len(s) = 2 /\ s[1] = a /\ s[2] = x
  OBVIOUS
<1> SUFFICES s = <<a, x>>
  OBVIOUS
<1> HIDE DEF s
<1>2. s = <<s[1], s[2]>>
  BY <1>1
<1> QED
  BY <1>1, <1>2

(* The same for two elements. *)
LEMMA Append2 ==
  ASSUME NEW a, NEW b, NEW x
  PROVE  Append(<<a, b>>, x) = <<a, b, x>>
<1> DEFINE s == Append(<<a, b>>, x)
<1>1. s \in Seq({a, b, x}) /\ Len(s) = 3 /\ s[1] = a /\ s[2] = b /\ s[3] = x
  OBVIOUS
<1> SUFFICES s = <<a, b, x>>
  OBVIOUS
<1> HIDE DEF s
<1>2. s = <<s[1], s[2], s[3]>>
  BY <1>1
<1> QED
  BY <1>1, <1>2

(* The same for three elements. *)
LEMMA Append3 ==
  ASSUME NEW a, NEW b, NEW c, NEW x
  PROVE  Append(<<a, b, c>>, x) = <<a, b, c, x>>
<1> DEFINE s == Append(<<a, b, c>>, x)
<1>1. s \in Seq({a, b, c, x}) /\ Len(s) = 4 /\ s[1] = a /\ s[2] = b /\ s[3] = c /\ s[4] = x
  OBVIOUS
<1> SUFFICES s = <<a, b, c, x>>
  OBVIOUS
<1> HIDE DEF s
<1>2. s = <<s[1], s[2], s[3], s[4]>>
  BY <1>1
<1> QED
  BY <1>1, <1>2

(* Sequences of different lengths differ. *)
LEMMA LengthsDiffer ==
  ASSUME NEW a, NEW b, NEW c, NEW d, NEW w, NEW x, NEW y
  PROVE  /\ <<>> # <<a>> /\ <<>> # <<a, b>> /\ <<>> # <<a, b, c>> /\ <<>> # <<a, b, c, d>>
         /\ <<w>> # <<a, b>> /\ <<w>> # <<a, b, c>> /\ <<w>> # <<a, b, c, d>>
         /\ <<w, x>> # <<a, b, c>> /\ <<w, x>> # <<a, b, c, d>>
         /\ <<w, x, y>> # <<a, b, c, d>>
OBVIOUS
=============================================================================
