---------------------------- MODULE WrapIntProofs ----------------------------
(***************************************************************************)
(* Facts about the int64 operators of WrapInt, for every width, cited by  *)
(* the proofs about SectionReader and OffsetWriter.                        *)
(***************************************************************************)
EXTENDS WrapInt, TLAPS

USE WidthAssumption, RangeAssumption

(* A value in range does not wrap.                                         *)
LEMMA WrapId ==
  ASSUME NEW x \in IntW
  PROVE  Wrap(x) = x
BY DEF Wrap, IntW

(* Every integer wraps into the range.                                     *)
LEMMA WrapType ==
  ASSUME NEW x \in Int
  PROVE  Wrap(x) \in IntW
BY DEF Wrap, IntW

(* AddW of two values whose sum is in range is their sum.                  *)
LEMMA AddWExact ==
  ASSUME NEW a \in Int, NEW b \in Int, a + b \in IntW
  PROVE  AddW(a, b) = a + b
BY WrapId DEF AddW

(* A sum of an int64 and a non-negative int64 that overflows wraps below  *)
(* zero.                                                                   *)
LEMMA AddWOverflow ==
  ASSUME NEW a \in IntW, NEW b \in 0..MaxInt, a + b > MaxInt
  PROVE  AddW(a, b) < 0
<1>1. a + b \in (MaxInt + 1)..(MaxInt + Modulus)
  BY DEF IntW
<1>2. Wrap(a + b) = a + b - Modulus
  BY <1>1 DEF Wrap, IntW
<1>3. AddW(a, b) = a + b - Modulus
  BY <1>2 DEF AddW
<1>. QED  BY <1>3 DEF IntW

=============================================================================
