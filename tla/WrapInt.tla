------------------------------ MODULE WrapInt ------------------------------
(***************************************************************************)
(* Go's int64 arithmetic, at a width of Width bits: every sum and          *)
(* difference of two int64 values wraps around in two's complement.  The  *)
(* modules of SectionReader and OffsetWriter compute offsets with these    *)
(* operators so that TLC reaches the overflow branches with a small Width. *)
(***************************************************************************)
EXTENDS Integers

CONSTANT Width

ASSUME WidthAssumption == Width \in Nat /\ Width >= 2

Modulus == 2^Width

\* const maxint64 = 1<<63 - 1, at this width.
MaxInt == 2^(Width - 1) - 1

MinInt == -(2^(Width - 1))

IntW == MinInt..MaxInt

\* The facts about 2^Width the proofs use; the provers do not expand ^.
ASSUME RangeAssumption ==
  /\ MaxInt \in Nat \ {0}
  /\ MinInt = -(MaxInt + 1)
  /\ Modulus = 2 * (MaxInt + 1)

Wrap_Unbounded(x) == x

\* The int64 value that the mathematical integer x wraps to.
Wrap(x) == ((x - MinInt) % Modulus) + MinInt

AddW(a, b) == Wrap(a + b)

SubW(a, b) == Wrap(a - b)

=============================================================================
