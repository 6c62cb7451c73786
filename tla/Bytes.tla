------------------------------- MODULE Bytes -------------------------------
(***************************************************************************)
(* Numbers and the bytes they are stored in, the lowest first, for the     *)
(* tools that access PCI memory in words of 1, 2, 4 or 8 bytes.  A byte    *)
(* has Base values instead of 256.                                         *)
(***************************************************************************)
EXTENDS Integers

CONSTANT Base

ASSUME BaseAssumption == Base \in Nat \ {0, 1}

\* What byte k counts; the number of values of k bytes.
Weight[k \in 0 .. 8] == IF k = 0 THEN 1 ELSE Base * Weight[k - 1]

\* Mutation: the value is not cut down to a byte.
DigitWide(d, k) == d \div Weight[k]

\* Byte k of a number.
Digit(d, k) == (d \div Weight[k]) % Base

\* The number in w bytes.
Number(b, w) ==
  LET pair(k) == b[k] + Base * b[k + 1]
      quad(k) == pair(k) + Weight[2] * pair(k + 2)
  IN  CASE w = 1 -> b[0]
        [] w = 2 -> pair(0)
        [] w = 4 -> quad(0)
        [] w = 8 -> quad(0) + Weight[4] * quad(4)

=============================================================================
