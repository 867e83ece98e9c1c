------------------------------- MODULE Widths -------------------------------
(***************************************************************************)
(* Width of middle/ir.rs.  A width is a number of bytes: 1, 4 or 8.  Here  *)
(* a byte has ByteBits bits instead of eight.                              *)
(***************************************************************************)
EXTENDS Integers

CONSTANT ByteBits

ASSUME WidthsAssumption == ByteBits \in {2^k : k \in 0..3}

Bits(width) == width * ByteBits
Word == 8

Unsigned(width, value) == value % 2^Bits(width)

\* Width::narrow: the low bits, read as a signed number.
Narrow(width, value) ==
    LET low == Unsigned(width, value)
    IN  IF low < 2^(Bits(width) - 1) THEN low ELSE low - 2^Bits(width)

ReadAs(width, sign, value) ==
    IF sign = "signed" THEN Narrow(width, value) ELSE Narrow(Word, Unsigned(width, value))

\* Width::shift_count: nothing shifts by less than an int can.
ShiftCount(width, count) == count % Bits(IF width = Word THEN Word ELSE 4)

=============================================================================
