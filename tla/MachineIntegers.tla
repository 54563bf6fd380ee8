-------------------------- MODULE MachineIntegers ---------------------------
(***************************************************************************)
(* Integers of 1, 2, 4 and 8 bytes in two's complement, with what a C      *)
(* compiler and an x86 processor make of them.  The number of bits a byte  *)
(* count stands for is a parameter, so that a small instance has every     *)
(* value of every width.                                                   *)
(***************************************************************************)
EXTENDS Integers, Bitwise

CONSTANT Bits
Widths == {1, 2, 4, 8}
ASSUME BitsAssumption == /\ Bits \in [Widths -> Nat \ {0}]
                         /\ \A w \in {1, 2, 4} : Bits[2 * w] = 2 * Bits[w]

Modulus(w) == 2 ^ Bits[w]
UnsignedOf(w, v) == v % Modulus(w)
SignedOf(w, v) == LET u == v % Modulus(w) IN IF 2 * u >= Modulus(w) THEN u - Modulus(w) ELSE u
Wrapped(w, signed, v) == IF signed THEN SignedOf(w, v) ELSE UnsignedOf(w, v)
Lowest(w) == - (Modulus(w) \div 2)

(* The same modulo every width, whichever way the patterns are read.       *)
Product(a, b) == SignedOf(8, a) * SignedOf(8, b)

(* Division truncates towards zero.                                        *)
Sign(v) == IF v < 0 THEN -1 ELSE 1
Magnitude(v) == IF v < 0 THEN - v ELSE v
Quotient(a, b) == Sign(a) * Sign(b) * (Magnitude(a) \div Magnitude(b))
Remainder(a, b) == a - b * Quotient(a, b)

(* Of patterns of w bytes.                                                 *)
BitAnd(w, a, b) == UnsignedOf(w, a) & UnsignedOf(w, b)
BitOr(w, a, b) == UnsignedOf(w, a) | UnsignedOf(w, b)
BitXor(w, a, b) == UnsignedOf(w, a) ^^ UnsignedOf(w, b)

(* The processor takes the count of a shift modulo the bits of an operand  *)
(* of 4 bytes, or of 8 for one of 8 bytes.                                 *)
ShiftCount(w, n) == n % Bits[IF w = 8 THEN 8 ELSE 4]
ShiftedLeft(w, v, n) == SignedOf(w, v) * 2 ^ ShiftCount(w, n)
ShiftedRight(w, v, n) == v \div 2 ^ ShiftCount(w, n)
============================================================================
