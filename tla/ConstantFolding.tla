-------------------------- MODULE ConstantFolding ---------------------------
(***************************************************************************)
(* What the compiler computes itself: constants change their class when    *)
(* their type does, and two constants that meet become one.  The syntax    *)
(* tree folds the constants of the source; the instruction selector folds  *)
(* those the simplification of the code brings together.                   *)
(*                                                                         *)
(* A constant is its class and its value as the C field of the class reads *)
(* it.  A float is its value, integral here.                               *)
(***************************************************************************)
EXTENDS OllieTypes, MachineIntegers

SignedClasses == {"CHAR", "BYTE", "SHORT", "INT", "LONG"}
UnsignedClasses == {"BYTE_U", "SHORT_U", "INT_U", "LONG_U"}
FloatClasses == {"FLOAT", "DOUBLE"}
IntegerClasses == SignedClasses \cup UnsignedClasses

Width(cls) ==
  CASE cls \in {"CHAR", "BYTE", "BYTE_U"} -> 1
    [] cls \in {"SHORT", "SHORT_U"} -> 2
    [] cls \in {"INT", "INT_U", "FLOAT"} -> 4
    [] OTHER -> 8

Constant(cls, val) == [cls |-> cls, val |-> val]
Stored(cls, v) == Constant(cls, IF cls \in FloatClasses THEN v ELSE Wrapped(Width(cls), cls \in SignedClasses, v))

(* The type C computes in: floats win; else int or wider, and unsigned     *)
(* when the unsigned operand is as wide.                                   *)
Rank(cls) == IF Width(cls) = 8 THEN 8 ELSE 4
CommonClass(a, b) ==
  LET wide == IF Rank(a) = 8 \/ Rank(b) = 8 THEN 8 ELSE 4
      unsigned == \E c \in {a, b} : c \in UnsignedClasses /\ Width(c) = wide
  IN  CASE "DOUBLE" \in {a, b} -> "DOUBLE"
        [] "FLOAT" \in {a, b} -> "FLOAT"
        [] wide = 8 -> IF unsigned THEN "LONG_U" ELSE "LONG"
        [] OTHER -> IF unsigned THEN "INT_U" ELSE "INT"
In(cls, c) == Stored(cls, c.val).val
Left(a, b) == In(CommonClass(a.cls, b.cls), a)
Right(a, b) == In(CommonClass(a.cls, b.cls), b)

---------------------------------------------------------------------------
(* Constants of the syntax tree.                                           *)

TargetClass(t) ==
  IF IsPointer(t) THEN "LONG_U"
  ELSE IF ~ IsBasic(t) THEN "none"
  ELSE CASE t.name = "char" -> "CHAR" [] t.name = "i8" -> "BYTE" [] t.name = "u8" -> "BYTE_U"
         [] t.name = "i16" -> "SHORT" [] t.name = "u16" -> "SHORT_U"
         [] t.name = "i32" -> "INT" [] t.name = "u32" -> "INT_U"
         [] t.name = "i64" -> "LONG" [] t.name = "u64" -> "LONG_U"
         [] t.name = "f32" -> "FLOAT" [] t.name = "f64" -> "DOUBLE"
         [] OTHER -> "none"

(* The conversions the switch has no case for leave the constant alone: to *)
(* bool, from a float to the small integers, and two of the long ones.     *)
CoerceSmall(c, target) == Stored(IF c.cls = "CHAR" /\ target = "INT_U" THEN "INT" ELSE target, c.val)
CoerceInt(c, target) == Stored(target, c.val)
CoerceFloat(c, target) ==
  IF Width(target) < Width(c.cls) THEN c ELSE Stored(target, c.val)
CoerceLong(c, target) ==
  IF target \in {"CHAR", "FLOAT"} THEN c
  ELSE Stored(IF target = "INT_U" THEN "INT" ELSE target, c.val)

coerce_constant(c, t) ==
  LET target == TargetClass(t) IN
  CASE target = "none" \/ target = c.cls -> c
    [] Width(c.cls) <= 2 -> CoerceSmall(c, target)
    [] c.cls \in {"INT", "INT_U"} -> CoerceInt(c, target)
    [] c.cls \in FloatClasses -> CoerceFloat(c, target)
    [] OTHER -> CoerceLong(c, target)

is_constant_node_value_0(c) == c.val = 0
(* The field of the signed class is read.                                  *)
is_constant_node_value_negative(c) ==
  IF c.cls \in FloatClasses THEN c.val < 0 ELSE SignedOf(Width(c.cls), c.val) < 0

negate_constant_value(c) == Stored(c.cls, - c.val)
decrement_constant_value(c) == Stored(c.cls, c.val - 1)
increment_constant_value(c) == Stored(c.cls, c.val + 1)

Truth(p) == IF p THEN 1 ELSE 0

(* A short is read and written in its lowest byte only.                    *)
logical_not_constant_value(c) ==
  IF c.cls # "SHORT" THEN Stored(c.cls, Truth(c.val = 0))
  ELSE LET low == c.val % Modulus(1) IN Stored("SHORT", c.val - low + Truth(low = 0))
bitwise_not_constant_value(c) == IF c.cls \in FloatClasses THEN c ELSE Stored(c.cls, - c.val - 1)

(* a op= b: computed in the common type, kept in the class of a.  The      *)
(* operators without rows for floats end the compiler.                     *)
multiply_constant_nodes(a, b) == Stored(a.cls, Product(Left(a, b), Right(a, b)))
divide_constant_nodes(a, b) == Stored(a.cls, Quotient(Left(a, b), Right(a, b)))
mod_constant_nodes(a, b) == Stored(a.cls, Remainder(Left(a, b), Right(a, b)))
(* Mutant of add_constant_nodes: the sum is not brought back to its class. *)
UnwrappedSum(a, b) == Constant(a.cls, Left(a, b) + Right(a, b))
add_constant_nodes(a, b) == Stored(a.cls, Left(a, b) + Right(a, b))
(* Mutant of subtract_constant_nodes: the operands are swapped.            *)
SwappedDifference(a, b) == Stored(a.cls, Right(a, b) - Left(a, b))
subtract_constant_nodes(a, b) == Stored(a.cls, Left(a, b) - Right(a, b))
right_shift_constant_nodes(a, b) == Stored(a.cls, ShiftedRight(Width(a.cls), a.val, b.val))
left_shift_constant_nodes(a, b) == Stored(a.cls, ShiftedLeft(Width(a.cls), a.val, b.val))
bitwise_or_constant_nodes(a, b) == Stored(a.cls, BitOr(8, a.val, b.val))
bitwise_exclusive_or_constant_nodes(a, b) == Stored(a.cls, BitXor(8, a.val, b.val))
bitwise_and_constant_nodes(a, b) == Stored(a.cls, BitAnd(8, a.val, b.val))

(* In a comparison of a signed and an unsigned constant the signed one is  *)
(* cast to the unsigned class of its own width, with a few exceptions.     *)
Cast(w, c) == [c EXCEPT !.cls = CHOOSE u \in UnsignedClasses : Width(u) = w, !.val = UnsignedOf(w, c.val)]
ComparedLeft(a, b) ==
  IF a.cls \in SignedClasses /\ b.cls \in UnsignedClasses
    THEN Cast(IF a.cls = "INT" /\ b.cls = "LONG_U" THEN 8 ELSE Width(a.cls), a) ELSE a
ComparedRight(a, b) ==
  IF a.cls \in UnsignedClasses /\ b.cls \in SignedClasses
    THEN Cast(CASE a.cls = "SHORT_U" /\ b.cls = "SHORT" -> 4
                [] a.cls = "LONG_U" /\ b.cls = "BYTE" -> 2
                [] OTHER -> Width(b.cls), b)
    ELSE b
Compared(a, b, Holds(_, _)) ==
  LET x == ComparedLeft(a, b)  y == ComparedRight(a, b)
  IN  Stored(a.cls, Truth(Holds(Left(x, y), Right(x, y))))

not_equals_constant_nodes(a, b) == Compared(a, b, LAMBDA x, y : x # y)
equals_constant_nodes(a, b) == Compared(a, b, LAMBDA x, y : x = y)
greater_than_constant_nodes(a, b) == Compared(a, b, LAMBDA x, y : x > y)
greater_than_or_equal_to_constant_nodes(a, b) == Compared(a, b, LAMBDA x, y : x >= y)
less_than_constant_nodes(a, b) == Compared(a, b, LAMBDA x, y : x < y)
less_than_or_equal_to_constant_nodes(a, b) == Compared(a, b, LAMBDA x, y : x <= y)
constant_nodes_equal(a, b) == equals_constant_nodes(a, b).val = 1

---------------------------------------------------------------------------
(* Constants of the three address code.  They carry their type.            *)

Fatal == [cls |-> "fatal", val |-> 0]

(* Only these classes have rows; the result is a signed long.              *)
sum_constant_with_raw_int64_value(c, raw) ==
  IF c.cls \in {"INT", "INT_U", "LONG", "LONG_U", "CHAR"} THEN Stored("LONG", c.val + raw) ELSE Fatal
multiply_constant_by_raw_int64_value(c, raw) ==
  IF c.cls \in {"SHORT", "SHORT_U", "INT", "INT_U", "LONG", "LONG_U", "CHAR"}
    THEN Stored("LONG", Product(c.val, raw)) ELSE Fatal
convert_constant_to_i64(c) == Stored("LONG", c.val)
negate_three_address_consant(c) == IF c.cls \in {"BYTE", "BYTE_U"} THEN Fatal ELSE Stored(c.cls, - c.val)

(* Rows that read the 32 bit field of an unsigned long.                    *)
ReadHalf(a, b) == IF a.cls \in {"LONG_U", "BYTE", "BYTE_U"} /\ b.cls = "LONG_U"
                    THEN Stored("INT_U", b.val) ELSE b
multiply_constants(a, b) == multiply_constant_nodes(a, ReadHalf(a, b))
add_constants(a, b) == add_constant_nodes(a, b)
subtract_constants(a, b) == subtract_constant_nodes(a, b)
right_shift_constants(a, b) == right_shift_constant_nodes(a, b)
left_shift_constants(a, b) == left_shift_constant_nodes(a, b)
logical_or_constants(a, b) == Stored(a.cls, Truth(a.val # 0 \/ b.val # 0))
logical_and_constants(a, b) == Stored(a.cls, Truth(a.val # 0 /\ b.val # 0))
============================================================================
