----------------------------- MODULE OllieTypes -----------------------------
(***************************************************************************)
(* The type system of Ollie: what a value of one type may be assigned to,  *)
(* which operators a type has, and the coercions two operands of an        *)
(* operator go through before they meet.                                   *)
(***************************************************************************)
EXTENDS Integers, Sequences, FiniteSets

NoType == [class |-> "none"]

(* The basic types with their sizes in bytes.                              *)
Signed == {"i8", "i16", "i32", "i64"}
Unsigned == {"char", "bool", "u8", "u16", "u32", "u64"}
Floats == {"f32", "f64"}
Integral == Signed \cup Unsigned
BasicNames == Integral \cup Floats \cup {"void"}

Bytes(name) ==
  CASE name \in {"char", "bool", "i8", "u8"} -> 1
    [] name \in {"i16", "u16"} -> 2
    [] name \in {"i32", "u32", "f32"} -> 4
    [] name \in {"i64", "u64", "f64"} -> 8
    [] name = "void" -> 0

Basic(name) == [class |-> "basic", name |-> name]

(* A pointer or an array: may one write through it, and is what it gives   *)
(* contiguous (what holds pointers is not).                                *)
PointerTo(t, mutable) == [class |-> "pointer", to |-> t, mutable |-> mutable,
                          contiguous |-> t.class # "pointer"]
ArrayOf(t, count, mutable) == [class |-> "array", to |-> t, mutable |-> mutable,
                               contiguous |-> t.class # "pointer", count |-> count]
Construct(class, name, size) == [class |-> class, name |-> name, size |-> size]
Enumerated(name, int, members) == [class |-> "enum", name |-> name, int |-> int, members |-> members]

IsBasic(t) == t.class = "basic"
IsFloat(t) == IsBasic(t) /\ t.name \in Floats
IsVoid(t) == IsBasic(t) /\ t.name = "void"
IsInteger(t) == IsBasic(t) /\ t.name \in Integral
IsPointer(t) == t.class = "pointer"
IsAddress(t) == t.class \in {"pointer", "array"}
RECURSIVE IsVoidPointer(_)
IsVoidPointer(t) == IsPointer(t) /\ (IsVoid(t.to) \/ IsVoidPointer(t.to))

RECURSIVE TypeSize(_)
TypeSize(t) ==
  CASE t.class = "basic" -> Bytes(t.name)
    [] t.class = "enum" -> Bytes(t.int.name)
    [] t.class \in {"pointer", "function"} -> 8
    [] t.class = "array" -> t.count * TypeSize(t.to)
    [] t.class \in {"struct", "union"} -> t.size
    [] OTHER -> 0

(* Floats count as signed; pointers, enumerated types and the rest do not. *)
is_type_signed(t) == IsBasic(t) /\ t.name \in Signed \cup Floats

IsValue(t) == IsBasic(t) /\ ~ IsVoid(t)
is_type_valid_for_conditional(t) == t.class \in {"pointer", "enum"} \/ IsValue(t)

is_type_valid_for_memory_addressing(t) == t.class = "enum" \/ IsInteger(t)

(* Must a value of type source be converted to sit in a destination?       *)
is_converting_move_required(destination, source) ==
  LET AtMost8(n) == IF n <= 8 THEN n ELSE 8 IN
  \/ AtMost8(TypeSize(destination)) > AtMost8(TypeSize(source))
  \/ (IsBasic(destination) /\ IsBasic(source) /\ IsFloat(destination) # IsFloat(source))

---------------------------------------------------------------------------
(* Assignability.  NoType stands for the C code's NULL.                    *)

(* Elements that are laid out alike, and a source one may write through    *)
(* when the destination is written through.                                *)
LaidOutAlike(d, s) ==
  /\ d.contiguous = s.contiguous
  /\ TypeSize(d.to) = TypeSize(s.to)
MutabilityKept(d, s) == d.mutable => s.mutable

RECURSIVE types_assignable(_, _)
types_assignable(d, s) ==
  LET Elements == LaidOutAlike(d, s) /\ types_assignable(d.to, s.to) # NoType
      Fits ==
        CASE d.class \in {"struct", "union"} -> s.class \in {"struct", "union"} /\ d.name = s.name
          [] d.class = "function" -> s = d
          [] d.class = "enum" -> s = d \/ (IsInteger(s) /\ types_assignable(d.int, s) # NoType)
          [] d.class = "array" -> /\ IsAddress(s) /\ MutabilityKept(d, s)
                                  /\ s.class = "array" => d.count = s.count
                                  /\ Elements
          [] d.class = "pointer" -> \/ IsInteger(s)
                                    \/ /\ IsAddress(s) /\ MutabilityKept(d, s)
                                       /\ (IsPointer(s) /\ (IsVoidPointer(s) \/ IsVoidPointer(d))) \/ Elements
          [] d.class = "basic" -> /\ ~ IsVoid(d)
                                  /\ \/ s.class = "enum"
                                     \/ IsValue(s) /\ TypeSize(s) <= TypeSize(d)
          [] OTHER -> FALSE
  IN  IF Fits THEN d ELSE NoType

(* A constant may lose bits in an assignment, unless it is or becomes a    *)
(* float.                                                                  *)
RECURSIVE types_assignable_constant(_, _)
types_assignable_constant(d, s) ==
  LET Fits == CASE d.class = "enum" -> IsInteger(s) /\ types_assignable_constant(d.int, s) # NoType
                [] d.class = "pointer" -> IsInteger(s)
                [] d.class = "basic" -> /\ ~ IsVoid(d)
                                        /\ \/ TypeSize(d) >= TypeSize(s)
                                           \/ ~ IsFloat(d) /\ ~ IsFloat(s)
                [] OTHER -> FALSE
  IN  IF Fits THEN d ELSE NoType

RECURSIVE pointer_types_compatible_ignore_mutability(_, _)
pointer_types_compatible_ignore_mutability(a, b) ==
  IF IsVoidPointer(a) \/ IsVoidPointer(b) THEN b
  ELSE IF ~ LaidOutAlike(a, b) THEN NoType
  ELSE IF IsPointer(a.to) \/ IsPointer(b.to) THEN pointer_types_compatible_ignore_mutability(a.to, b.to)
  ELSE IF types_assignable(a.to, b.to) # NoType THEN a
  ELSE NoType

---------------------------------------------------------------------------
(* Coercions change the types of both operands: they are functions from a  *)
(* pair of basic types to a pair.                                          *)

Sized(names, bytes) == Basic(CHOOSE n \in names : Bytes(n) = bytes)

convert_to_unsigned_version(t) ==
  IF t.name = "char" THEN t ELSE Sized({"u8", "u16", "u32", "u64"}, TypeSize(t))

(* Mutant of basic_type_signedness_coercion: only the second operand is    *)
(* converted.                                                              *)
SecondConverted(p) ==
  IF ~ IsFloat(p[1]) /\ ~ is_type_signed(p[1]) /\ is_type_signed(p[2])
    THEN << p[1], convert_to_unsigned_version(p[2]) >> ELSE p

(* The unsigned operand wins.                                              *)
basic_type_signedness_coercion(p) ==
  LET a == p[1]  b == p[2] IN
  IF IsFloat(a) \/ is_type_signed(a) = is_type_signed(b) THEN p
  ELSE IF is_type_signed(b) THEN << a, convert_to_unsigned_version(b) >>
  ELSE << convert_to_unsigned_version(a), b >>

(* Within its kind: float, signed or unsigned.                             *)
widen_basic_type_to_given_size(t, bytes) ==
  IF bytes = TypeSize(t) \/ bytes = 1 THEN t
  ELSE Sized(CASE IsFloat(t) -> Floats
               [] t.name \in Signed -> Signed
               [] OTHER -> {"u16", "u32", "u64"}, bytes)

basic_type_widening_type_coercion(p) ==
  LET size == IF TypeSize(p[1]) > TypeSize(p[2]) THEN TypeSize(p[1]) ELSE TypeSize(p[2])
  IN  << widen_basic_type_to_given_size(p[1], size), widen_basic_type_to_given_size(p[2], size) >>

integer_to_floating_point(t) == Basic(IF TypeSize(t) = 8 THEN "f64" ELSE "f32")

handle_floating_point_coercion(p) ==
  IF IsFloat(p[1]) = IsFloat(p[2]) THEN p
  ELSE IF IsFloat(p[1]) THEN << p[1], integer_to_floating_point(p[2]) >>
  ELSE << integer_to_floating_point(p[1]), p[2] >>

AllCoercions(p) ==
  basic_type_widening_type_coercion(basic_type_signedness_coercion(handle_floating_point_coercion(p)))

(* What an operator gives, and the types its operands are left with.       *)
Coerced(type, p) == [type |-> type, a |-> p[1], b |-> p[2]]
Incompatible == [type |-> NoType]

determine_ternary_compatibility(a, b) ==
  LET LessMutable(x, y) == IF x.mutable THEN y ELSE x IN
  IF a.class \in {"struct", "union"} THEN
    IF types_assignable(a, b) # NoType \/ types_assignable(b, a) # NoType
      THEN Coerced(a, << a, b >>) ELSE Incompatible
  ELSE IF IsPointer(a) /\ IsPointer(b) THEN
    IF pointer_types_compatible_ignore_mutability(a, b) # NoType
      THEN Coerced(LessMutable(a, b), << a, b >>) ELSE Incompatible
  ELSE IF IsPointer(a) THEN IF IsInteger(b) THEN Coerced(a, << a, b >>) ELSE Incompatible
  ELSE IF IsPointer(b) THEN IF IsInteger(a) THEN Coerced(b, << a, b >>) ELSE Incompatible
  ELSE IF ~ IsBasic(a) \/ ~ IsBasic(b) THEN Incompatible
  ELSE LET p == AllCoercions(<< a, b >>) IN Coerced(p[1], p)

Shifts == {"<<", ">>"}
BitOps == {"&", "|", "^"}
Relations == {"<", "<=", ">", ">=", "==", "!="}
Connectives == {"&&", "||"}
BinaryOps == {"+", "-", "*", "/", "%"} \cup Shifts \cup BitOps \cup Relations \cup Connectives

Decayed(t) == IF t.class = "enum" THEN t.int ELSE t

(* An operation that involves a pointer: no coercion of the other side.    *)
PointerOperation(a, b, op) ==
  LET other == IF IsAddress(a) THEN b ELSE a
      Given(t) == Coerced(t, << a, b >>)
  IN  CASE op \in {"+", "-"} -> IF ~ IsInteger(other) THEN Incompatible
                                ELSE Given(IF IsAddress(a) THEN a ELSE b)
        [] IsPointer(a) /\ IsPointer(b) -> Given(Basic(IF op \in Connectives THEN "u64" ELSE "bool"))
        [] ~ IsBasic(other) \/ IsFloat(other) \/ (op \in Connectives /\ IsVoid(other)) -> Incompatible
        [] OTHER -> Given(Basic("bool"))

CoercedBasics(p, op) ==
  CASE op \in Connectives ->
         Coerced(Basic("bool"), basic_type_widening_type_coercion(handle_floating_point_coercion(p)))
    [] op \in Shifts \cup BitOps \cup {"%"} ->
         LET q == basic_type_widening_type_coercion(basic_type_signedness_coercion(p)) IN Coerced(q[1], q)
    [] op \in Relations ->
         LET q == AllCoercions(p) IN Coerced(Basic(IF is_type_signed(q[1]) THEN "i8" ELSE "bool"), q)
    [] OTHER -> LET q == AllCoercions(p) IN Coerced(q[1], q)

determine_compatability_and_coerce(t1, t2, op) ==
  LET a == Decayed(t1)  b == Decayed(t2)
      addresses == IF op \in {"+", "-"} THEN {"pointer", "array"} ELSE {"pointer"}
  IN  IF op \in {"+", "-"} \cup Connectives \cup Relations
         /\ (a.class \in addresses \/ b.class \in addresses)
        THEN PointerOperation(a, b, op)
      ELSE IF ~ IsBasic(a) \/ ~ IsBasic(b) THEN Incompatible
      ELSE CoercedBasics(<< a, b >>, op)

---------------------------------------------------------------------------
(* The operators a type has.                                               *)

is_unary_operation_valid_for_type(t, op) ==
  CASE t.class = "function" -> FALSE
    [] op \in {"++", "--"} -> ~ IsVoid(t) /\ t.class \notin {"array", "struct", "union"}
    [] op = "*" -> IsAddress(t)
    [] op = "&" -> ~ IsVoid(t)
    [] op \in {"-", "~"} -> IsValue(t)
    [] op = "!" -> ~ IsVoid(t) /\ t.class \notin {"array", "struct", "pointer", "union"}
    [] OTHER -> FALSE

is_binary_operation_valid_for_type(t, op, side) ==
  CASE op \in Shifts \cup BitOps \cup {"%"} -> t.class = "enum" \/ IsInteger(t)
    [] op \in {"*", "/"} -> t.class = "enum" \/ IsValue(t)
    [] op \in {"+", "-"} -> t.class = "enum" \/ IsValue(t) \/ (IsAddress(t) /\ side = "left")
    [] OTHER -> t.class \in {"enum", "pointer"} \/ IsValue(t)

(* The type both operands of a connective or a comparison are brought to   *)
(* in the code.  Widening comes before the signs are looked at.            *)
get_operand_type_for_logical_operation(t1, t2) ==
  LET a == Decayed(t1)  b == Decayed(t2) IN
  IF ~ IsBasic(a) \/ ~ IsBasic(b) THEN Basic("u64")
  ELSE basic_type_signedness_coercion(
         basic_type_widening_type_coercion(handle_floating_point_coercion(<< a, b >>)))[1]
get_operand_type_for_relational_operation(t1, t2) == get_operand_type_for_logical_operation(t1, t2)
============================================================================
