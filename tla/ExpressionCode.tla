--------------------------- MODULE ExpressionCode ---------------------------
(***************************************************************************)
(* The three address code of an expression: a list of instructions over    *)
(* variables.  Temporaries are assigned once, except the copy a negation   *)
(* works on.                                                               *)
(***************************************************************************)
EXTENDS ExpressionParser

(* An operand is a variable or a constant with its type.  A temporary that *)
(* value numbering found again is named: other code still reads it.        *)
Variable(name, type) == [is |-> "named", name |-> << name >>, type |-> type, valued |-> FALSE]
Temporary(k, type) == [is |-> "temp", name |-> << "t", k >>, type |-> type, valued |-> FALSE]
Literal(c, type) == [is |-> "constant", c |-> c, type |-> type]
IsLiteral(o) == o.is = "constant"
IsTemporary(o) == o.is = "temp"

AssignConst(to, c) == [op |-> "constant", to |-> to, c |-> c]
Assign(to, from) == [op |-> "copy", to |-> to, from |-> from]
Truncate(to, from) == [op |-> "truncate", to |-> to, from |-> from]
InPlaceUnary(op, to) == [op |-> op, to |-> to]
LogicalNot(to, from) == [op |-> "!", to |-> to, from |-> from]
TestNotZero(to, from) == [op |-> "test", to |-> to, from |-> from]
SetNotZero(to) == [op |-> "setne", to |-> to]
(* The result type is the type the operation is carried out in, whatever   *)
(* the assignee has; sign says how a shift is forced.                      *)
Binary(to, a, oper, b, type) ==
  [op |-> "binary", to |-> to, a |-> a, oper |-> oper, b |-> b, type |-> type, sign |-> "dont care"]
(* offset(base, index, multiplier)                                         *)
Lea(to, base, index, multiplier, offset) ==
  [op |-> "lea", to |-> to, base |-> base, index |-> index, multiplier |-> multiplier, offset |-> offset]

NoConstant == Constant("none", 0)
IsBinary(i) == i.op = "binary" /\ ~ IsLiteral(i.b)
IsBinaryWithConst(i) == i.op = "binary" /\ IsLiteral(i.b)

(* What a rule leaves: code, the operand that holds the value and the      *)
(* number of the next temporary.                                           *)
Emitted(code, value, next) == [code |-> code, value |-> value, next |-> next]

emit_constant_from_node(n, k) == Emitted(<< >>, Literal(ConstantOf(n), n.type), k)
(* A variable is read with the type it was declared with.                  *)
emit_identifier(n, k) == Emitted(<< >>, Variable(n.name, n.own), k)

emit_direct_constant_assignment(e) ==
  LET t == Temporary(e.next, e.value.type)
  IN  Emitted(Append(e.code, AssignConst(t, e.value.c)), t, e.next + 1)
unpack_result_package(e) == IF IsLiteral(e.value) THEN emit_direct_constant_assignment(e) ELSE e

(* A negation works on a copy.                                             *)
emit_unary_operation(op, e) ==
  LET copy == Temporary(e.next, e.value.type)
      flag == Temporary(e.next, Basic("u8"))
  IN  IF op = "!" THEN Emitted(Append(e.code, LogicalNot(flag, e.value)), flag, e.next + 1)
      ELSE Emitted(e.code \o << Assign(copy, e.value), InPlaceUnary(op, copy) >>, copy, e.next + 1)

emit_truncating_cast_expression(type, e) ==
  LET t == Temporary(e.next, type)
  IN  Emitted(Append(e.code, Truncate(t, e.value)), t, e.next + 1)

---------------------------------------------------------------------------
(* Binary operations.  The code of the right operand follows that of the   *)
(* left one; a constant on the left gets a temporary after both.           *)

does_binary_expression_use_pointer_arithmetic(n) == n.op \in {"+", "-"} /\ IsAddress(n.left.type)

OperandType(op, type, a, b) ==
  CASE op \in Connectives -> get_operand_type_for_logical_operation(a.type, b.type)
    [] op \in Relations -> IF IsLiteral(b) THEN a.type
                           ELSE get_operand_type_for_relational_operation(a.type, b.type)
    [] OTHER -> type

BinaryCode(op, type, code, a, b, k) ==
  LET t == Temporary(k, type)
  IN  Emitted(Append(code, Binary(t, a, op, b, OperandType(op, type, a, b))), t, k + 1)

(* l and r are the code of the two sides, r without that of l.             *)
LeftUnpacked(l, r) ==
  LET a == unpack_result_package(Emitted(l.code \o r.code, l.value, r.next))
  IN  [code |-> a.code, a |-> a.value, b |-> r.value, next |-> a.next]
RightUnpacked(p) ==
  LET b == unpack_result_package(Emitted(p.code, p.b, p.next))
  IN  [code |-> b.code, a |-> p.a, b |-> b.value, next |-> b.next]
OperandsOf(op, l, r) == IF op \in Connectives THEN RightUnpacked(LeftUnpacked(l, r)) ELSE LeftUnpacked(l, r)
BinaryOf(n, p) == BinaryCode(n.op, n.type, p.code, p.a, p.b, p.next)
emit_binary_expression(n, l, r) == BinaryOf(n, OperandsOf(n.op, l, r))

(* An offset counts elements.                                              *)
LeaMultipliers == {1, 2, 4, 8}
i64 == Basic("i64")
ScaledConstant(n, p, size) ==
  LET t == Temporary(p.next, n.type)
      c == multiply_constant_by_raw_int64_value(p.b.c, size)
  IN  Emitted(Append(p.code, Binary(t, p.a, n.op, Literal(c, i64), i64)), t, p.next + 1)
ScaledVariable(n, p, size) ==
  LET product == Temporary(p.next, i64)
      t == Temporary(p.next + 1, n.type)
  IN  IF n.op = "+" /\ size \in LeaMultipliers
        THEN Emitted(Append(p.code, Lea(t, p.a, p.b, size, NoConstant)), t, p.next + 2)
        ELSE Emitted(p.code \o << Binary(product, p.b, "*", Literal(Constant("LONG", size), i64), i64),
                                  Binary(t, p.a, n.op, product, i64) >>, t, p.next + 2)
PointerCode(n, p) ==
  IF IsLiteral(p.b) THEN ScaledConstant(n, p, TypeSize(n.left.type.to))
  ELSE ScaledVariable(n, p, TypeSize(n.left.type.to))
generate_pointer_arithmetic_for_binary_operation(n, l, r) == PointerCode(n, LeftUnpacked(l, r))

---------------------------------------------------------------------------
RECURSIVE emit_expression(_, _)
SidesOf(n, l, Join(_, _, _)) == Join(n, l, emit_expression(n.right, l.next))
emit_expression(n, k) ==
  CASE n.node = "constant" -> emit_constant_from_node(n, k)
    [] n.node = "identifier" -> emit_identifier(n, k)
    [] n.node = "unary" -> emit_unary_operation(n.op, unpack_result_package(emit_expression(n.kid, k)))
    [] n.node = "truncate" ->
         emit_truncating_cast_expression(n.type, unpack_result_package(emit_expression(n.kid, k)))
    [] n.node = "binary" ->
         IF does_binary_expression_use_pointer_arithmetic(n)
           THEN SidesOf(n, emit_expression(n.left, k), generate_pointer_arithmetic_for_binary_operation)
           ELSE SidesOf(n, emit_expression(n.left, k), emit_binary_expression)

(* x = e: the last operation of e assigns to x itself.                     *)
Redirected(code, x) == [code EXCEPT ![Len(code)].to = x]
emit_assignment_expression(x, e) ==
  LET last == e.code[Len(e.code)] IN
  IF IsLiteral(e.value) THEN Append(e.code, AssignConst(x, e.value.c))
  ELSE IF e.code # << >> /\ last.op = "binary" /\ last.to = e.value THEN Redirected(e.code, x)
  ELSE Append(e.code, Assign(x, e.value))
============================================================================
