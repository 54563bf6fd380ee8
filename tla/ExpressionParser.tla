-------------------------- MODULE ExpressionParser --------------------------
(***************************************************************************)
(* The levels of the expression grammar.  Each takes the syntax trees its  *)
(* sub-levels returned, checks that the operator applies, coerces the      *)
(* operands, folds constants and returns the tree of the whole; an error   *)
(* node stands for a rejected expression.                                  *)
(***************************************************************************)
EXTENDS ConstantFolding

ConstantNode(cls, type, val) == [node |-> "constant", cls |-> cls, type |-> type, val |-> val]
Identifier(name, type) == [node |-> "identifier", name |-> name, own |-> type, type |-> type]
UnaryNode(op, kid, type) == [node |-> "unary", op |-> op, kid |-> kid, type |-> type]
TruncatingCast(kid, type) == [node |-> "truncate", kid |-> kid, type |-> type]
BinaryNode(op, a, b, type) == [node |-> "binary", op |-> op, left |-> a, right |-> b, type |-> type]
TernaryNode(c, a, b, type) == [node |-> "ternary", if |-> c, left |-> a, right |-> b, type |-> type]
ErrorNode == [node |-> "error", type |-> NoType]

IsConstant(n) == n.node = "constant"
IsError(n) == n.node = "error"
Typed(n, t) == [n EXCEPT !.type = t]
ConstantOf(n) == Constant(n.cls, n.val)
WithConstant(n, c) == [n EXCEPT !.cls = c.cls, !.val = c.val]
CoercedNode(n) == IF IsConstant(n) THEN WithConstant(n, coerce_constant(ConstantOf(n), n.type)) ELSE n

(* A literal.  One that is forced to be an unsigned long is stored as a    *)
(* signed one; true and false are unsigned bytes.                          *)
constant(suffix, val) ==
  CASE suffix = "u64" -> ConstantNode("LONG", Basic("u64"), SignedOf(8, val))
    [] suffix = "bool" -> ConstantNode("BYTE_U", Basic("u8"), val)
    [] OTHER -> ConstantNode(TargetClass(Basic(suffix)), Basic(suffix), val)

---------------------------------------------------------------------------
(* The type of an operation.  A constant first takes the type of an        *)
(* operand that is none (the offset of an address is an i64), and both     *)
(* operands are then coerced.                                              *)

TakesTypeOf(other) == IF IsAddress(other.type) THEN Basic("i64") ELSE other.type
Before(n, other) == IF IsConstant(n) /\ ~ IsConstant(other) THEN TakesTypeOf(other) ELSE n.type

Met(r, a, b) == IF r.type = NoType THEN [type |-> NoType, left |-> a, right |-> b]
                ELSE [type |-> r.type, left |-> CoercedNode(Typed(a, r.a)), right |-> CoercedNode(Typed(b, r.b))]
determine_type_compatability_for_expression(a, b, op) ==
  Met(determine_compatability_and_coerce(Before(a, b), Before(b, a), op), a, b)

(* What may be assigned to a destination: the type, and the source as the  *)
(* check leaves it.                                                        *)
NotAssignable(n) == [type |-> NoType, source |-> n]
is_ast_node_assignable_to_destination_type(d, n) ==
  IF ~ IsConstant(n) THEN [type |-> types_assignable(d, n.type), source |-> n]
  ELSE IF types_assignable_constant(d, n.type) = NoType THEN NotAssignable(n)
  ELSE IF d.class = "enum" /\ SignedOf(4, n.val) \notin d.members THEN NotAssignable(n)
  ELSE LET t == IF IsPointer(d) THEN Basic("u64") ELSE d
       IN  [type |-> t, source |-> CoercedNode(Typed(n, t))]

(* May the constant be moved to the right?                                 *)
is_type_commutative_for_operation(t, op) ==
  op \in {"==", "!="} \/ (op \in {"*", "+"} \cup BitOps /\ ~ IsFloat(t))

ConstantLast(m, op) ==
  IF is_type_commutative_for_operation(m.type, op) /\ IsConstant(m.left)
    THEN BinaryNode(op, m.right, m.left, m.type)
    ELSE BinaryNode(op, m.left, m.right, m.type)

Folded(m, Fold(_, _)) == WithConstant(m.left, Fold(ConstantOf(m.left), ConstantOf(m.right)))
BothConstant(m) == IsConstant(m.left) /\ IsConstant(m.right)

---------------------------------------------------------------------------
(* The levels.  The right operand of * / % is checked by the type of the   *)
(* left one, that of || as if the operator were &&.                        *)

Applies(a, b, op) == /\ ~ IsError(a) /\ ~ IsError(b)
                     /\ is_binary_operation_valid_for_type(a.type, op, "left")
                     /\ is_binary_operation_valid_for_type(b.type, op, "right")

multiplicative_expression(a, op, b) ==
  LET m == determine_type_compatability_for_expression(a, b, op)
      Fold(x, y) == CASE op = "*" -> multiply_constant_nodes(x, y)
                      [] op = "/" -> divide_constant_nodes(x, y)
                      [] op = "%" -> mod_constant_nodes(x, y)
      Divisor == ConstantOf(m.right)
  IN  IF \/ IsError(a) \/ IsError(b)
         \/ ~ is_binary_operation_valid_for_type(a.type, op, "left")
         \/ ~ is_binary_operation_valid_for_type(a.type, op, "right")
         \/ m.type = NoType THEN ErrorNode
      ELSE IF op # "*" /\ IsConstant(b) /\ is_constant_node_value_0(Divisor) THEN ErrorNode
      ELSE IF op = "%" /\ IsConstant(b) /\ is_type_signed(m.type) /\ is_constant_node_value_negative(Divisor)
             THEN ErrorNode
      ELSE IF BothConstant(m) THEN Typed(Folded(m, Fold), m.type)
      ELSE ConstantLast(m, op)

additive_expression(a, op, b) ==
  LET m == determine_type_compatability_for_expression(a, b, op)
      Fold(x, y) == IF op = "+" THEN add_constant_nodes(x, y) ELSE subtract_constant_nodes(x, y)
  IN  IF ~ Applies(a, b, op) \/ IsVoidPointer(a.type) \/ m.type = NoType THEN ErrorNode
      ELSE IF BothConstant(m) THEN Typed(Folded(m, Fold), m.type)
      ELSE ConstantLast(m, op)

(* From here on a folded constant keeps the type of its operands.          *)
shift_expression(a, op, b) ==
  LET m == determine_type_compatability_for_expression(a, b, op)
      Fold(x, y) == IF op = "<<" THEN left_shift_constant_nodes(x, y) ELSE right_shift_constant_nodes(x, y)
  IN  IF ~ Applies(a, b, op) \/ m.type = NoType THEN ErrorNode
      ELSE IF BothConstant(m) THEN Folded(m, Fold)
      ELSE BinaryNode(op, m.left, m.right, m.type)

relational_expression(a, op, b) ==
  LET m == determine_type_compatability_for_expression(a, b, op)
      Fold(x, y) == CASE op = ">" -> greater_than_constant_nodes(x, y)
                      [] op = "<" -> less_than_constant_nodes(x, y)
                      [] op = ">=" -> greater_than_or_equal_to_constant_nodes(x, y)
                      [] op = "<=" -> less_than_or_equal_to_constant_nodes(x, y)
  IN  IF ~ Applies(a, b, op) \/ m.type = NoType THEN ErrorNode
      ELSE IF BothConstant(m) THEN Folded(m, Fold)
      ELSE BinaryNode(op, m.left, m.right, m.type)

(* The check for incompatible operands looks at another variable and lets  *)
(* them pass, with no type.                                                *)
equality_expression(a, op, b) ==
  LET m == determine_type_compatability_for_expression(a, b, op)
      Fold(x, y) == IF op = "==" THEN equals_constant_nodes(x, y) ELSE not_equals_constant_nodes(x, y)
  IN  IF ~ Applies(a, b, op) THEN ErrorNode
      ELSE IF BothConstant(m) THEN Folded(m, Fold)
      ELSE ConstantLast(m, op)

BitwiseLevel(a, op, b, Fold(_, _)) ==
  LET m == determine_type_compatability_for_expression(a, b, op) IN
  IF ~ Applies(a, b, op) \/ m.type = NoType THEN ErrorNode
  ELSE IF BothConstant(m) THEN Folded(m, Fold)
  ELSE ConstantLast(m, op)
and_expression(a, b) == BitwiseLevel(a, "&", b, bitwise_and_constant_nodes)
exclusive_or_expression(a, b) == BitwiseLevel(a, "^", b, bitwise_exclusive_or_constant_nodes)
inclusive_or_expression(a, b) == BitwiseLevel(a, "|", b, bitwise_or_constant_nodes)

(* The result is written into the widest field, whatever the class.        *)
ConnectiveLevel(a, op, b, Fold(_, _)) ==
  LET m == determine_type_compatability_for_expression(a, b, op) IN
  IF ~ Applies(a, b, "&&") \/ m.type = NoType THEN ErrorNode
  ELSE IF BothConstant(m) THEN Folded(m, Fold)
  ELSE BinaryNode(op, m.left, m.right, m.type)
logical_and_expression(a, b) ==
  ConnectiveLevel(a, "&&", b, LAMBDA x, y : Stored(x.cls,
    Truth(~ is_constant_node_value_0(x) /\ ~ is_constant_node_value_0(y))))
logical_or_expression(a, b) ==
  ConnectiveLevel(a, "||", b, LAMBDA x, y : Stored(x.cls,
    Truth(~ is_constant_node_value_0(x) \/ ~ is_constant_node_value_0(y))))

(* The branches are coerced in type only.                                  *)
ternary_expression(c, a, b) ==
  LET r == determine_ternary_compatibility(a.type, b.type) IN
  IF \/ IsError(c) \/ IsError(a) \/ IsError(b)
     \/ ~ is_type_valid_for_conditional(c.type) \/ r.type = NoType THEN ErrorNode
  ELSE TernaryNode(c, Typed(a, r.a), Typed(b, r.b), r.type)

(* A constant stays the constant node it was, with its type.               *)
unary_expression(op, n) ==
  LET c == ConstantOf(n) IN
  IF IsError(n) \/ ~ is_unary_operation_valid_for_type(n.type, op) THEN ErrorNode
  ELSE IF IsConstant(n) THEN
    WithConstant(n, CASE op = "-" -> negate_constant_value(c)
                      [] op = "--" -> decrement_constant_value(c)
                      [] op = "++" -> increment_constant_value(c)
                      [] op = "!" -> logical_not_constant_value(c)
                      [] op = "~" -> bitwise_not_constant_value(c))
  ELSE UnaryNode(op, n, IF op = "!" THEN Basic("bool") ELSE n.type)

NotCastable == "no"
Castable == "castable"
Truncating == "truncating"
RECURSIVE are_types_castable(_, _, _)
are_types_castable(to, from, truncation) ==
  LET FitsOrTruncates(size) ==
        IF truncation /\ size > TypeSize(to) THEN Truncating ELSE Castable
      Through == IF from.mutable = FALSE /\ to.mutable THEN NotCastable
                 ELSE IF IsVoidPointer(to) \/ IsVoidPointer(from) THEN Castable
                 ELSE IF to.contiguous # from.contiguous THEN NotCastable
                 ELSE are_types_castable(to.to, from.to, FALSE)
  IN  CASE IsVoid(from) \/ IsVoid(to) -> NotCastable
        [] to.class = "enum" -> IF IsInteger(from) THEN Castable ELSE NotCastable
        [] to.class = "basic" ->
             (CASE from.class = "enum" -> FitsOrTruncates(TypeSize(from.int))
                [] from.class = "basic" -> FitsOrTruncates(TypeSize(from))
                [] IsPointer(from) -> IF to.name \in {"i64", "u64"} THEN Castable ELSE NotCastable
                [] OTHER -> NotCastable)
        [] to.class = "pointer" ->
             (CASE from.class = "basic" -> IF IsFloat(from) THEN NotCastable ELSE Castable
                [] IsAddress(from) -> Through
                [] OTHER -> NotCastable)
        [] OTHER -> NotCastable

(* A cast that keeps every bit only gives the node another type.           *)
cast_expression(to, n) ==
  LET castability == are_types_castable(to, n.type, ~ IsConstant(n)) IN
  IF IsError(n) \/ castability = NotCastable THEN ErrorNode
  ELSE IF IsConstant(n) THEN CoercedNode(Typed(n, to))
  ELSE IF castability = Truncating THEN TruncatingCast(n, to)
  ELSE Typed(n, to)

binary_expression(a, op, b) ==
  CASE op \in {"*", "/", "%"} -> multiplicative_expression(a, op, b)
    [] op \in {"+", "-"} -> additive_expression(a, op, b)
    [] op \in Shifts -> shift_expression(a, op, b)
    [] op \in {"<", "<=", ">", ">="} -> relational_expression(a, op, b)
    [] op \in {"==", "!="} -> equality_expression(a, op, b)
    [] op = "&" -> and_expression(a, b)
    [] op = "^" -> exclusive_or_expression(a, b)
    [] op = "|" -> inclusive_or_expression(a, b)
    [] op = "&&" -> logical_and_expression(a, b)
    [] op = "||" -> logical_or_expression(a, b)
============================================================================
