---------------------------- MODULE Expressions -----------------------------
(***************************************************************************)
(* An expression from its tokens to the machine.  The parser builds a tree *)
(* from the leaves up; x = e is emitted, simplified until no rule applies, *)
(* perhaps numbered, selected and carried out.  Whatever the tree, x has   *)
(* the value the tree means.                                               *)
(***************************************************************************)
EXTENDS InstructionSelection

CONSTANTS
  Leaves,        (* identifiers and constants                              *)
  UnaryOperators, BinaryOperators,
  CastTypes,
  Destinations,  (* variables to assign to                                 *)
  MaxSize,       (* leaves and operators of an expression                  *)
  Samples,       (* the patterns variables of each width begin with        *)
  Leftovers      (* what a register nobody has written holds               *)

VARIABLES
  stack,    (* parsed, and not yet part of something larger                *)
  phase,
  tree,     (* what is assigned                                            *)
  target,   (* to what                                                     *)
  code,     (* three address code, then instructions                       *)
  again,    (* does a second reader of the left operand follow?            *)
  values,   (* what the variables began with                               *)
  machine
vars == << stack, phase, tree, target, code, again, values, machine >>

---------------------------------------------------------------------------
(* Meanings.  A value of a type is an integer.                             *)

As(t, v) == Wrapped(TypeSize(t), is_type_signed(t), v)
Truths(holds) == IF holds THEN 1 ELSE 0

Operated(op, t, a, b) ==
  CASE op = "+" -> a + b [] op = "-" -> a - b [] op = "*" -> Product(a, b)
    [] op = "/" -> IF b = 0 THEN 0 ELSE Quotient(a, b)
    [] op = "%" -> IF b = 0 THEN 0 ELSE Remainder(a, b)
    [] op = "<<" -> ShiftedLeft(TypeSize(t), a, b) [] op = ">>" -> ShiftedRight(TypeSize(t), a, b)
    [] op = "&" -> BitAnd(8, a, b) [] op = "|" -> BitOr(8, a, b) [] op = "^" -> BitXor(8, a, b)
Related(op, a, b) ==
  CASE op = "<" -> a < b [] op = "<=" -> a <= b [] op = ">" -> a > b [] op = ">=" -> a >= b
    [] op = "==" -> a = b [] op = "!=" -> a # b
    [] op = "&&" -> a # 0 /\ b # 0 [] op = "||" -> a # 0 \/ b # 0

(* An address is compared as an unsigned long.                             *)
BinaryMeaning(n, a, b) ==
  CASE n.op \in Relations /\ (IsAddress(n.left.type) \/ IsAddress(n.right.type)) ->
         Truths(Related(n.op, As(Basic("u64"), a), As(Basic("u64"), b)))
    [] n.op \in Relations \cup Connectives -> Truths(Related(n.op, a, b))
    [] IsAddress(n.left.type) -> As(n.type, Operated(n.op, n.type, a, b * TypeSize(n.left.type.to)))
    [] n.op \in Shifts -> As(n.type, Operated(n.op, n.type, As(n.type, a), b))
    [] OTHER -> As(n.type, Operated(n.op, n.type, As(n.type, a), As(n.type, b)))
UnaryMeaning(n, v) ==
  CASE n.op = "!" -> Truths(v = 0)
    [] n.op = "-" -> As(n.type, As(n.kid.type, - v))
    [] n.op = "~" -> As(n.type, As(n.kid.type, - v - 1))
RECURSIVE Meaning(_, _)
Meaning(n, env) ==
  CASE n.node = "constant" -> As(n.type, n.val)
    [] n.node = "identifier" -> As(n.type, As(n.own, env[n.name]))
    [] n.node = "unary" -> UnaryMeaning(n, Meaning(n.kid, env))
    [] n.node = "truncate" -> As(n.type, Meaning(n.kid, env))
    [] n.node = "binary" -> BinaryMeaning(n, Meaning(n.left, env), Meaning(n.right, env))

(* A division by zero or out of range means nothing, nor does a shift by   *)
(* more than there are bits or a byte can hold.  Arithmetic on the result  *)
(* of a comparison, one byte, may be folded in the wider type of what was  *)
(* compared: it is left out when it leaves the byte.                       *)
IsComparison(n) == n.node = "binary" /\ n.op \in Relations
DefinedHere(n, a, b) ==
  CASE n.op \in {"/", "%"} -> b # 0 /\ Quotient(As(n.type, a), As(n.type, b)) = As(n.type, Quotient(As(n.type, a), As(n.type, b)))
    [] n.op \in {"+", "-", "*"} /\ IsComparison(n.left) /\ TypeSize(n.type) = 1 ->
         Operated(n.op, n.type, a, b) = As(n.type, Operated(n.op, n.type, a, b))
    [] n.op \in Shifts -> b \in 0 .. Bits[TypeSize(n.type)] - 1 /\ b < Modulus(1)
    [] OTHER -> TRUE
RECURSIVE Defined(_, _)
Defined(n, env) ==
  CASE n.node \in {"unary", "truncate"} -> Defined(n.kid, env)
    [] n.node = "binary" -> /\ Defined(n.left, env) /\ Defined(n.right, env)
                            /\ DefinedHere(n, Meaning(n.left, env), Meaning(n.right, env))
    [] OTHER -> TRUE

RECURSIVE NamesIn(_)
NamesIn(n) ==
  CASE n.node = "identifier" -> {[name |-> n.name, type |-> n.own]}
    [] n.node \in {"unary", "truncate"} -> NamesIn(n.kid)
    [] n.node = "binary" -> NamesIn(n.left) \cup NamesIn(n.right)
    [] OTHER -> {}

---------------------------------------------------------------------------
(* The parser.  What an operation on constants gives has a twin: the same  *)
(* operation on variables of their types that hold the same.               *)

Entry(n, twin, size) == [tree |-> n, twin |-> twin, size |-> size]
TwinOf(n) == IF IsConstant(n) THEN Identifier(<< n.val >>, n.type) ELSE ErrorNode
SizeOf(s) == SumOf[[k \in DOMAIN s |-> s[k].size]]
Top == stack[Len(stack)]
Below == stack[Len(stack) - 1]
(* The last k entries give way to one, if the parser accepts it.           *)
Reduce(k, n, twin) ==
  /\ ~ IsError(n)
  /\ SizeOf(stack) < MaxSize
  /\ stack' = Append(SubSeq(stack, 1, Len(stack) - k), Entry(n, twin, SizeOf(SubSeq(stack, Len(stack) - k + 1, Len(stack))) + 1))
  /\ UNCHANGED << phase, tree, target, code, again, values, machine >>

Leaf == /\ phase = "parsing"
        /\ \E n \in Leaves : Reduce(0, n, TwinOf(n))
Unary == /\ phase = "parsing" /\ stack # << >>
         /\ \E op \in UnaryOperators : Reduce(1, unary_expression(op, Top.tree), unary_expression(op, TwinOf(Top.tree)))
CastTo == /\ phase = "parsing" /\ stack # << >>
         /\ \E t \in CastTypes : Reduce(1, cast_expression(t, Top.tree), cast_expression(t, TwinOf(Top.tree)))
BinaryWith(op) == Reduce(2, binary_expression(Below.tree, op, Top.tree), binary_expression(TwinOf(Below.tree), op, TwinOf(Top.tree)))
Operation == /\ phase = "parsing" /\ Len(stack) > 1
             /\ \E op \in BinaryOperators : BinaryWith(op)
Third == stack[Len(stack) - 2]
Choice == /\ phase = "parsing" /\ Len(stack) > 2
          /\ Reduce(3, ternary_expression(Third.tree, Below.tree, Top.tree), ErrorNode)

---------------------------------------------------------------------------
(* A choice is code of several blocks: it is only parsed here.             *)
RECURSIVE IsStraight(_)
IsStraight(n) ==
  CASE n.node \in {"unary", "truncate"} -> IsStraight(n.kid)
    [] n.node = "binary" -> IsStraight(n.left) /\ IsStraight(n.right)
    [] OTHER -> n.node # "ternary"

assignment(x, s) ==
  /\ s.type # NoType
  /\ tree' = s.source
  /\ target' = x
  /\ code' = emit_assignment_expression(x, emit_expression(s.source, 1))
Assignment ==
  /\ phase = "parsing" /\ Len(stack) = 1 /\ IsStraight(Top.tree)
  /\ \E x \in Destinations : assignment(x, is_ast_node_assignable_to_destination_type(x.type, Top.tree))
  /\ phase' = "coded"
  /\ UNCHANGED << stack, again, values, machine >>

Simplify ==
  /\ phase = "coded"
  /\ code' \in simplifier_pass(code)
  /\ UNCHANGED << stack, phase, tree, target, again, values, machine >>
Sweep ==
  /\ phase = "coded" /\ simplifier_pass(code) = {}
  /\ code' = sweep(code)
  /\ phase' = "simplified"
  /\ UNCHANGED << stack, tree, target, again, values, machine >>

(* Value numbering replaces a later computation of the left operand by a   *)
(* copy of the temporary.                                                  *)
OperandFields == {"to", "from", "a", "b", "base", "index"}
Marked(o, v) == IF variables_equal(o, v) THEN [o EXCEPT !.valued = TRUE] ELSE o
ValueNamed(i, v) == [f \in DOMAIN i |-> IF f \in OperandFields THEN Marked(i[f], v) ELSE i[f]]
LeftOperand == emit_expression(tree.left, 1).value
NumberedAs(v) ==
  /\ \E j \in DOMAIN code : code[j].op = "binary" /\ code[j].to = v
  /\ code' = Append([j \in DOMAIN code |-> ValueNamed(code[j], v)],
                    Assign(Variable("again", v.type), [v EXCEPT !.valued = TRUE]))
global_value_number ==
  /\ phase = "simplified" /\ ~ again
  /\ tree.node = "binary" /\ target.name \notin {<< v.name >> : v \in NamesIn(tree.left)}
  /\ NumberedAs(LeftOperand)
  /\ again' = TRUE
  /\ UNCHANGED << stack, phase, tree, target, values, machine >>

Select ==
  /\ phase = "simplified"
  /\ code' = selected(code)
  /\ phase' = "selected"
  /\ UNCHANGED << stack, tree, target, again, values, machine >>

(* A variable of one or two bytes has anything above its value in its      *)
(* register.                                                               *)
Loaded(env, leftover) ==
  Machine([r \in {<< v.name >> : v \in NamesIn(tree)} |->
             LET v == CHOOSE u \in NamesIn(tree) : << u.name >> = r
             IN  Merged(leftover, TypeSize(v.type), env[v.name])], leftover)
Execute ==
  /\ phase = "selected"
  /\ \E env \in [{v.name : v \in NamesIn(tree)} -> UNION {Samples[w] : w \in Widths}],
        leftover \in Leftovers :
       /\ \A v \in NamesIn(tree) : env[v.name] \in Samples[TypeSize(v.type)]
       /\ values' = env
       /\ machine' = Run(Loaded(env, leftover), code)
  /\ phase' = "executed"
  /\ UNCHANGED << stack, tree, target, code, again >>

---------------------------------------------------------------------------
Init ==
  /\ stack = << >> /\ phase = "parsing" /\ tree = ErrorNode /\ target = ErrorNode
  /\ code = << >> /\ again = FALSE /\ values = << >> /\ machine = Machine(<< >>, 0)
Next == \/ Leaf \/ Unary \/ CastTo \/ Operation \/ Choice \/ Assignment \/ Simplify \/ Sweep
        \/ global_value_number \/ Select \/ Execute
Spec == Init /\ [][Next]_vars /\ WF_vars(Simplify \/ Sweep)
---------------------------------------------------------------------------
TypeOK ==
  /\ phase \in {"parsing", "coded", "simplified", "selected", "executed"}
  /\ \A k \in DOMAIN stack : ~ IsError(stack[k].tree)
  /\ \A k \in DOMAIN stack : IsConstant(stack[k].tree) =>
       stack[k].tree.val = Stored(stack[k].tree.cls, stack[k].tree.val).val
  /\ SizeOf(stack) \in 0 .. MaxSize
  /\ phase \in {"coded", "simplified"} => \A j \in DOMAIN code : TypeSize(code[j].to.type) \in Widths
  /\ \A r \in DOMAIN machine.regs : machine.regs[r] \in 0 .. Modulus(8) - 1

(* What is known not to keep the meaning, and is left to the runs about    *)
(* it: a value that becomes wider while its sign changes (it is extended   *)
(* by the sign it gets), a truncation to what becomes wider again, a       *)
(* division of one or two bytes, the division of a signed number by a      *)
(* power of two, the comparison or negation of a variable that was cast    *)
(* (it is taken as it was declared), and the remainder by a power of two   *)
(* that goes to a variable of the other sign (it takes that sign).         *)
Alters(from, to) == TypeSize(from) < TypeSize(to) /\ is_type_signed(from) # is_type_signed(to)
(* The type of the variable an operand ends up in.                         *)
RECURSIVE CarriedType(_)
CarriedType(n) ==
  CASE n.node = "identifier" -> n.own
    [] n.node = "unary" /\ n.op # "!" -> CarriedType(n.kid)
    [] n.node = "unary" /\ n.op = "!" -> Basic("u8")
    [] OTHER -> n.type
IsTruthValue(n) == (n.node = "binary" /\ n.op \in Relations \cup Connectives) \/ (n.node = "unary" /\ n.op = "!")
Keeps(n, to) == \/ IsTruthValue(n)
                \/ /\ ~ Alters(n.type, to) /\ ~ Alters(CarriedType(n), to)
                   /\ ~ (n.node = "truncate" /\ n.type = Basic("u32") /\ TypeSize(to) = 8)
IsMultiplied(n) ==  (* an offset that lea does not scale is multiplied as an i64 *)
  n.op = "-" \/ (n.op = "+" /\ TypeSize(n.left.type.to) \notin LeaMultipliers)
ByPowerOf2(n, op) == n.node = "binary" /\ n.op = op /\ IsConstant(n.right) /\ n.right.val \in PowersOf2 \ {1}
PlainOperation(n) ==
  CASE IsAddress(n.left.type) \/ IsAddress(n.right.type) ->
         \A t \in {CarriedType(n.left), CarriedType(n.right)} : TypeSize(t) = 8 \/ is_type_signed(t) = IsMultiplied(n)
    [] n.op \in Relations -> is_type_signed(OperandType(n.op, n.type, [is |-> "named", type |-> CarriedType(n.left)],
                                                        IF IsConstant(n.right) THEN [is |-> "constant"]
                                                        ELSE [is |-> "named", type |-> CarriedType(n.right)]))
                              = is_type_signed(n.left.type)
    [] n.op \in Connectives -> TRUE
    [] OTHER -> /\ Keeps(n.left, n.type)
                /\ n.op \notin Shifts => Keeps(n.right, n.type)
                /\ n.op \in {"/", "%"} => TypeSize(n.type) >= 4
                /\ is_type_signed(n.type) => ~ ByPowerOf2(n, "/")
                /\ is_type_signed(n.type) /\ n.left.node # "identifier" => ~ ByPowerOf2(n, "%")
RECURSIVE Plain(_)
Plain(n) ==
  CASE n.node = "identifier" -> ~ Alters(n.own, n.type)
    [] n.node = "unary" -> /\ Plain(n.kid) /\ Keeps(n.kid, n.type)
                           /\ n.op # "!" => TypeSize(CarriedType(n.kid)) = TypeSize(n.kid.type)
    [] n.node = "truncate" -> Plain(n.kid) /\ TypeSize(n.type) < TypeSize(CarriedType(n.kid))
    [] n.node = "binary" -> Plain(n.left) /\ Plain(n.right) /\ PlainOperation(n)
    [] OTHER -> TRUE

PlainlyAssigned(n, type) ==
  Plain(n) /\ Keeps(n, type) /\ (ByPowerOf2(n, "%") => is_type_signed(n.type) = is_type_signed(type))

Ran == phase = "executed" /\ PlainlyAssigned(tree, target.type) /\ Defined(tree, values)
Holding(v) == As(v.type, Pattern(machine, v.name))

(* x = e leaves in x what e means.                                         *)
ComputesItsMeaning == Ran => Holding(target) = As(target.type, Meaning(tree, values))

(* The remainder of a signed number by a power of two is exact.            *)
SignedModulusExact ==
  phase = "executed" /\ ByPowerOf2(tree, "%") /\ Plain(tree.left) /\ tree.type = target.type /\ Defined(tree, values)
    => Holding(target) = As(target.type, Meaning(tree, values))

(* A later reader of a numbered temporary finds what it was computed as.   *)
(* The connectives are known to overwrite theirs: || always, && when it    *)
(* came from a comparison.                                                 *)
Overwritten(n) == n.op = "||" \/ (n.op = "&&" /\ IsComparison(n.left))
NumberedSurvive ==
  Ran /\ again /\ ~ Overwritten(tree) => Holding(Variable("again", LeftOperand.type)) = As(LeftOperand.type, Meaning(tree.left, values))

(* An assignment changes no other variable.                                *)
VariablesSurvive ==
  phase = "executed" =>
    \A v \in NamesIn(tree) : << v.name >> # target.name =>
      As(v.type, Pattern(machine, << v.name >>)) = As(v.type, values[v.name])

(* The processor stops only a division that means nothing.                 *)
TrapsAreDeserved == Ran => ~ machine.trap

(* Folding constants gives what the program would have computed.           *)
FoldingAgrees ==
  \A k \in DOMAIN stack :
    LET n == stack[k].tree  twin == stack[k].twin
        env == [name \in {v.name : v \in NamesIn(twin)} |-> UnsignedOf(8, name[1])]
    IN  IsConstant(n) /\ ~ IsError(twin) /\ Plain(twin) /\ Defined(twin, env) => As(n.type, n.val) = Meaning(twin, env)

(* Both operands of an operation, and both branches of a choice, are       *)
(* brought to one size, sign and kind.                                     *)
Alike(a, b) == /\ TypeSize(a) = TypeSize(b) /\ is_type_signed(a) = is_type_signed(b)
               /\ IsFloat(a) = IsFloat(b)
OperandsAgree ==
  \A k \in DOMAIN stack :
    LET n == stack[k].tree IN
    /\ n.node \in {"binary", "ternary"} /\ (n.node = "binary" => n.op \notin Connectives)
    /\ ~ IsAddress(n.left.type) /\ ~ IsAddress(n.right.type)
    => Alike(n.left.type, n.right.type)

(* The rules of the simplifier come to an end.                             *)
SimplifierEnds == phase = "coded" ~> phase = "simplified"
=============================================================================
