----------------------------- MODULE Simplifier -----------------------------
(***************************************************************************)
(* The peephole rules of the instruction selector over three address code. *)
(* A rule looks at up to three instructions in a row, the window that      *)
(* begins at i, and gives the set of codes it leaves: none when it does    *)
(* not match.  The order in which windows and rules are tried is left      *)
(* open.  Rules about memory and floats are left out.                      *)
(***************************************************************************)
EXTENDS ExpressionCode

Present(code, i) == i \in DOMAIN code
(* The instructions from i to j give way to those of new.                  *)
Replaced(code, i, j, new) == SubSeq(code, 1, i - 1) \o new \o SubSeq(code, j + 1, Len(code))
Without(code, i) == Replaced(code, i, i, << >>)

ReadsOf(i) ==
  CASE i.op \in {"constant", "setne"} -> << >>
    [] i.op \in {"copy", "truncate", "!", "test"} -> << i.from >>
    [] i.op = "binary" -> << i.a, i.b >>
    [] i.op = "lea" -> << i.base, i.index >>
    [] OTHER -> << i.to >>
variables_equal(v, w) == v.is \in {"temp", "named"} /\ v.is = w.is /\ v.name = w.name
Uses(i, v) == Cardinality({p \in DOMAIN ReadsOf(i) : variables_equal(ReadsOf(i)[p], v)})
SumOf[s \in Seq(Nat)] == IF s = << >> THEN 0 ELSE Head(s) + SumOf[Tail(s)]
UseCount(code, v) == SumOf[[j \in 1 .. Len(code) |-> Uses(code[j], v)]]

is_constant_value_zero(c) == c.val = 0
is_constant_value_one(c) == c.val = 1
is_constant_value_positive(c) == c.val > 0
PowersOf2 == {2 ^ k : k \in 0 .. 15}
is_constant_power_of_2(c) == c.val \in PowersOf2
is_constant_lea_compatible_power_of_2(c) == c.val \in LeaMultipliers
log2_of_constant(c) == CHOOSE k \in 0 .. 15 : 2 ^ k = c.val
emit_direct_integer_constant(v, type) == Literal(Stored(TargetClass(type), v), type)

InPlaceOps == {"+", "-", "*", "<<", ">>"}
is_type_lea_compatible(t) == IsPointer(t) \/ (IsBasic(t) /\ t.name \in {"u32", "i32", "i64", "u64"})
ConstantIn(i) == i.op = "constant" /\ IsTemporary(i.to)

---------------------------------------------------------------------------
(* Constants move into what reads them and are folded there.               *)

ConstantCopied(code, i) ==
  IF /\ Present(code, i + 1) /\ ConstantIn(code[i]) /\ code[i + 1].op = "copy"
     /\ UseCount(code, code[i].to) <= 1 /\ variables_equal(code[i].to, code[i + 1].from)
    THEN {Replaced(code, i, i + 1, << AssignConst(code[i + 1].to, code[i].c) >>)} ELSE {}

(* The reader may be one instruction further.                              *)
ConstantIntoOperand2(code, i) ==
  {Without([code EXCEPT ![j].b = Literal(code[i].c, code[i].to.type)], i) :
     j \in {k \in {i + 1, i + 2} : /\ Present(code, k) /\ ConstantIn(code[i]) /\ IsBinary(code[k])
                                   /\ UseCount(code, code[i].to) <= 1
                                   /\ variables_equal(code[i].to, code[k].b)}}

FoldedConstants(op, x, y) ==
  CASE op = "*" -> multiply_constants(y, x)
    [] op = "+" -> add_constants(y, x)
    [] op = "-" -> subtract_constants(x, y)
    [] op = "<<" -> left_shift_constants(x, y)
    [] op = ">>" -> right_shift_constants(x, y)
ConstantsFolded(code, i) ==
  IF /\ Present(code, i + 1) /\ ConstantIn(code[i]) /\ IsBinaryWithConst(code[i + 1])
     /\ code[i + 1].oper \in InPlaceOps /\ variables_equal(code[i].to, code[i + 1].a)
    THEN {Replaced(code, i, i + 1,
            << AssignConst(code[i + 1].to, FoldedConstants(code[i + 1].oper, code[i].c, code[i + 1].b.c)) >>)}
    ELSE {}

ConnectiveFolded(code, i) ==
  IF /\ Present(code, i + 1) /\ code[i].op = "constant" /\ IsBinaryWithConst(code[i + 1])
     /\ code[i + 1].oper \in Connectives /\ variables_equal(code[i].to, code[i + 1].a)
    THEN LET Fold(x, y) == IF code[i + 1].oper = "||" THEN logical_or_constants(x, y) ELSE logical_and_constants(x, y)
             folded == AssignConst(code[i + 1].to, Fold(code[i + 1].b.c, code[i].c))
         IN  {IF UseCount(code, code[i].to) = 1 THEN Replaced(code, i, i + 1, << folded >>)
              ELSE [code EXCEPT ![i + 1] = folded]}
    ELSE {}

(* The first operand is read where the temporary was copied from.          *)
CopyIntoOperand1(code, i) ==
  IF /\ Present(code, i + 1) /\ code[i].op = "copy" /\ IsTemporary(code[i].to)
     /\ IsBinary(code[i + 1]) /\ variables_equal(code[i].to, code[i + 1].a)
    THEN {[code EXCEPT ![i + 1].a = code[i].from]} ELSE {}

---------------------------------------------------------------------------
(* One variable twice.                                                     *)

Derived(tag, v, type) == [is |-> "temp", name |-> Append(v.name, tag), type |-> type, valued |-> FALSE]
TestInstead(to, from) ==
  LET tested == Derived("tested", to, Basic("u8"))  set == Derived("set", to, Basic("u8"))
  IN  << TestNotZero(tested, from), SetNotZero(set), Assign(to, set) >>

SameOperandTwice(code, i) ==
  LET b == code[i]
      Given(v) == << AssignConst(b.to, emit_direct_integer_constant(v, b.type).c) >>
      New == CASE b.oper = "+" -> << [b EXCEPT !.oper = "*", !.b = emit_direct_integer_constant(2, b.type)] >>
               [] b.oper \in {"-", "^", "!=", ">", "<"} -> Given(0)
               [] b.oper \in {"==", ">=", "<="} -> Given(1)
               [] b.oper \in {"&", "|"} -> << Assign(b.to, b.a) >>
               [] b.oper \in Connectives -> TestInstead(b.to, b.a)
               [] OTHER -> << b >>
  IN  IF IsBinary(b) /\ variables_equal(b.a, b.b) THEN {Replaced(code, i, i, New)} \ {code} ELSE {}

---------------------------------------------------------------------------
(* Two operations in a row.                                                *)

(* Mutant of ChainedBy: the constants are added whatever the operators.    *)
ChainedAsSums(first, second) == [second EXCEPT !.b.c = add_constants(@, first.b.c), !.a = first.a]
ChainedBy(first, second) ==
  CASE second.oper = "+" /\ first.oper = "+" ->
         [second EXCEPT !.b.c = add_constants(@, first.b.c), !.a = first.a]
    [] {second.oper, first.oper} = {"+", "-"} ->
         [second EXCEPT !.b.c = subtract_constants(@, first.b.c), !.a = first.a]
    [] OTHER ->
         LET sum == subtract_constants(negate_three_address_consant(second.b.c), first.b.c)
         IN  IF is_constant_value_positive(sum) THEN [second EXCEPT !.oper = "+", !.b.c = sum, !.a = first.a]
             ELSE [second EXCEPT !.b.c = negate_three_address_consant(sum), !.a = first.a]
(* The first operation goes when it assigns to a temporary.                *)
ConstantsChained(code, i) ==
  IF /\ Present(code, i + 1) /\ IsBinaryWithConst(code[i]) /\ IsBinaryWithConst(code[i + 1])
     /\ {code[i].oper, code[i + 1].oper} \subseteq {"+", "-"}
     /\ variables_equal(code[i].to, code[i + 1].a)
    THEN LET chained == ChainedBy(code[i], code[i + 1])
         IN  {IF IsTemporary(code[i].to) THEN Replaced(code, i, i + 1, << chained >>)
              ELSE [code EXCEPT ![i + 1] = chained]}
    ELSE {}

SumPlusConstant(code, i) ==
  IF /\ Present(code, i + 1) /\ IsBinary(code[i]) /\ IsBinaryWithConst(code[i + 1])
     /\ code[i].oper = "+" /\ code[i + 1].oper = "+" /\ IsTemporary(code[i].to)
     /\ variables_equal(code[i].to, code[i + 1].a) /\ is_type_lea_compatible(code[i].type)
    THEN {Replaced(code, i, i + 1, << Lea(code[i + 1].to, code[i].a, code[i].b, 1, code[i + 1].b.c) >>)} ELSE {}

ScaledOperand(code, i) ==
  IF /\ Present(code, i + 1) /\ IsBinaryWithConst(code[i]) /\ IsBinary(code[i + 1])
     /\ code[i + 1].oper = "+" /\ IsTemporary(code[i].to)
     /\ variables_equal(code[i].to, code[i + 1].b) /\ is_type_lea_compatible(code[i + 1].type)
     /\ \/ code[i].oper = "+"
        \/ code[i].oper = "*" /\ is_constant_lea_compatible_power_of_2(code[i].b.c)
    THEN {Replaced(code, i, i + 1,
            << IF code[i].oper = "+" THEN Lea(code[i + 1].to, code[i + 1].a, code[i].a, 1, code[i].b.c)
               ELSE Lea(code[i + 1].to, code[i + 1].a, code[i].a, code[i].b.c.val, NoConstant) >>)}
    ELSE {}

---------------------------------------------------------------------------
(* An operation with one constant.                                         *)

(* x % 2^k of a signed x: the bias that makes the mask exact is the sign   *)
(* shifted down.                                                           *)
SignedModulus(b) ==
  LET type == b.to.type
      bits == Bits[TypeSize(type)]
      k == log2_of_constant(b.b.c)
      first == Derived("sign", b.to, type)
      bias == Derived("bias", b.to, type)
      result == Derived("result", b.to, type)
      With(to, a, oper, v) == Binary(to, a, oper, emit_direct_integer_constant(v, type), type)
  IN  << [With(first, b.a, ">>", bits - 1) EXCEPT !.sign = "signed"],
         [With(bias, first, ">>", bits - k) EXCEPT !.sign = "unsigned"],
         Lea(result, b.a, bias, 1, NoConstant),
         With(result, result, "&", 2 ^ k - 1),
         Binary(result, result, "-", bias, type),
         Assign(b.to, result) >>
Masked(b, to, a) == [b EXCEPT !.to = to, !.a = a, !.oper = "&", !.b.c.val = 2 ^ log2_of_constant(b.b.c) - 1]
UnsignedModulus(b) ==
  LET copy == Derived("copy", b.to, b.a.type) IN
  IF variables_equal(b.to, b.a) THEN << Masked(b, b.to, b.a) >>
  ELSE IF ~ IsTemporary(b.a) \/ b.a.valued
    THEN << Assign(copy, b.a), Masked(b, copy, copy), Assign(b.to, copy) >>
  ELSE << Masked(b, b.a, b.a), Assign(b.to, b.a) >>
optimize_mod_by_power_of_2(b) == IF is_type_signed(b.to.type) THEN SignedModulus(b) ELSE UnsignedModulus(b)

WithZero(b) ==
  CASE b.oper \in {"+", "-", "<<", ">>"} -> << Assign(b.to, b.a) >>
    [] b.oper \in {"*", "&&"} -> << AssignConst(b.to, b.b.c) >>
    [] b.oper = "||" -> TestInstead(b.to, b.a)
    [] OTHER -> << b >>
WithOne(b) ==
  CASE b.oper \in {"*", "/"} -> << Assign(b.to, b.a) >>
    [] b.oper = "%" -> << AssignConst(b.to, [b.b.c EXCEPT !.val = 0]) >>
    [] b.oper \in {"+", "-"} /\ variables_equal(b.to, b.a) -> << InPlaceUnary(IF b.oper = "+" THEN "++" ELSE "--", b.to) >>
    [] OTHER -> << b >>
(* Mutant of WithPowerOf2: a product by two becomes a sum, which another   *)
(* rule makes a product by two.                                            *)
Doubled(b) ==
  IF b.oper = "*" /\ b.b.c.val = 2 THEN << [b EXCEPT !.oper = "+", !.b = b.a] >> ELSE << b >>
WithPowerOf2(b) ==
  LET log == [b.b.c EXCEPT !.val = log2_of_constant(b.b.c)] IN
  CASE b.oper = "*" -> << [b EXCEPT !.oper = "<<", !.b.c = log] >>
    [] b.oper = "/" -> << [b EXCEPT !.oper = ">>", !.b.c = log] >>
    [] b.oper = "%" -> optimize_mod_by_power_of_2(b)
    [] OTHER -> << b >>
WithOther(b) ==
  CASE b.oper = "&&" -> TestInstead(b.to, b.a)
    [] b.oper = "||" -> << AssignConst(b.to, [b.b.c EXCEPT !.val = 1]) >>
    [] OTHER -> << b >>
ConstantOperand(code, i) ==
  LET b == code[i]
      New == CASE is_constant_value_zero(b.b.c) -> WithZero(b)
               [] b.oper \in Connectives -> WithOther(b)
               [] is_constant_value_one(b.b.c) -> WithOne(b)
               [] is_constant_power_of_2(b.b.c) -> WithPowerOf2(b)
               [] OTHER -> << b >>
  IN  IF IsBinaryWithConst(b) THEN {Replaced(code, i, i, New)} \ {code} ELSE {}

---------------------------------------------------------------------------
simplify_window(code, i) ==
  UNION {ConstantCopied(code, i), ConstantIntoOperand2(code, i), ConstantsFolded(code, i), ConnectiveFolded(code, i),
         CopyIntoOperand1(code, i), SameOperandTwice(code, i), ConstantsChained(code, i), SumPlusConstant(code, i),
         ScaledOperand(code, i), ConstantOperand(code, i)}
simplifier_pass(code) == UNION {simplify_window(code, i) : i \in DOMAIN code}

(* What nobody reads goes; the last instruction assigns the result.        *)
Useless(code) ==
  {i \in 1 .. Len(code) - 1 : /\ IsTemporary(code[i].to) /\ code[i].op \in {"constant", "copy", "binary", "lea", "truncate"}
                              /\ UseCount(code, code[i].to) = 0}
RECURSIVE sweep(_)
sweep(code) ==
  IF Useless(code) = {} THEN code ELSE sweep(Without(code, CHOOSE i \in Useless(code) : TRUE))
============================================================================
