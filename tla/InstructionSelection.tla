------------------------ MODULE InstructionSelection ------------------------
(***************************************************************************)
(* The patterns of the instruction selector: what each three address       *)
(* instruction becomes on the machine.  Floats and memory are left out.    *)
(***************************************************************************)
EXTENDS Simplifier, X86Machine, SequencesExt

Source(o) == IF IsLiteral(o) THEN Immediate(o.c.val) ELSE Register(o.name)
(* A temporary of the selection, by what the instruction assigns to.       *)
emit_temp_var(i, tag, type) == Derived(tag, i.to, type)
Fixed(register, type) == [is |-> "temp", name |-> register, type |-> type, valued |-> FALSE]

is_type_unsigned_64_bit(t) == t.class \in {"pointer", "array", "struct", "union"} \/ t = Basic("u64")
is_type_32_bit_int(t) == t \in {Basic("u32"), Basic("i32")}

---------------------------------------------------------------------------
(* Moves.  The sign of the destination decides how a short value is        *)
(* extended; a 32 bit one that goes to an unsigned long is taken to be     *)
(* cleared above and is read whole.                                        *)

(* Mutant of select_move_instruction: an int becomes long without its sign.*)
MoveWithoutSign(to, size, from, signed, source) ==
  IF from = 4 /\ to = 8 THEN Op("mov", 8, size, source)
  ELSE IF from \in {1, 2} /\ to > from THEN Extend(IF signed THEN "movs" ELSE "movz", to, size, from, source)
  ELSE Op("mov", to, size, source)
select_move_instruction(to, size, from, signed, source) ==
  CASE to = from -> Op("mov", to, size, source)
    [] from \in {1, 2} /\ to > from -> Extend(IF signed THEN "movs" ELSE "movz", to, size, from, source)
    [] from = 4 /\ to = 8 -> IF signed THEN Extend("movs", 8, size, 4, source) ELSE Op("mov", 8, size, source)
SourceWidth(to, from) ==
  IF is_type_unsigned_64_bit(to.type) /\ is_type_32_bit_int(from.type) THEN 8 ELSE TypeSize(from.type)
emit_move_instruction(to, from) ==
  << select_move_instruction(TypeSize(to.type), to.name, SourceWidth(to, from), is_type_signed(to.type), Source(from)) >>
emit_constant_move_instruction(to, c) == << Op("mov", TypeSize(to.type), to.name, Immediate(c.val)) >>
(* A truncation moves the whole source into the destination.               *)
handle_truncating_assignment_instruction(i) ==
  << Op("mov", TypeSize(i.from.type), i.to.name, Source(i.from)) >>

Given(o) == [code |-> << >>, value |-> o]
Moved(i, tag, o, type) ==
  [code |-> emit_move_instruction(emit_temp_var(i, tag, type), o), value |-> emit_temp_var(i, tag, type)]
create_and_insert_converting_move_instruction(i, tag, o, type) ==
  IF is_type_unsigned_64_bit(type) /\ is_type_32_bit_int(o.type) THEN Given([o EXCEPT !.type = type])
  ELSE Moved(i, tag, o, type)
Converted(i, tag, o, type) ==
  IF ~ IsLiteral(o) /\ is_converting_move_required(type, o.type)
    THEN create_and_insert_converting_move_instruction(i, tag, o, type) ELSE Given(o)
First(i) == Converted(i, "first", i.a, i.type)
Second(i) == Converted(i, "second", i.b, i.type)

---------------------------------------------------------------------------
(* Operations that overwrite their first operand: a copy of it, unless it  *)
(* is a temporary that nothing reads again or what is assigned.            *)

variables_equal_no_ssa(v, w) == variables_equal(v, w)
Apply(i, x, a, b) == << Op(x, TypeSize(i.type), a.name, Source(b)) >>
OnCopy(i, x, copy, b) == copy.code \o Apply(i, x, copy.value, b) \o emit_move_instruction(i.to, copy.value)
(* Mutants of Overwrite: it forgets that a numbered temporary is read      *)
(* again, or takes any operand for a temporary.                            *)
OverwriteNumbered(i, x, a, b) ==
  IF variables_equal_no_ssa(i.to, a) THEN Apply(i, x, i.to, b)
  ELSE OnCopy(i, x, IF ~ IsTemporary(a) THEN Moved(i, "copy", a, i.type) ELSE Given(a), b)
OverwriteAnything(i, x, a, b) == OnCopy(i, x, Given(a), b)
Overwrite(i, x, a, b) ==
  IF variables_equal_no_ssa(i.to, a) THEN Apply(i, x, i.to, b)
  ELSE OnCopy(i, x, IF ~ IsTemporary(a) \/ a.valued THEN Moved(i, "copy", a, i.type) ELSE Given(a), b)
InPlace(i, x, a, b) == a.code \o b.code \o Overwrite(i, x, a.value, b.value)

handle_bitwise_inclusive_or_instruction(i) == InPlace(i, "or", First(i), Second(i))
handle_bitwise_and_instruction(i) == InPlace(i, "and", First(i), Second(i))
handle_bitwise_exclusive_or_instruction(i) == InPlace(i, "xor", First(i), Second(i))
handle_subtraction_instruction(i) == InPlace(i, "sub", First(i), Second(i))

(* The count is the low byte of its operand.                               *)
ShiftsSigned(i) == i.sign = "signed" \/ (i.sign = "dont care" /\ is_type_signed(i.type))
handle_left_shift_instruction(i) == InPlace(i, IF ShiftsSigned(i) THEN "sal" ELSE "shl", First(i), Given(i.b))
handle_right_shift_instruction(i) == InPlace(i, IF ShiftsSigned(i) THEN "sar" ELSE "shr", First(i), Given(i.b))

(* A sum that goes to a variable is an address computation.                *)
SumTo(i, to, a, b) ==
  << IF IsLiteral(b) THEN Address(TypeSize(i.type), to.name, Source(a), Absent, 1, b.c.val)
     ELSE Address(TypeSize(i.type), to.name, Source(a), Source(b), 1, 0) >>
SumByAddress(i, a, b) ==
  IF is_converting_move_required(i.to.type, i.type)
    THEN SumTo(i, emit_temp_var(i, "sum", i.type), a, b) \o emit_move_instruction(i.to, emit_temp_var(i, "sum", i.type))
    ELSE SumTo(i, i.to, a, b)
Sum(i, a, b) ==
  a.code \o b.code \o
  (IF ~ variables_equal_no_ssa(i.to, a.value) /\ TypeSize(i.type) \in {4, 8} /\ ~ IsTemporary(i.to)
     THEN SumByAddress(i, a.value, b.value) ELSE Overwrite(i, "add", a.value, b.value))
handle_addition_instruction(i) == Sum(i, First(i), Second(i))

handle_signed_multiplication_instruction(i) == InPlace(i, "imul", First(i), Second(i))
MultiplyRax(i, a, b) ==
  LET A == Fixed(rax, i.type) IN
  IF IsLiteral(i.b)
    THEN a.code \o emit_constant_move_instruction(A, i.b.c)
           \o << Op("mul", TypeSize(i.type), rax, Source(a.value)) >> \o emit_move_instruction(i.to, A)
    ELSE a.code \o emit_move_instruction(A, a.value) \o b.code
           \o << Op("mul", TypeSize(i.type), rax, Source(b.value)) >> \o emit_move_instruction(i.to, A)
handle_unsigned_multiplication_instruction(i) == MultiplyRax(i, First(i), Second(i))
handle_multiplication_instruction(i) ==
  IF is_type_signed(i.type) THEN handle_signed_multiplication_instruction(i)
  ELSE handle_unsigned_multiplication_instruction(i)

(* The dividend is extended as its size asks for; a divisor that is a      *)
(* constant gets a register of the type given.                             *)
(* Mutant of emit_conversion_instruction: the upper half is cleared, as    *)
(* for unsigned numbers.                                                   *)
ClearedUpperHalf(size) == Op("clear", 8, rdx, Absent)
emit_conversion_instruction(size) ==
  Op(CASE size = 8 -> "cqto" [] size = 4 -> "cltd" [] size = 2 -> "cwtl" [] size = 1 -> "cbtw", size, rax, Absent)
Divisor(i, type) ==
  IF IsLiteral(i.b) THEN [code |-> emit_constant_move_instruction(emit_temp_var(i, "divisor", type), i.b.c),
                          value |-> emit_temp_var(i, "divisor", type)]
  ELSE Second(i)
Division(i, x, a, b, extension, result) ==
  a.code \o emit_move_instruction(Fixed(rax, a.value.type), a.value)
    \o << extension >> \o b.code \o << Op(x, TypeSize(i.type), rax, Source(b.value)) >>
    \o emit_move_instruction(i.to, Fixed(result, i.type))
SignedDivision(i, a, b, result) == Division(i, "idiv", a, b, emit_conversion_instruction(TypeSize(a.value.type)), result)
ClearRdx == Op("clear", 8, rdx, Absent)
handle_signed_division(i) == SignedDivision(i, First(i), Divisor(i, i.type), rax)
handle_unsigned_division(i) == Division(i, "div", First(i), Divisor(i, i.type), ClearRdx, rax)
handle_signed_modulus(i) == SignedDivision(i, First(i), Divisor(i, i.to.type), rdx)
handle_unsigned_modulus(i) == Division(i, "div", First(i), Divisor(i, i.to.type), ClearRdx, rdx)
handle_division_instruction(i) ==
  IF is_type_signed(i.type) THEN handle_signed_division(i) ELSE handle_unsigned_division(i)
handle_modulus_instruction(i) ==
  IF is_type_signed(i.type) THEN handle_signed_modulus(i) ELSE handle_unsigned_modulus(i)

---------------------------------------------------------------------------
(* Truth values.                                                           *)

ConditionOf(oper, signed) ==
  CASE oper = "==" -> "e" [] oper = "!=" -> "ne"
    [] oper = "<" -> IF signed THEN "l" ELSE "b"   [] oper = "<=" -> IF signed THEN "le" ELSE "be"
    [] oper = ">" -> IF signed THEN "g" ELSE "a"   [] oper = ">=" -> IF signed THEN "ge" ELSE "ae"
emit_setX_instruction(cc, v) == << Op("set", 1, v.name, cc) >>
Compare(i, a, b, flag) ==
  a.code \o b.code \o << Op("cmp", TypeSize(i.type), a.value.name, Source(b.value)) >>
    \o emit_setX_instruction(ConditionOf(i.oper, is_type_signed(i.type)), flag) \o emit_move_instruction(i.to, flag)
handle_cmp_instruction(i) == Compare(i, First(i), Second(i), emit_temp_var(i, "flag", Basic("u8")))

emit_direct_test_instruction(v) == << Op("test", TypeSize(v.type), v.name, Source(v)) >>

(* The disjunction of the two patterns is taken on the first one: a copy   *)
(* of it only when it is no temporary.                                     *)
Either(i, a, b, flag) ==
  << Op("or", TypeSize(i.type), a.name, Source(b)) >>
    \o emit_setX_instruction("ne", flag) \o emit_move_instruction(i.to, flag)
OrOf(i, a, b) ==
  IF IsTemporary(a.value) THEN a.code \o b.code \o Either(i, a.value, b.value, emit_temp_var(i, "flag", Basic("u8")))
  ELSE a.code \o b.code \o emit_move_instruction(emit_temp_var(i, "copy", i.type), a.value)
         \o Either(i, emit_temp_var(i, "copy", i.type), b.value, emit_temp_var(i, "flag", Basic("u8")))
handle_logical_or_instruction(i) == OrOf(i, First(i), Second(i))

(* A comparison further up left a truth value, which is used as it is; any *)
(* other operand is tested.  The conjunction is taken on the first byte.   *)
IsTruth(earlier, v) ==
  \E j \in DOMAIN earlier : /\ earlier[j].op = "binary" /\ earlier[j].oper \in Relations
                            /\ variables_equal(earlier[j].to, v)
TruthByte(i, tag, v, earlier) ==
  IF IsTruth(earlier, v) THEN Given([v EXCEPT !.type = Basic("u8")])
  ELSE [code |-> emit_direct_test_instruction(v) \o emit_setX_instruction("ne", emit_temp_var(i, tag, Basic("u8"))),
        value |-> emit_temp_var(i, tag, Basic("u8"))]
Both(i, p, q) ==
  p.code \o q.code \o << Op("and", 1, p.value.name, Source(q.value)) >> \o emit_move_instruction(i.to, p.value)
AndOf(i, a, b, earlier) ==
  a.code \o b.code \o Both(i, TruthByte(i, "left", a.value, earlier), TruthByte(i, "right", b.value, earlier))
handle_logical_and_instruction(i, earlier) == AndOf(i, First(i), Second(i), earlier)

handle_logical_not_instruction(i) == emit_direct_test_instruction(i.from) \o emit_setX_instruction("e", i.to)

---------------------------------------------------------------------------
OnItself(i, x) == << Op(x, TypeSize(i.to.type), i.to.name, Absent) >>
handle_inc_instruction(i) == OnItself(i, "inc")
handle_dec_instruction(i) == OnItself(i, "dec")
handle_negation_instruction(i) == OnItself(i, "neg")
handle_not_instruction(i) == OnItself(i, "not")

LeaOf(i, index) ==
  index.code \o << Address(IF TypeSize(i.to.type) = 1 THEN 2 ELSE TypeSize(i.to.type), i.to.name,
                           Source(i.base), Source(index.value), i.multiplier, i.offset.val) >>
handle_lea_statement(i) == LeaOf(i, Converted(i, "index", i.index, i.base.type))

handle_binary_operation(i, earlier) ==
  CASE i.oper = "+" -> handle_addition_instruction(i)
    [] i.oper = "-" -> handle_subtraction_instruction(i)
    [] i.oper = "*" -> handle_multiplication_instruction(i)
    [] i.oper = "/" -> handle_division_instruction(i)
    [] i.oper = "%" -> handle_modulus_instruction(i)
    [] i.oper = "<<" -> handle_left_shift_instruction(i)
    [] i.oper = ">>" -> handle_right_shift_instruction(i)
    [] i.oper = "&" -> handle_bitwise_and_instruction(i)
    [] i.oper = "|" -> handle_bitwise_inclusive_or_instruction(i)
    [] i.oper = "^" -> handle_bitwise_exclusive_or_instruction(i)
    [] i.oper \in Relations -> handle_cmp_instruction(i)
    [] i.oper = "||" -> handle_logical_or_instruction(i)
    [] i.oper = "&&" -> handle_logical_and_instruction(i, earlier)

select_instruction_patterns(i, earlier) ==
  CASE i.op = "constant" -> emit_constant_move_instruction(i.to, i.c)
    [] i.op = "copy" -> emit_move_instruction(i.to, i.from)
    [] i.op = "truncate" -> handle_truncating_assignment_instruction(i)
    [] i.op = "binary" -> handle_binary_operation(i, earlier)
    [] i.op = "lea" -> handle_lea_statement(i)
    [] i.op = "!" -> handle_logical_not_instruction(i)
    [] i.op = "test" -> emit_direct_test_instruction(i.from)
    [] i.op = "setne" -> emit_setX_instruction("ne", i.to)
    [] i.op = "++" -> handle_inc_instruction(i)
    [] i.op = "--" -> handle_dec_instruction(i)
    [] i.op = "-" -> handle_negation_instruction(i)
    [] i.op = "~" -> handle_not_instruction(i)
selected(code) ==
  FlattenSeq([j \in DOMAIN code |-> select_instruction_patterns(code[j], SubSeq(code, 1, j - 1))])
=============================================================================
