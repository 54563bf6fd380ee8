----------------------------- MODULE X86Machine -----------------------------
(***************************************************************************)
(* The instructions the selector emits, as the processor carries them out. *)
(* Registers are the variables of the code, each a pattern of 8 bytes; one *)
(* nobody has written yet holds what it happened to hold.                  *)
(***************************************************************************)
EXTENDS MachineIntegers, Sequences, TLC

Register(name) == [is |-> "reg", name |-> name]
Immediate(v) == [is |-> "imm", val |-> v]
Absent == Immediate(0)

(* An instruction of width w; extending moves read fw bytes, and lea takes *)
(* from + index * multiplier + offset.                                     *)
Op(x, w, to, from) == [x |-> x, w |-> w, to |-> to, from |-> from]
Extend(x, w, to, fw, from) == [x |-> x, w |-> w, to |-> to, fw |-> fw, from |-> from]
Address(w, to, from, index, multiplier, offset) ==
  [x |-> "lea", w |-> w, to |-> to, from |-> from, index |-> index, multiplier |-> multiplier, offset |-> offset]

rax == << "rax" >>
rdx == << "rdx" >>

Machine(regs, leftover) ==
  [regs |-> regs, leftover |-> leftover, flags |-> [l |-> 0, r |-> 0, w |-> 8], trap |-> FALSE]

Pattern(m, name) == IF name \in DOMAIN m.regs THEN m.regs[name] ELSE m.leftover
Read(m, w, o) == UnsignedOf(w, IF o.is = "reg" THEN Pattern(m, o.name) ELSE o.val)

(* A write of 4 bytes clears the upper half, a narrower one keeps the      *)
(* rest.                                                                   *)
Merged(old, w, v) ==
  IF w >= 4 THEN UnsignedOf(w, v) ELSE (old \div Modulus(w)) * Modulus(w) + UnsignedOf(w, v)
Written(m, w, name, v) == [m EXCEPT !.regs = (name :> Merged(Pattern(m, name), w, v)) @@ @]
Flagged(m, w, l, r) == [m EXCEPT !.flags = [l |-> UnsignedOf(w, l), r |-> UnsignedOf(w, r), w |-> w]]
Result(m, w, name, v) == Flagged(Written(m, w, name, v), w, v, 0)

Holds(cc, f) ==
  LET l == SignedOf(f.w, f.l)  r == SignedOf(f.w, f.r) IN
  CASE cc = "e" -> f.l = f.r [] cc = "ne" -> f.l # f.r
    [] cc = "l" -> l < r     [] cc = "le" -> l <= r   [] cc = "g" -> l > r     [] cc = "ge" -> l >= r
    [] cc = "b" -> f.l < f.r [] cc = "be" -> f.l <= f.r [] cc = "a" -> f.l > f.r [] cc = "ae" -> f.l >= f.r

(* a is the old value of the destination, b the source.                    *)
Computed(x, w, a, b) ==
  CASE x = "add" -> a + b
    [] x = "sub" -> a - b
    [] x = "imul" -> SignedOf(w, a) * SignedOf(w, b)
    [] x = "and" -> BitAnd(w, a, b)
    [] x = "or" -> BitOr(w, a, b)
    [] x = "xor" -> BitXor(w, a, b)
    [] x \in {"sal", "shl"} -> ShiftedLeft(w, a, b)
    [] x = "sar" -> ShiftedRight(w, SignedOf(w, a), b)
    [] x = "shr" -> ShiftedRight(w, a, b)
    [] x = "neg" -> - a
    [] x = "not" -> - a - 1
    [] x = "inc" -> a + 1
    [] x = "dec" -> a - 1
ShiftInstructions == {"sal", "shl", "sar", "shr"}
Arithmetic == {"add", "sub", "imul", "and", "or", "xor", "neg", "not", "inc", "dec"} \cup ShiftInstructions

(* The dividend is AX for a byte and rDX:rAX otherwise; of eight bytes it  *)
(* is in range only as an extension of rAX.                                *)
Dividend(m, w, signed) ==
  CASE w = 1 -> IF signed THEN SignedOf(2, Pattern(m, rax)) ELSE UnsignedOf(2, Pattern(m, rax))
    [] w = 8 -> IF signed THEN SignedOf(8, Pattern(m, rax)) ELSE Pattern(m, rax)
    [] OTHER -> LET double == UnsignedOf(w, Pattern(m, rdx)) * Modulus(w) + UnsignedOf(w, Pattern(m, rax))
                IN  IF signed THEN SignedOf(2 * w, double) ELSE double
IsExtension(m, signed) ==
  Pattern(m, rdx) = (IF signed /\ 2 * Pattern(m, rax) >= Modulus(8) THEN Modulus(8) - 1 ELSE 0)
Quotients(m, w, signed, n, d) ==
  LET q == Quotient(n, d)  r == Remainder(n, d) IN
  IF q # Wrapped(w, signed, q) \/ (w = 8 /\ ~ IsExtension(m, signed)) THEN [m EXCEPT !.trap = TRUE]
  ELSE IF w = 1 THEN Written(m, 2, rax, UnsignedOf(1, r) * Modulus(1) + UnsignedOf(1, q))
  ELSE Written(Written(m, w, rax, q), w, rdx, r)
Divided(m, w, signed, d) ==
  IF d = 0 THEN [m EXCEPT !.trap = TRUE]
  ELSE Quotients(m, w, signed, Dividend(m, w, signed), Wrapped(w, signed, d))

(* The count of a shift is a byte.                                         *)
Operand(m, i) ==
  IF i.x \notin ShiftInstructions THEN Read(m, i.w, i.from)
  ELSE IF i.from.is = "reg" THEN Read(m, 1, i.from) ELSE i.from.val

Carried(m, i) ==
  CASE i.x \in {"mov", "movz"} -> Written(m, i.w, i.to, Read(m, IF i.x = "mov" THEN i.w ELSE i.fw, i.from))
    [] i.x = "movs" -> Written(m, i.w, i.to, SignedOf(i.fw, Read(m, i.fw, i.from)))
    [] i.x \in Arithmetic -> Result(m, i.w, i.to, Computed(i.x, i.w, Read(m, i.w, Register(i.to)), Operand(m, i)))
    [] i.x = "cmp" -> Flagged(m, i.w, Read(m, i.w, Register(i.to)), Read(m, i.w, i.from))
    [] i.x = "test" -> Flagged(m, i.w, BitAnd(i.w, Pattern(m, i.to), Read(m, i.w, i.from)), 0)
    [] i.x = "set" -> Written(m, 1, i.to, IF Holds(i.from, m.flags) THEN 1 ELSE 0)
    [] i.x = "lea" -> Written(m, i.w, i.to, Read(m, 8, i.from) + Read(m, 8, i.index) * i.multiplier + i.offset)
    [] i.x = "clear" -> Written(m, 8, i.to, 0)
    [] i.x = "cbtw" -> Written(m, 2, rax, SignedOf(1, Pattern(m, rax)))
    [] i.x = "cwtl" -> Written(m, 4, rax, SignedOf(2, Pattern(m, rax)))
    [] i.x = "cltd" -> Written(m, 4, rdx, IF SignedOf(4, Pattern(m, rax)) < 0 THEN -1 ELSE 0)
    [] i.x = "cqto" -> Written(m, 8, rdx, IF SignedOf(8, Pattern(m, rax)) < 0 THEN -1 ELSE 0)
    [] i.x = "mul" -> Result(m, i.w, rax, SignedOf(i.w, Pattern(m, rax)) * SignedOf(i.w, Read(m, i.w, i.from)))
    [] i.x \in {"idiv", "div"} -> Divided(m, i.w, i.x = "idiv", Read(m, i.w, i.from))

(* A trap ends the program.                                                *)
Stepped(m, i) == IF m.trap THEN m ELSE Carried(m, i)
Run(m, code) ==
  LET After[k \in 0 .. Len(code)] == IF k = 0 THEN m ELSE Stepped(After[k - 1], code[k])
  IN  After[Len(code)]
=============================================================================
