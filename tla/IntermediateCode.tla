-------------------------- MODULE IntermediateCode --------------------------
(***************************************************************************)
(* The intermediate code of a function: basic blocks of three address      *)
(* instructions with their successor edges, and the machine that runs it.  *)
(* The lowering of the syntax tree, the static analyzer, the optimizer and *)
(* the layout of the blocks all work on this form.                         *)
(***************************************************************************)
EXTENDS OllieValues, Sequences, FiniteSets, SequencesExt, TLC

None == << >>

(* A set of numbers, in order. *)
Ascending(S) == [i \in 1 .. Cardinality(S) |-> CHOOSE x \in S : Cardinality({ y \in S : y <= x }) = i]

---------------------------------------------------------------------------
(* Variables are numbered: those of the program from 1, those the lowering *)
(* adds and SSA renames (a ternary's result) from 51, plain temporaries    *)
(* from 101.  A name is a variable with its SSA generation, 0 before SSA.  *)

SharedTemp(n) == 50 + n
Temp(n) == 100 + n
IsTemp(name) == name[1] > 100
IsUserVariable(name) == name[1] < 51

(* n is the constant of an instruction, or the way a branch looks at its   *)
(* condition (WhenTrue: taken when it is not zero).  to holds the targets: *)
(* a branch goes to to[1] when taken and to to[2] when not, an indirect    *)
(* jump to the entry its operand selects; of a conditional move (cond, if   *)
(* and else, or cond and if with the constant n) to[1] is the way.         *)
Ins(op, dst, src, n, to) == [op |-> op, dst |-> dst, src |-> src, n |-> n, to |-> to]
WhenTrue == 1
WhenFalse == 0
NoBlock == 0

Const(x, n) == Ins("const", << x >>, None, n, None)
Copy(x, y) == Ins("copy", << x >>, << y >>, 0, None)
Jmp(b) == Ins("jump", None, None, 0, << b >>)
Branch(x, taken, other, way) == Ins("branch", None, << x >>, way, << taken, other >>)

NewBlock(kind) == [kind |-> kind, ins |-> << >>, suc |-> << >>, label |-> 0]

(* The code of a function: its blocks, those that are still part of it,    *)
(* its entry and its exit block.                                           *)
Blocks(g) == g.live
Suc(g, b) == ToSet(g.blk[b].suc)
Pred(g, b) == { p \in g.live : b \in Suc(g, p) }
Code(g, b) == g.blk[b].ins
LastOp(g, b) == IF Code(g, b) = << >> THEN "none" ELSE Last(Code(g, b)).op
LastIns(g, b) == Last(Code(g, b))

Emit(g, b, i) == [g EXCEPT !.blk[b].ins = Append(@, i)]
AddEdge(g, a, b) == IF b \in Suc(g, a) THEN g ELSE [g EXCEPT !.blk[a].suc = Append(@, b)]
DropEdge(g, a, b) == [g EXCEPT !.blk[a].suc = SelectSeq(@, LAMBDA s : s # b)]
EmitJump(g, a, b) == AddEdge(Emit(g, a, Jmp(b)), a, b)
EndsInTerminal(g, b) == LastOp(g, b) \in {"jump", "ret", "raise", "branch"}
EndsFunction(g, b) == LastOp(g, b) \in {"ret", "raise"}

(* Takes away the blocks without a predecessor until every block has one.  *)
RECURSIVE DeleteUnreachable(_)
DeleteUnreachable(g) ==
  LET gone == { b \in g.live \ {g.entry} : Pred(g, b) = {} }
  IN IF gone = {} THEN g ELSE DeleteUnreachable([g EXCEPT !.live = @ \ gone])

---------------------------------------------------------------------------
(* The machine.  A phi function does nothing when the code runs: all names *)
(* of a variable share its place once SSA is left, which is why the        *)
(* machine notes in "wrong" every operand that is not the last name given  *)
(* to its variable.                                                        *)

Ready(g) == [at |-> g.entry, i |-> 1, env |-> << >>, gen |-> << >>, ev |-> << "start" >>, wrong |-> FALSE]

ValueOf(m, x) == IF x[1] \in DOMAIN m.env THEN m.env[x[1]] ELSE Undef
GenerationOf(m, v) == IF v \in DOMAIN m.gen THEN m.gen[v] ELSE 0
IsStale(m, i) ==
  IF i.op = "phi" THEN \A k \in DOMAIN i.src : i.src[k][2] # GenerationOf(m, i.src[k][1])
  ELSE \E k \in DOMAIN i.src : i.src[k][2] # GenerationOf(m, i.src[k][1])

Give(m, x, n) == [m EXCEPT !.env = (x[1] :> n) @@ @, !.gen = (x[1] :> x[2]) @@ @]
Halt(m, event) == [m EXCEPT !.ev = event]

Computed(m, i) ==
  LET x == ValueOf(m, i.src[1])
      test(t) == IF x = Undef THEN Undef ELSE IF t THEN 1 ELSE 0
  IN CASE i.op = "copy" -> x
       [] i.op = "sum" -> IF Undef \in {x, ValueOf(m, i.src[2])} THEN Undef
                          ELSE (x + ValueOf(m, i.src[2])) % Size
       [] i.op = "sumc" -> IF x = Undef THEN Undef ELSE (x + i.n) % Size
       [] i.op = "subc" -> IF x = Undef THEN Undef ELSE x - i.n
       [] i.op = "test" -> test(x # 0)
       [] i.op \in {"eqc", "feqc"} -> test(x = i.n)
       [] i.op = "cmov" -> IF x = Undef THEN Undef
                           ELSE ValueOf(m, i.src[IF (x # 0) = (i.to[1] = WhenTrue) THEN 2 ELSE 3])
       [] i.op = "cmovc" -> IF x = Undef THEN Undef
                            ELSE IF (x # 0) = (i.to[1] = WhenTrue) THEN ValueOf(m, i.src[2]) ELSE i.n
       [] i.op = "lessc" -> test(x < i.n)
       [] i.op = "greaterc" -> test(x > i.n)

(* Where a block that ends without a jump goes on: at its only successor   *)
(* while the blocks have no order, at the next one when they have.         *)
FallsTo(g, b) ==
  LET k == IF b \in ToSet(g.order) THEN CHOOSE i \in DOMAIN g.order : g.order[i] = b ELSE Len(g.order)
  IN IF g.order = << >> THEN IF Len(g.blk[b].suc) = 1 THEN g.blk[b].suc[1] ELSE NoBlock
     ELSE IF k < Len(g.order) THEN g.order[k + 1] ELSE NoBlock
IsPlaced(g, b) == b \in g.live /\ (g.order = << >> \/ b \in ToSet(g.order))

CodeStep(g, m) ==
  IF m.i > Len(Code(g, m.at))
  THEN LET next == FallsTo(g, m.at)
       IN IF next = NoBlock THEN Halt(m, << "lost" >>) ELSE [m EXCEPT !.at = next, !.i = 1]
  ELSE
  LET i == Code(g, m.at)[m.i]
      n == [m EXCEPT !.i = @ + 1, !.wrong = @ \/ IsStale(m, i)]
      x == ValueOf(m, i.src[1])
      goto(b) == IF IsPlaced(g, b) THEN [n EXCEPT !.at = b, !.i = 1] ELSE Halt(n, << "lost" >>)
  IN CASE i.op = "const" -> Give(n, i.dst[1], i.n)
       [] i.op = "testc" -> Give(n, i.dst[1], IF i.n # 0 THEN 1 ELSE 0)
       [] i.op = "phi" -> Give(n, i.dst[1], ValueOf(m, i.dst[1]))
       [] i.op \in {"ask", "try"} -> Halt(n, << i.op, i.n >>)
       [] i.op \in {"use", "ret"} -> Halt(n, << i.op, x >>)
       [] i.op = "raise" -> Halt(n, << "raise", x >>)
       [] i.op = "jump" -> goto(i.to[1])
       [] i.op = "branch" -> IF x = Undef THEN Halt(n, << "lost" >>)
                             ELSE goto(IF (x # 0) = (i.n = WhenTrue) THEN i.to[1] ELSE i.to[2])
       [] i.op = "jcc" -> IF x = Undef THEN Halt(n, << "lost" >>)
                          ELSE IF (x # 0) = (i.n = WhenTrue) THEN goto(i.to[1]) ELSE n
       [] i.op = "jp" -> IF x = Unordered THEN goto(i.to[1]) ELSE n
       [] i.op = "switch" -> IF x + 1 \in DOMAIN i.to THEN goto(i.to[x + 1]) ELSE Halt(n, << "lost" >>)
       [] OTHER -> Give(n, i.dst[1], Computed(m, i))

RECURSIVE RunCode(_, _, _)
RunCode(g, m, fuel) ==
  IF m.ev # << >> THEN m
  ELSE IF fuel = 0 THEN Halt(m, << "spin" >>)
  ELSE RunCode(g, CodeStep(g, m), fuel - 1)

(* Continues after an event, with the answer to it: what was asked for, or *)
(* the error of a call that may raise.                                     *)
CodeAnswered(g, m, a) ==
  LET n == [m EXCEPT !.ev = << >>]
      i == Code(g, m.at)[m.i - 1]
  IN RunCode(g,
       IF m.ev[1] = "ask" THEN Give(n, i.dst[1], a)
       ELSE IF m.ev[1] = "try" THEN Give(Give(n, i.dst[1], IF a = 0 THEN 1 ELSE Undef), i.dst[2], a)
       ELSE n, Fuel)
=============================================================================
