------------------------------ MODULE Lowering ------------------------------
(***************************************************************************)
(* How the syntax tree of a function becomes blocks of intermediate code   *)
(* (src/oc/compiler/cfg/cfg.c).  Every visit function of the source is an  *)
(* operator from the graph built so far to the graph with the statement    *)
(* added and a result package: the block it starts in, the block it ends   *)
(* in, and for an expression what it is worth.                             *)
(*                                                                         *)
(* The tree is that of OllieSource.tla.  A package's start is NoBlock      *)
(* where the source has NULL.                                              *)
(***************************************************************************)
EXTENDS IntermediateCode

CONSTANT MinCaseMembers      \* fewer cases than this never become a jump table

Entry == 1
Exit == 2

(* The graph under construction: its blocks, the stacks of blocks "break"  *)
(* and "continue" go to, how many temporaries there are, and the block     *)
(* each variable is declared in.                                           *)
EmptyFunction ==
  [ blk |-> << NewBlock("entry"), NewBlock("exit") >>, live |-> {1, 2}, entry |-> Entry, exit |-> Exit,
    brk |-> << >>, cont |-> << >>, temp |-> 0, shared |-> 0, decl |-> << >>, order |-> << >>, crashed |-> FALSE ]

AllocKind(g, kind) == [g EXCEPT !.blk = Append(@, NewBlock(kind)), !.live = @ \cup {Len(g.blk) + 1}]
Alloc(g) == AllocKind(g, "plain")
Newest(g) == Len(g.blk)
AddTemp(g) == [g EXCEPT !.temp = @ + 1]
NewTemp(g) == << Temp(g.temp), 0 >>
Named(v) == << v, 0 >>

Package(g, a, z) == [g |-> g, a |-> a, z |-> z]
(* What an expression left: a variable, or a constant.                     *)
IsVar(g, z, v) == [g |-> g, z |-> z, v |-> v, n |-> 0]
IsConst(g, z, n) == [g |-> g, z |-> z, v |-> None, n |-> n]

(* A package with its constant, if it is one, in a temporary of block z.   *)
Unpacked(p, z) ==
  IF p.v # None THEN [p EXCEPT !.z = z]
  ELSE LET g == AddTemp(p.g) IN IsVar(Emit(g, z, Const(NewTemp(g), p.n)), z, NewTemp(g))

(* The assignment of a package's result to a variable.                     *)
AssignTo(g, z, v, p) == Emit(g, z, IF p.v # None THEN Copy(v, p.v) ELSE Const(v, p.n))

IsArithmetic(i) == i.op \in {"sum", "sumc", "eqc", "feqc", "lessc", "greaterc", "subc"}

(* Is v the temporary the block's last instruction computed?  Then that     *)
(* instruction is given the variable v would be copied to.                 *)
CanRetarget(g, b, v) ==
  v # None /\ IsTemp(v) /\ Code(g, b) # << >> /\ LastIns(g, b).dst = << v >> /\ IsArithmetic(LastIns(g, b))
Retarget(g, b, x) == [g EXCEPT !.blk[b].ins = [@ EXCEPT ![Len(@)].dst = << x >>]]

(* Does evaluating e assign variable v?  Sees assignments and both sides   *)
(* of an operator, nothing inside a call or a ternary.                     *)
RECURSIVE Defines(_, _)
Defines(e, v) ==
  \/ e.k = "asg" /\ e.v = v
  \/ e.k = "sum" /\ (Defines(e.l, v) \/ Defines(e.r, v))

(* Keeps the first operand of an operator in a temporary because the       *)
(* second one assigns its variable: after the last instruction that was    *)
(* there before the second operand, or, if there was none, at the end of   *)
(* the block the operator is in.                                           *)
KeepOperand(g, v, b, before, z) ==
  LET h == AddTemp(g)
      keep == Copy(NewTemp(h), v)
  IN IF before > 0 THEN [h EXCEPT !.blk[b].ins = InsertAt(@, before + 1, keep)]
     ELSE Emit(h, z, keep)

---------------------------------------------------------------------------
(* Expressions and the branches they decide.                               *)

RECURSIVE Expression(_, _, _)
RECURSIVE LowerBranch(_, _, _, _, _, _)

(* Both operands are there: the first from block z on, after its first     *)
(* before instructions.                                                    *)
SumOf(left, right, e, z, before) ==
  LET keeps == ~IsTemp(left.v) /\ Defines(e, left.v[1])
      h == AddTemp(IF keeps THEN KeepOperand(left.g, left.v, z, before, right.z) ELSE left.g)
      x == IF keeps THEN << NewTemp(h)[1] - 1, 0 >> ELSE left.v
  IN IsVar(Emit(h, right.z,
             IF right.v # None THEN Ins("sum", << NewTemp(h) >>, << x, right.v >>, 0, None)
             ELSE Ins("sumc", << NewTemp(h) >>, << x >>, right.n, None)),
           right.z, NewTemp(h))
BothOperands(left, right, e) ==
  SumOf(Unpacked([left EXCEPT !.g = right.g], right.z), right, e, left.z, Len(Code(left.g, left.z)))
SecondOperand(left, e) == BothOperands(left, Expression(left.g, left.z, e), e)
SumExpression(g, b, e) == SecondOperand(Expression(g, b, e.l), e.r)

(* The instruction looked at is the last one of block b: the block the     *)
(* assignment started in, but the block the value ended up in for the      *)
(* initialization of a variable.                                           *)
AssignmentOf(p, b, v) ==
  IsVar(IF CanRetarget(p.g, b, p.v) THEN Retarget(p.g, b, v) ELSE AssignTo(p.g, p.z, v, p), p.z, v)
AssignmentExpression(g, b, v, e) == AssignmentOf(Expression(g, b, e), b, Named(v))
InitializationOf(p, v) == AssignmentOf(p, p.z, v)
SimpleInitialization(g, b, v, e) == InitializationOf(Expression(g, b, e), Named(v))

(* A value goes to the variable x of a result, and on to block end.        *)
Arm(p, x, end) == EmitJump(AssignTo(p.g, p.z, x, p), p.z, end)
TernaryExpression(g, b, e) ==
  LET if == Newest(g) + 1
      else == if + 1
      end == if + 2
      x == << SharedTemp(g.shared + 1), 0 >>
      branched == LowerBranch([Alloc(Alloc(Alloc(g))) EXCEPT !.shared = @ + 1], b, e.c, if, else, WhenTrue)
  IN IsVar(Arm(Expression(Arm(Expression(branched, if, e.a), x, end), else, e.b), x, end), end, x)

ReturnOf(p, b) ==
  LET keeps == p.v = None \/ ~IsTemp(p.v)
      h == IF keeps THEN AddTemp(p.g) ELSE p.g
      x == IF keeps THEN NewTemp(h) ELSE p.v
      g == IF keeps THEN AssignTo(h, p.z, x, p) ELSE h
  IN Package(AddEdge(Emit(g, p.z, Ins("ret", None, << x >>, 0, None)), p.z, Exit), b, p.z)
ReturnStatement(g, b, e) == ReturnOf(Expression(g, b, e), b)

RaiseStatement(g, b, n) ==
  LET h == AddTemp(g)
  IN AddEdge(Emit(Emit(h, b, Const(NewTemp(h), n)), b, Ins("raise", None, << NewTemp(h) >>, 0, None)), b, Exit)

(* One handler of a call, in block b: it returns, raises, or is worth a    *)
(* value for the call.                                                     *)
ErrorHandler(g, b, s, result, end) ==
  CASE s.k = "ret" -> ReturnStatement(g, b, s.e).g
    [] s.k = "raise" -> RaiseStatement(g, b, s.n)
    [] OTHER -> Arm(Expression(g, b, s.e), result, end)

(* The handlers of a call, and the block each error goes to.  The block    *)
(* after the table is the end of the call, the next one is for no error.   *)
WithHandler(acc, n, s, table, result) ==
  LET b == Newest(acc.g) + 1
  IN [g |-> AddEdge(ErrorHandler(Alloc(acc.g), b, s, result, table + 1), table, b), entry |-> (n :> b) @@ acc.entry]
Handlers(g, on, table, result) ==
  FoldLeft(LAMBDA acc, n : WithHandler(acc, n, on[n][1], table, result),
           [g |-> AddEdge(g, table, table + 2), entry |-> 0 :> table + 2], Ascending(DOMAIN on))

(* The jump table over the error; an error without a handler goes to that  *)
(* of the generic error, number 1.                                         *)
Dispatched(all, b, error, upper, table) ==
  LET default == all.entry[1]
      targets == [i \in 1 .. upper + 1 |-> IF i - 1 \in DOMAIN all.entry THEN all.entry[i - 1] ELSE default]
      h == AddTemp(all.g)
      tested == Emit(Emit(h, b, Ins("greaterc", << NewTemp(h) >>, << error >>, upper, None)),
                     b, Branch(NewTemp(h), default, table, WhenTrue))
  IN Emit(AddEdge(AddEdge(tested, b, default), b, table), table, Ins("switch", None, << error >>, 0, targets))
ResultOf(g, end, result) == IsVar(Emit(g, end, Copy(NewTemp(g), result)), end, NewTemp(g))

(* A call with its handlers.                                               *)
HandledCall(g, b, e) ==
  LET table == Newest(g) + 1
      fine == table + 2
      value == << Temp(g.temp + 1), 0 >>
      error == << Temp(g.temp + 2), 0 >>
      result == << SharedTemp(g.shared + 1), 0 >>
      h == [Alloc(Alloc(AllocKind(g, "switch"))) EXCEPT !.temp = @ + 2, !.shared = @ + 1]
      called == EmitJump(Emit(Emit(h, b, Ins("try", << value, error >>, None, e.q, None)),
                              fine, Copy(result, value)), fine, table + 1)
  IN ResultOf(AddTemp(Dispatched(Handlers(called, e.on, table, result), b, error, Last(Ascending(DOMAIN e.on)), table)),
              table + 1, result)

Expression(g, b, e) ==
  CASE e.k = "num" -> IsConst(g, b, e.n)
    [] e.k = "var" -> IsVar(g, b, Named(e.v))
    [] e.k = "ask" ->
         LET h == AddTemp(g) IN IsVar(Emit(h, b, Ins("ask", << NewTemp(h) >>, None, e.q, None)), b, NewTemp(h))
    [] e.k \in {"eq", "feq"} ->
         LET h == AddTemp(g)
         IN IsVar(Emit(h, b, Ins(IF e.k = "eq" THEN "eqc" ELSE "feqc", << NewTemp(h) >>, << Named(e.v) >>, e.n, None)), b, NewTemp(h))
    [] e.k = "sum" -> SumExpression(g, b, e)
    [] e.k = "asg" -> AssignmentExpression(g, b, e.v, e.e)
    [] e.k = "tern" -> TernaryExpression(g, b, e)
    [] e.k = "try" -> HandledCall(g, b, e)

(* The variable a branch decides by: a comparison's own result, otherwise  *)
(* a test of the value, made on the constant when the value was just set.  *)
TestOf(u) ==
  LET h == AddTemp(u.g)
      known == IsTemp(u.v) /\ LastOp(u.g, u.z) = "const" /\ LastIns(u.g, u.z).dst = << u.v >>
  IN IsVar(Emit(h, u.z, IF known THEN Ins("testc", << NewTemp(h) >>, None, LastIns(u.g, u.z).n, None)
                        ELSE Ins("test", << NewTemp(h) >>, << u.v >>, 0, None)), u.z, NewTemp(h))
Decider(p, c) == IF c.k \in {"eq", "feq"} THEN p ELSE TestOf(Unpacked(p, p.z))

(* Branches on a condition.  With way WhenFalse, if is where the condition *)
(* goes when it is false.                                                  *)
BranchBy(d, if, else, way) ==
  LET h == Emit(d.g, d.z, Branch(d.v, if, else, way))
  IN IF way = WhenTrue THEN AddEdge(AddEdge(h, d.z, if), d.z, else) ELSE AddEdge(AddEdge(h, d.z, else), d.z, if)
LowerBranch(g, b, c, if, else, way) ==
  LET second == Newest(g) + 1 IN
  CASE c.k = "and" -> LowerBranch(LowerBranch(Alloc(g), b, c.l, IF way = WhenTrue THEN else ELSE if, second, WhenFalse),
                                  second, c.r, if, else, way)
    [] c.k = "or" -> LowerBranch(LowerBranch(Alloc(g), b, c.l, IF way = WhenTrue THEN if ELSE else, second, WhenTrue),
                                 second, c.r, if, else, way)
    [] c.k = "num" -> EmitJump(g, b, IF (c.n # 0) = (way = WhenTrue) THEN if ELSE else)
    [] OTHER -> BranchBy(Decider(Expression(g, b, c), c), if, else, way)

(* A branch to a label, whose block is only found once the whole function  *)
(* is lowered: until then the target is the negated label, without edges.  *)
UserBranchBy(d, l, else) == Emit(d.g, d.z, Branch(d.v, 0 - l, else, WhenTrue))
RECURSIVE UserDefinedBranch(_, _, _, _, _)
UserDefinedBranch(g, b, c, l, else) ==
  LET second == Newest(g) + 1 IN
  CASE c.k = "and" -> UserDefinedBranch(LowerBranch(Alloc(g), b, c.l, else, second, WhenFalse), second, c.r, l, else)
    [] c.k = "or" -> UserDefinedBranch(UserDefinedBranch(Alloc(g), b, c.l, l, second), second, c.r, l, else)
    [] OTHER -> UserBranchBy(Decider(Expression(g, b, c), c), l, else)

---------------------------------------------------------------------------
(* Statements.                                                             *)

PushBoth(g, again, out) == [g EXCEPT !.brk = Append(@, out), !.cont = Append(@, again)]
PopBoth(g) == [g EXCEPT !.brk = Front(@), !.cont = Front(@)]
JumpUnlessTerminal(g, b, target) == IF EndsInTerminal(g, b) THEN g ELSE EmitJump(g, b, target)
Top(stack) == IF stack = << >> THEN NoBlock ELSE Last(stack)

RECURSIVE Chain(_, _, _, _)
(* A compound statement; one that would start nowhere starts in a block of *)
(* its own.                                                                *)
CompoundStatement(g, body) == Chain(g, NoBlock, NoBlock, body)
OrBlock(p) == IF p.a = NoBlock THEN Package(Alloc(p.g), Newest(p.g) + 1, Newest(p.g) + 1) ELSE p
CompoundOrBlock(g, body) == OrBlock(CompoundStatement(g, body))

(* The blocks of a loop: the end, Newest(g) + 1, then the entry.           *)
OpenLoop(g) ==
  LET out == Newest(g) + 1 IN PushBoth(AllocKind(Alloc(g), "loopentry"), out + 1, out)

WhileOf(body, c, top, out) ==
  Package(PopBoth(JumpUnlessTerminal(LowerBranch(body.g, top, c, out, body.a, WhenFalse), body.z, top)), top, out)
WhileStatement(g, s) ==
  WhileOf(CompoundOrBlock(OpenLoop(g), s.body), s.c, Newest(g) + 2, Newest(g) + 1)

LoopOf(body, top, out) ==
  Package(PopBoth(JumpUnlessTerminal(EmitJump(body.g, top, body.a), body.z, top)), top, out)
LoopStatement(g, s) == LoopOf(CompoundOrBlock(OpenLoop(g), s.body), Newest(g) + 2, Newest(g) + 1)

(* A body that ends the function leaves the two stacks as they are.        *)
DoWhileOf(g, z, c, top, out) ==
  IF EndsFunction(g, z) THEN Package(g, top, z) ELSE Package(PopBoth(LowerBranch(g, z, c, top, out, WhenTrue)), top, out)
DoWhileFrom(body, c, top, out) == DoWhileOf(EmitJump(body.g, top, body.a), body.z, c, top, out)
DoWhileStatement(g, s) ==
  DoWhileFrom(CompoundOrBlock(OpenLoop(g), s.body), s.c, Newest(g) + 2, Newest(g) + 1)

(* Initialization, then the test, the update and the body.                 *)
ForBody(body, c, test, top, out) ==
  Package(PopBoth(JumpUnlessTerminal(LowerBranch(body.g, test, c, out, body.a, WhenFalse), body.z, test + 1)), top, out)
ForUpdated(step, s, test, top, out) ==
  ForBody(CompoundOrBlock([EmitJump(step.g, step.z, test) EXCEPT !.cont = Append(@, test + 1)], s.body), s.c, test, top, out)
ForInitialized(init, s, test, top, out) ==
  ForUpdated(Chain(EmitJump(Alloc(AllocKind(init.g, "loopentry")), init.z, test), test + 1, test + 1, s.update),
             s, test, top, out)
ForFrom(init, s, top, out) == ForInitialized(init, s, Newest(init.g) + 1, top, out)
ForStatement(g, s) ==
  LET top == Newest(g) + 1
      out == top + 1
  IN ForFrom(Chain([Alloc(Alloc(g)) EXCEPT !.brk = Append(@, out)], top, top, s.init), s, top, out)

(* An if without an else falls through when its body is likely to be left  *)
(* for good.                                                               *)
IsIfPathLikely(g, z) ==
  CASE LastOp(g, z) \in {"none", "raise", "ret"} -> FALSE
    [] LastOp(g, z) = "jump" -> LastIns(g, z).to[1] \notin {Top(g.brk), Top(g.cont)}
    [] OTHER -> TRUE

(* The block of the end, unless nothing goes there.                        *)
EndOrExit(g, end) == IF Pred(g, end) = {} THEN Exit ELSE end
LastArm(g, at, c, body, end) ==
  IF IsIfPathLikely(g, body.z) THEN LowerBranch(g, at, c, end, body.a, WhenFalse)
  ELSE LowerBranch(g, at, c, body.a, end, WhenTrue)
ElseArm(other, at, c, a, end) ==
  JumpUnlessTerminal(LowerBranch(other.g, at, c, other.a, a, WhenFalse), other.z, end)

RECURSIVE IfArms(_, _, _, _, _)
(* The body of the first arm is lowered before its condition.              *)
AfterArm(g, body, at, arms, else, end) ==
  LET c == arms[1][1] IN
  IF Len(arms) > 1
  THEN IfArms(LowerBranch(Alloc(g), at, c, Newest(g) + 1, body.a, WhenFalse), Newest(g) + 1, Tail(arms), else, end)
  ELSE IF Head(else).k # "noelse" THEN ElseArm(CompoundOrBlock(g, else), at, c, body.a, end)
  ELSE LastArm(g, at, c, body, end)
ArmOf(body, at, arms, else, end) == AfterArm(JumpUnlessTerminal(body.g, body.z, end), body, at, arms, else, end)
IfArms(g, at, arms, else, end) == ArmOf(CompoundOrBlock(g, arms[1][2]), at, arms, else, end)

(* Without an else the end is always reached.                              *)
IfFrom(g, s, top, end) == Package(g, top, IF Head(s.else).k # "noelse" THEN EndOrExit(g, end) ELSE end)
IfStatement(g, s) ==
  LET top == Newest(g) + 1
  IN IfFrom(IfArms(Alloc(Alloc(g)), top, s.arms, s.else, top + 1), s, top, top + 1)

(* The cases of a switch: those of an ollie switch go to its end, those of *)
(* a C-style switch on into the next one.                                  *)
CaseOf(p, acc, style, end) ==
  [ g |-> IF style = "ollie" THEN JumpUnlessTerminal(p.g, p.z, end)
          ELSE IF acc.z # NoBlock THEN JumpUnlessTerminal(p.g, acc.z, p.a)
          ELSE p.g,
    z |-> p.z, starts |-> Append(acc.starts, p.a) ]
SwitchCase(acc, c, style, end) == CaseOf(CompoundOrBlock(acc.g, c[2]), acc, style, end)
LastCase(acc, style, end) ==
  IF style = "ollie" THEN acc.g ELSE JumpUnlessTerminal(acc.g, acc.z, end)
NoCases(g) == [g |-> g, z |-> NoBlock, starts |-> << >>]

(* The end of the C-style switch goes on the stack that break reads.       *)
PushIfCStyle(g, style, end) == IF style = "ollie" THEN g ELSE [g EXCEPT !.brk = Append(@, end)]
PopIfCStyle(g, style) == IF style = "ollie" THEN g ELSE [g EXCEPT !.brk = Front(@)]

(* Too few cases for a table: one comparison after the other.  After the   *)
(* last of them the default clause, or the end.                            *)
CompareWith(g, at, v, n, start) ==
  LET h == AddTemp(Alloc(g))
      next == Newest(g) + 1
  IN AddEdge(AddEdge(Emit(Emit(h, at, Ins("eqc", << NewTemp(h) >>, << v >>, n, None)),
                          at, Branch(NewTemp(h), next, start, WhenFalse)), at, next), at, start)
ComparedCase(p, acc, n, v) ==
  IF n = Default THEN [at |-> acc.at, default |-> Last(p.starts)] @@ p
  ELSE [ at |-> Newest(p.g) + 1, default |-> acc.default,
         g |-> CompareWith(p.g, acc.at, v, n, Last(p.starts)) ] @@ p
ComparedCases(u, s, end) ==
  FoldLeft(LAMBDA acc, c : ComparedCase(SwitchCase(acc, c, s.style, end), acc, c[1], u.v),
           [at |-> u.z, default |-> NoBlock] @@ NoCases(u.g), s.cases)
ComparedInput(p) == Unpacked(p, p.z)
IfFromSwitch(all, s, top, end) ==
  Package(PopIfCStyle(EmitJump(LastCase(all, s.style, end), all.at,
                               IF all.default # NoBlock THEN all.default ELSE end), s.style), top, end)
SwitchAsIf(g, s) ==
  LET top == Newest(g) + 1
      end == top + 1
  IN IfFromSwitch(ComparedCases(ComparedInput(Expression(PushIfCStyle(Alloc(Alloc(g)), s.style, end), top, s.e)), s, end),
                  s, top, end)

(* The table's entries from the lowest to the highest value; a value       *)
(* without a case has the default clause.                                  *)
CaseValues(s) == { s.cases[i][1] : i \in DOMAIN s.cases } \ {Default}
LowerBound(s) == CHOOSE x \in CaseValues(s) : \A y \in CaseValues(s) : x <= y
UpperBound(s) == CHOOSE x \in CaseValues(s) : \A y \in CaseValues(s) : x >= y
CaseAt(s, x) ==
  LET hit == SelectInSeq(s.cases, LAMBDA c : c[1] = x)
  IN IF hit # 0 THEN hit ELSE SelectInSeq(s.cases, LAMBDA c : c[1] = Default)
TableOf(s, starts) ==
  [i \in 1 .. UpperBound(s) - LowerBound(s) + 1 |-> starts[CaseAt(s, LowerBound(s) + i - 1)]]

IndirectJump(g, b, s, v, starts) ==
  LET h == AddTemp(g)
      x == NewTemp(h)
      j == Ins("switch", None, << x >>, 0, TableOf(s, starts))
      linked == FoldLeft(LAMBDA acc, t : AddEdge(acc, b, t), h,
                         SelectSeq(starts, LAMBDA t : \E i \in DOMAIN s.cases : starts[i] = t /\ s.cases[i][1] # Default)
                         \o TableOf(s, starts))
  IN Emit(Emit(Emit(linked, b, Copy(x, v)), b, Ins("subc", << x >>, << x >>, LowerBound(s), None)), b, j)

(* Both bounds are tested before the table; the parser makes sure there is *)
(* a default clause.  A C-style switch leaves its end on the stack.        *)
SwitchCases(g, s, end) == FoldLeft(LAMBDA acc, c : SwitchCase(acc, c, s.style, end), NoCases(g), s.cases)
Bound(g, b, op, v, n, default, inside) ==
  LET h == AddTemp(g) IN
  AddEdge(AddEdge(Emit(Emit(h, b, Ins(op, << NewTemp(h) >>, << v >>, n, None)),
                       b, Branch(NewTemp(h), default, inside, WhenTrue)), b, default), b, inside)
Bounded(u, s, default, upper) ==
  Bound(Bound(u.g, u.z, "lessc", u.v, LowerBound(s), default, upper), upper, "greaterc", u.v, UpperBound(s),
        default, upper + 1)
SwitchFrom(g, top, end) == Package(g, top, EndOrExit(g, end))
TableAfterBounds(u, s, all, upper) ==
  IndirectJump(Bounded(u, s, all.starts[CaseAt(s, Default)], upper), upper + 1, s, u.v, all.starts)
NonExhaustiveCases(input, all, s, top, end) ==
  SwitchFrom(TableAfterBounds(Unpacked([input EXCEPT !.g = LastCase(all, s.style, end)], input.z), s, all, top + 1),
             top, end)
NonExhaustiveOf(input, s, top, end) == NonExhaustiveCases(input, SwitchCases(input.g, s, end), s, top, end)
NonExhaustiveSwitch(g, s) ==
  LET top == Newest(g) + 1
      end == top + 3
  IN NonExhaustiveOf(Expression(PushIfCStyle(Alloc(AllocKind(Alloc(Alloc(g)), "switch")), s.style, end), top, s.e),
                     s, top, end)

(* A switch over every value of an enumeration goes straight to its table. *)
TableOnly(v, s, all, table, end) == SwitchFrom(IndirectJump(v.g, table, s, v.v, all.starts), table - 1, end)
ExhaustiveCases(u, all, s, table, end) ==
  TableOnly(Unpacked([u EXCEPT !.g = LastCase(all, s.style, end)], table), s, all, table, end)
ExhaustiveOf(u, s, table, end) == ExhaustiveCases(u, SwitchCases(EmitJump(u.g, u.z, table), s, end), s, table, end)
ExhaustiveInput(p, style) == IF style = "c" THEN Unpacked(p, p.z) ELSE p
ExhaustiveSwitch(g, s) ==
  LET top == Newest(g) + 1
      end == top + 2
  IN ExhaustiveOf(ExhaustiveInput(Expression(PushIfCStyle(Alloc(AllocKind(Alloc(g), "switch")), s.style, end), top, s.e),
                                  s.style), s, top + 1, end)

IsSwitchEligible(s) == Cardinality(CaseValues(s)) >= MinCaseMembers
SwitchStatement(g, s) ==
  IF ~IsSwitchEligible(s) THEN SwitchAsIf(g, s)
  ELSE IF s.exhaustive THEN ExhaustiveSwitch(g, s) ELSE NonExhaustiveSwitch(g, s)

Structured(g, s) ==
  CASE s.k = "if" -> IfStatement(g, s)
    [] s.k = "while" -> WhileStatement(g, s)
    [] s.k = "dowhile" -> DoWhileStatement(g, s)
    [] s.k = "loop" -> LoopStatement(g, s)
    [] s.k = "for" -> ForStatement(g, s)
    [] s.k = "switch" -> SwitchStatement(g, s)

(* A statement that ends its list: what follows it is never visited.       *)
Ending(p, s) ==
  CASE s.k = "ret" -> [ReturnStatement(p.g, p.z, s.e) EXCEPT !.a = p.a]
    [] s.k = "raise" -> [p EXCEPT !.g = RaiseStatement(@, p.z, s.n)]
    [] s.k = "break" -> [p EXCEPT !.g = EmitJump(@, p.z, Top(@.brk))]
    [] s.k = "continue" -> [p EXCEPT !.g = EmitJump(@, p.z, Top(@.cont))]

UseOf(p) ==
  LET x == NewTemp(AddTemp(p.g))
  IN [p EXCEPT !.g = Emit(AssignTo(AddTemp(@), p.z, x, p), p.z, Ins("use", None, << x >>, 0, None))]

(* A statement inside the current block.                                   *)
Within(g, z, next, s) ==
  CASE s.k = "breakwhen" -> [g |-> LowerBranch(Alloc(g), z, s.c, Top(g.brk), next, WhenTrue), z |-> next]
    [] s.k = "continuewhen" -> [g |-> LowerBranch(Alloc(g), z, s.c, Top(g.cont), next, WhenTrue), z |-> next]
    [] s.k = "jump" -> [g |-> Alloc(Emit(g, z, Jmp(0 - s.l))), z |-> next]
    [] s.k = "jumpwhen" -> [g |-> UserDefinedBranch(Alloc(g), z, s.c, s.l, next), z |-> next]
    [] s.k = "declare" -> [g |-> [g EXCEPT !.decl = (s.v :> z) @@ @], z |-> z]
    [] s.k = "let" -> SimpleInitialization([g EXCEPT !.decl = (s.v :> z) @@ @], z, s.v, s.e)
    [] s.k = "set" -> AssignmentExpression(g, z, s.v, s.e)
    [] s.k = "use" -> UseOf(Expression(g, z, s.e))
Inside(p, s) == LET r == Within(p.g, p.z, Newest(p.g) + 1, s) IN Package(r.g, p.a, r.z)

(* The statements of a list, from block z on; a list stops early after a   *)
(* segment that returns on every path.  A nested compound statement is     *)
(* linked to without a jump.                                               *)
Opened(g, a, z) == IF a = NoBlock THEN OrBlock(Package(g, a, z)) ELSE Package(g, a, z)
Linked(p, a, z, jumps) ==
  IF a = NoBlock THEN p
  ELSE Package(IF jumps THEN EmitJump(p.g, z, p.a) ELSE AddEdge(p.g, z, p.a), a, p.z)
LabelBlock(g, l) ==
  LET b == Newest(g) + 1 IN Package([Alloc(g) EXCEPT !.blk[b].label = l], b, b)
Continued(p, todo) == Chain(p.g, p.a, p.z, todo)
Chain(g, a, z, todo) ==
  IF todo = << >> \/ z = Exit THEN Package(g, a, z)
  ELSE
  LET s == Head(todo) IN
  CASE s.k \in {"ret", "raise", "break", "continue"} -> Ending(Opened(g, a, z), s)
    [] s.k \in {"if", "while", "dowhile", "loop", "for", "switch"} ->
         Continued(Linked(Structured(g, s), a, z, TRUE), Tail(todo))
    [] s.k = "compound" -> Continued(Linked(CompoundStatement(g, s.body), a, z, FALSE), Tail(todo))
    [] s.k = "label" -> Continued(Linked(LabelBlock(g, s.l), a, z, TRUE), Tail(todo))
    [] OTHER -> Continued(Inside(Opened(g, a, z), s), Tail(todo))

---------------------------------------------------------------------------
(* A whole function.                                                       *)

(* The first block of the body becomes the end of the entry block, which   *)
(* is where its variables are then declared.                               *)
CanBeMerged(g, b) == g.blk[b].kind # "loopentry"
Merge(g, a, b) ==
  IF Code(g, b) = << >> THEN g
  ELSE [g EXCEPT !.blk[a].ins = @ \o Code(g, b), !.blk[a].suc = g.blk[b].suc, !.live = @ \ {b},
                 !.decl = [v \in DOMAIN @ |-> IF @[v] = b THEN a ELSE @[v]]]

(* Every block that reaches the exit without ending the function returns 0.*)
InsertReturns(g) ==
  FoldLeft(LAMBDA h, b : LET t == AddTemp(h) IN
             Emit(Emit(t, b, Const(NewTemp(t), 0)), b, Ins("ret", None, << NewTemp(t) >>, 0, None)),
           g, SelectSeq([i \in 1 .. Len(g.blk) |-> i],
                        LAMBDA b : b \in Pred(g, Exit) /\ ~EndsFunction(g, b)))

(* The jumps and branches to labels get their blocks and edges.            *)
FinalizeUserJumps(g) ==
  LET block(l) == CHOOSE b \in DOMAIN g.blk : g.blk[b].label = l
      isUser(b) == \E i \in DOMAIN Code(g, b) : \E k \in DOMAIN Code(g, b)[i].to : Code(g, b)[i].to[k] < 0
      resolve(h, b) ==
        LET targets(i) == [k \in DOMAIN i.to |-> IF i.to[k] < 0 THEN block(0 - i.to[k]) ELSE i.to[k]]
            users == SelectSeq(Code(h, b), LAMBDA i : \E k \in DOMAIN i.to : i.to[k] < 0)
            edges == FlattenSeq([k \in DOMAIN users |-> targets(users[k])])
        IN FoldLeft(LAMBDA acc, t : AddEdge(acc, b, t),
                    [h EXCEPT !.blk[b].ins = [k \in DOMAIN @ |-> [@[k] EXCEPT !.to = targets(Code(h, b)[k])]]],
                    edges)
  IN FoldLeft(resolve, g, SelectSeq([i \in 1 .. Len(g.blk) |-> i], isUser))

AtExit(g, z) == IF z = Exit THEN g ELSE AddEdge(g, z, Exit)
WithEntry(p) ==
  IF CanBeMerged(p.g, p.a) THEN AtExit(Merge(p.g, Entry, p.a), IF p.z = p.a THEN Entry ELSE p.z)
  ELSE AtExit(EmitJump(p.g, Entry, p.a), p.z)
LoweredFunction(body) ==
  DeleteUnreachable(FinalizeUserJumps(InsertReturns(WithEntry(CompoundStatement(EmptyFunction, body)))))
=============================================================================
