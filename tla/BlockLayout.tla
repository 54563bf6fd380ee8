----------------------------- MODULE BlockLayout -----------------------------
(***************************************************************************)
(* What happens to the blocks of a function after the optimizer: global    *)
(* value numbering and the second mark and sweep                           *)
(* (src/oc/compiler/instruction_selector), the order the blocks are laid   *)
(* out in, branches made of two jumps, and the postprocessor               *)
(* (src/oc/compiler/postprocessor), which condenses the jumps and lets     *)
(* blocks fall through to their successor.                                 *)
(*                                                                         *)
(* Registers are abstracted by variables: all names of a variable share    *)
(* one place, so that a copy between two of them is a useless move.        *)
(***************************************************************************)
EXTENDS Optimizer

CONSTANTS
  NumberingThreshold,   \* functions with no more instructions are not numbered
  MaxHoisted            \* instructions a return is hoisted with

---------------------------------------------------------------------------
(* Global value numbering.  The table maps expressions and names to the    *)
(* first name that was entered for them.                                   *)

Enter(table, key, name) == IF key \in DOMAIN table THEN table ELSE (key :> name) @@ table
ValueName(table, x) == IF << "name", x >> \in DOMAIN table THEN table[<< "name", x >>] ELSE x

(* Mutant of IsNumbered: a call is taken for an expression. *)
IsNumberedOrCalls(i) == i.op \in {"sum", "sumc", "subc", "eqc", "lessc", "greaterc", "ask"}
IsNumbered(i) == i.op \in {"sum", "sumc", "subc", "eqc", "lessc", "greaterc"}
SetsConditionCodes(i) == i.op \in {"eqc", "lessc", "greaterc"}
ValueKey(i) == IF i.op = "phi" THEN << "phi", i.src >> ELSE << i.op, i.src, i.n >>
IsRedundantPhi(i) == \A k \in DOMAIN i.src : i.src[k] = i.src[1]

(* What a branch or a conditional move relies on is not an operand.        *)
Substituted(table, i) ==
  [i EXCEPT !.src = [k \in DOMAIN @ |-> IF i.op \in {"branch", "jcc"} \/ (k = 1 /\ i.op \in {"cmov", "cmovc"})
                                        THEN @[k] ELSE ValueName(table, @[k])]]

(* One instruction: acc holds the code so far and the table.               *)
NumberInstruction(acc, i) ==
  LET s == Substituted(acc.table, i)
      found == ValueKey(s) \in DOMAIN acc.table /\ ~SetsConditionCodes(s)
      value == acc.table[ValueKey(s)]
  IN CASE i.op = "phi" /\ IsRedundantPhi(i) ->
            [code |-> Append(acc.code, Copy(i.dst[1], i.src[1])),
             table |-> Enter(acc.table, << "name", i.dst[1] >>, i.src[1])]
       [] i.op = "phi" /\ ~IsRedundantPhi(i) ->
            [code |-> Append(acc.code, i), table |-> Enter(acc.table, ValueKey(i), i.dst[1])]
       [] IsNumbered(i) /\ found ->
            [code |-> Append(acc.code, Copy(i.dst[1], value)),
             table |-> Enter(acc.table, << "name", i.dst[1] >>, value)]
       [] IsNumbered(i) /\ ~found ->
            [code |-> Append(acc.code, s), table |-> Enter(acc.table, ValueKey(s), i.dst[1])]
       [] i.op # "phi" /\ ~IsNumbered(i) -> [code |-> Append(acc.code, s), table |-> acc.table]

SubstituteInPhis(g, table, b) ==
  [g EXCEPT !.blk[b].ins = [k \in DOMAIN @ |-> IF @[k].op = "phi" THEN Substituted(table, @[k]) ELSE @[k]]]

(* A block, the phi functions of its successors, then the blocks it        *)
(* dominates, all with the one table: nothing leaves it on the way back.   *)
RECURSIVE NumberBlock(_, _, _)
NumberBlock(acc, b, children) ==
  LET here == FoldLeft(NumberInstruction, [code |-> << >>, table |-> acc.table], Code(acc.g, b))
      g1 == [acc.g EXCEPT !.blk[b].ins = here.code]
      g2 == FoldLeft(LAMBDA h, s : SubstituteInPhis(h, here.table, s), g1, g1.blk[b].suc)
  IN FoldLeft(LAMBDA a, c : NumberBlock(a, c, children), [g |-> g2, table |-> here.table], children[b])

InstructionCount(g) == FoldLeft(LAMBDA n, b : n + Len(Code(g, b)), 0, Ascending(g.live))
GlobalValueNumbering(g, children) ==
  IF InstructionCount(g) <= NumberingThreshold THEN g
  ELSE NumberBlock([g |-> g, table |-> << >>], g.entry, children).g

(* The sweep of the selector drops the edges of a branch it deletes.       *)
DropDeadEdges(g, marked) ==
  FoldLeft(LAMBDA h, b : IF LastOp(h, b) = "branch" /\ << b, Len(Code(h, b)) >> \notin marked
                         THEN [h EXCEPT !.blk[b].suc = << >>] ELSE h, g, Ascending(g.live))
SelectorMarkAndSweep(g, rel) ==
  LET m == Mark(g, rel.rdf)
  IN IF m.crashed THEN [g EXCEPT !.crashed = TRUE]
     ELSE Sweep(DropDeadEdges(g, m.marked), m.marked, rel.ipdom)

---------------------------------------------------------------------------
(* The order of the blocks: breadth first, the block a jump at the end     *)
(* goes to before the other successors.  An empty successor is passed over.*)

EndJump(g, b) ==
  CASE LastOp(g, b) = "jump" -> LastIns(g, b).to[1]
    [] LastOp(g, b) = "branch" -> LastIns(g, b).to[2]
    [] LastOp(g, b) \notin {"jump", "branch"} -> NoBlock

RECURSIVE OrderFrom(_, _, _, _)
OrderFrom(g, queue, visited, order) ==
  IF queue = << >> THEN order
  ELSE LET b == Head(queue)
           seen == visited \cup {b}
           jumped == EndJump(g, b)
           first == IF jumped # NoBlock /\ jumped \notin seen THEN << jumped >> ELSE << >>
           others == SelectSeq(g.blk[b].suc, LAMBDA s : s # jumped)
           empty == { s \in ToSet(others) : Code(g, s) = << >> }
       IN OrderFrom(g, Tail(queue) \o first \o SelectSeq(others, LAMBDA s : s \notin seen \cup empty),
                    seen \cup empty, IF b \in visited THEN order ELSE Append(order, b))
BlockOrder(g) == OrderFrom(g, << g.entry >>, {}, << >>)

(* A branch becomes a jump on the condition and a jump.  A comparison of   *)
(* floating point numbers that may be unordered gets one more before them. *)
JumpOn(x, b, way) == Ins("jcc", None, << x >>, way, << b >>)
JumpUnordered(x, b) == Ins("jp", None, << x >>, 0, << b >>)
SelectedBranch(code) ==
  LET i == Last(code)
      setter == LastSetter(code, i.src[1], Len(code))
      jumps == << JumpOn(i.src[1], i.to[1], i.n), Jmp(i.to[2]) >>
  IN Front(code) \o
     (IF setter # 0 /\ code[setter].op = "feqc"
      THEN << JumpUnordered(code[setter].src[1], i.to[IF i.n = WhenTrue THEN 2 ELSE 1]) >> \o jumps
      ELSE jumps)
SelectBranches(g) ==
  [g EXCEPT !.blk = [b \in DOMAIN @ |->
     IF b \in g.live /\ LastOp(g, b) = "branch" THEN [@[b] EXCEPT !.ins = SelectedBranch(@)] ELSE @[b]]]

---------------------------------------------------------------------------
(* The postprocessor.                                                      *)

IsPureCopy(i) == i.op = "copy" /\ i.dst[1][1] = i.src[1][1]
RemoveUselessMoves(g) ==
  [g EXCEPT !.blk = [b \in DOMAIN @ |-> [@[b] EXCEPT !.ins = SelectSeq(@, LAMBDA i : ~IsPureCopy(i))]]]

IsJump(i) == i.op \in {"jump", "jcc", "jp"}
JumpsTo(g, b, target) == Cardinality({ k \in DOMAIN Code(g, b) : IsJump(Code(g, b)[k]) /\ Code(g, b)[k].to[1] = target })
IsJumpOnly(g, b) ==
  LastOp(g, b) = "jump" /\ \A k \in 1 .. Len(Code(g, b)) - 1 : Code(g, b)[k].op = "phi"

(* The jumps that are redirected are those of the list in the source, which *)
(* leaves the jump on unordered operands out.                              *)
(* Mutant of IsRedirected: jumps on a condition are forgotten too. *)
IsRedirectedUnconditionally(i) == i.op \in {"jump", "switch"}
IsRedirected(i) == i.op \in {"jump", "jcc", "switch"}
RedirectJumps(g, p, empty, target) ==
  LET h == DropEdge(g, p, empty)
      hit(i) == IsRedirected(i) /\ empty \in ToSet(i.to)
      swap(i) == IF hit(i) THEN [i EXCEPT !.to = [k \in DOMAIN @ |-> IF @[k] = empty THEN target ELSE @[k]]] ELSE i
  IN IF \E k \in DOMAIN Code(h, p) : hit(Code(h, p)[k])
     THEN AddEdge([h EXCEPT !.blk[p].ins = [k \in DOMAIN @ |-> swap(@[k])]], p, target) ELSE h
RedirectAllJumps(g, empty, target) ==
  DropEdge(FoldLeft(LAMBDA h, p : RedirectJumps(h, p, empty, target), g, Ascending(Pred(g, empty))), empty, target)

(* A short block that returns is copied to the blocks that jump to it.     *)
CanHoistReturn(g, b) ==
  /\ LastOp(g, b) = "ret"
  /\ \A k \in DOMAIN Code(g, b) : ~IsJump(Code(g, b)[k]) /\ Code(g, b)[k].op # "switch"
  /\ Len(Code(g, b)) - 1 <= MaxHoisted
WithoutPhis(code) == SelectSeq(code, LAMBDA i : i.op # "phi")

CondenseBlock(acc, b) ==
  LET code == Code(acc.g, b)
      target == Last(code).to[1]
      twice == Len(code) > 1 /\ IsJump(code[Len(code) - 1]) /\ code[Len(code) - 1].to[1] = target
      g == IF twice THEN [acc.g EXCEPT !.blk[b].ins = Append(Front(Front(@)), Last(@))] ELSE acc.g
      once == JumpsTo(g, b, target) = 1
      cut == DropEdge([g EXCEPT !.blk[b].ins = Front(@)], b, target)
      copied == [cut EXCEPT !.blk[b].ins = @ \o WithoutPhis(Code(g, target))]
  IN IF LastOp(acc.g, b) # "jump" THEN acc
     ELSE IF b # g.entry /\ IsJumpOnly(g, b)
     THEN [g |-> RedirectAllJumps(g, b, target), changed |-> TRUE]
     ELSE IF Cardinality(Pred(g, target)) = 1 /\ once
     THEN [g |-> Combine(cut, b, target), changed |-> TRUE]
     ELSE IF Cardinality(Pred(g, target)) # 1 /\ CanHoistReturn(g, target) /\ once
     THEN [g |-> AddEdge(copied, b, g.blk[target].suc[1]), changed |-> TRUE]
     ELSE [g |-> g, changed |-> acc.changed \/ twice]

CondenseRound(g) == FoldLeft(CondenseBlock, [g |-> g, changed |-> FALSE], PostOrder(g))

(* The final order; a jump to the block that follows is taken out.         *)
DropJumpToNext(g, order, k) ==
  LET b == order[k]
  IN IF k < Len(order) /\ LastOp(g, b) = "jump" /\ LastIns(g, b).to[1] = order[k + 1]
     THEN [g EXCEPT !.blk[b].ins = Front(@)] ELSE g
Reordered(g) ==
  LET order == BlockOrder(g)
  IN [FoldLeft(LAMBDA h, k : DropJumpToNext(h, order, k), g, [k \in DOMAIN order |-> k]) EXCEPT !.order = order]
=============================================================================
