----------------------------- MODULE Optimizer -----------------------------
(***************************************************************************)
(* The optimizer (src/oc/compiler/optimizer/optimizer.c): the marking of   *)
(* useful instructions and the sweeping of the others, the branches that   *)
(* always go one way, branches that only choose the value of a variable,   *)
(* and the cleaning of the control flow.  Every pass takes the function in *)
(* SSA form with its control flow relations and returns the function; a    *)
(* pass that cannot go on leaves the graph crashed.                        *)
(***************************************************************************)
EXTENDS GraphAnalyzer

(* What must not go away whatever its result is worth. *)
IsCritical(i) == i.op \in {"ret", "raise", "ask", "try", "use"}
Places(g) ==
  FlattenSeq([b \in DOMAIN g.blk |-> [k \in (IF b \in g.live THEN DOMAIN Code(g, b) ELSE {}) |-> << b, k >>]])
StatementAt(g, place) == Code(g, place[1])[place[2]]

(* The definition of a name that gets its mark next: in the first block    *)
(* that has one without a mark, the last of them.                          *)
Unmarked(g, b, x, marked) ==
  { k \in DOMAIN Code(g, b) : Code(g, b)[k].dst # None /\ Code(g, b)[k].dst[1] = x /\ << b, k >> \notin marked }
MarkDefinition(g, m, x) ==
  LET blocks == { b \in g.live : Unmarked(g, b, x, m.marked) # {} }
      b == CHOOSE c \in blocks : \A d \in blocks : c <= d
      here == Unmarked(g, b, x, m.marked)
      place == << b, CHOOSE k \in here : \A j \in here : j <= k >>
  IN IF blocks = {} THEN m ELSE [m EXCEPT !.marked = @ \cup {place}, !.work = Append(@, place)]

(* The way into the statement's block is decided at the ends of the blocks *)
(* of its reverse dominance frontier; one of them that is empty is read    *)
(* through NULL.                                                           *)
MarkDecider(g, m, f) ==
  LET place == << f, Len(Code(g, f)) >>
  IN IF Code(g, f) = << >> THEN [m EXCEPT !.crashed = TRUE]
     ELSE IF LastOp(g, f) \notin {"branch", "switch"} \/ place \in m.marked THEN m
     ELSE [m EXCEPT !.marked = @ \cup {place}, !.work = Append(@, place)]

RECURSIVE MarkFrom(_, _, _)
MarkFrom(g, rdf, m) ==
  IF m.work = << >> THEN m
  ELSE LET place == Last(m.work)
           used == FoldLeft(LAMBDA acc, x : MarkDefinition(g, acc, x), [m EXCEPT !.work = Front(@)], StatementAt(g, place).src)
       IN MarkFrom(g, rdf, FoldLeft(LAMBDA acc, f : MarkDecider(g, acc, f), used,
                                    Ascending(rdf[place[1]])))

Mark(g, rdf) ==
  LET critical == SelectSeq(Places(g), LAMBDA p : IsCritical(StatementAt(g, p)))
  IN MarkFrom(g, rdf, [marked |-> ToSet(critical), work |-> critical, crashed |-> FALSE])

(* Keeps what is marked, and every jump.  A branch that nothing depends on *)
(* becomes a jump to the nearest postdominator with something useful; the  *)
(* edges it had stay.                                                      *)
SweepBlock(g, b, marked, ipdom) ==
  LET code == Code(g, b)
      keeps(k) == << b, k >> \in marked \/ code[k].op = "jump"
      kept == SelectSeq([k \in DOMAIN code |-> k], keeps)
      h == [g EXCEPT !.blk[b].ins = [k \in DOMAIN kept |-> code[kept[k]]]]
      target == NearestMarked(b, { p[1] : p \in marked }, ipdom)
  IN IF LastOp(g, b) = "branch" /\ << b, Len(code) >> \notin marked
     THEN IF target = NoBlock THEN [h EXCEPT !.crashed = TRUE] ELSE EmitJump(h, b, target)
     ELSE h

Sweep(g, marked, ipdom) ==
  FoldLeft(LAMBDA h, b : SweepBlock(h, b, marked, ipdom), g, Ascending(g.live))

MarkAndSweep(g, rel) ==
  LET m == Mark(g, rel.rdf)
  IN IF m.crashed THEN [g EXCEPT !.crashed = TRUE] ELSE Sweep(g, m.marked, rel.ipdom)

---------------------------------------------------------------------------
(* Branches that always go the same way: the variable they rely on was     *)
(* set, in the same block, by a test of a constant or of a temporary that  *)
(* holds one.                                                              *)

LastSetter(code, x, before) == SelectLastInSeq(SubSeq(code, 1, before), LAMBDA i : i.dst = << x >>)

AlwaysTrue == 1
AlwaysFalse == 0
Unknown == 2
ConditionalStatus(code, k) ==
  LET i == code[k]
      setter == IF i.op = "test" /\ IsTemp(i.src[1]) THEN LastSetter(code, i.src[1], k - 1) ELSE 0
      known(n) == IF n = 0 THEN AlwaysFalse ELSE AlwaysTrue
  IN IF i.op = "testc" THEN known(i.n)
     ELSE IF setter # 0 /\ code[setter].op = "const" THEN known(code[setter].n)
     ELSE Unknown

StatusOf(g, b) ==
  IF LastOp(g, b) # "branch" THEN Unknown
  ELSE ConditionalStatus(Code(g, b), LastSetter(Code(g, b), LastIns(g, b).src[1], Len(Code(g, b))))

TakeOnlyWay(g, b) ==
  LET status == StatusOf(g, b)
      i == LastIns(g, b)
      taken == IF (status = AlwaysTrue) = (i.n = WhenTrue) THEN 1 ELSE 2
  IN IF status = Unknown THEN g
     ELSE [DropEdge(g, b, i.to[3 - taken]) EXCEPT !.blk[b].ins = Append(Front(@), Jmp(i.to[taken]))]
HasOnlyWay(g) == \E b \in g.live : StatusOf(g, b) # Unknown
AlwaysTrueFalsePaths(g) == FoldLeft(TakeOnlyWay, g, Ascending(g.live))

---------------------------------------------------------------------------
(* A branch that only chooses the value of a variable becomes a            *)
(* conditional move in the block above.                                    *)

IsOnlyAssignment(g, p, join, v) ==
  /\ Cardinality(Pred(g, p)) = 1 /\ Cardinality(Suc(g, p)) = 1
  /\ LastOp(g, p) = "jump" /\ LastIns(g, p).to[1] = join
  /\ Len(Code(g, p)) = 2
  /\ Code(g, p)[1].op \in {"copy", "const"} /\ Code(g, p)[1].dst[1][1] = v

(* Mutant of JoinsAssignments: the block above may end in a switch. *)
JoinsCases(g, b, idom) ==
  /\ Cardinality(Pred(g, b)) = 2
  /\ Code(g, b) # << >> /\ Code(g, b)[1].op = "phi"
  /\ \A p \in Pred(g, b) : IsOnlyAssignment(g, p, b, Code(g, b)[1].dst[1][1])
JoinsAssignments(g, b, idom) ==
  /\ Cardinality(Pred(g, b)) = 2
  /\ Code(g, b) # << >> /\ Code(g, b)[1].op = "phi"
  /\ \A p \in Pred(g, b) : IsOnlyAssignment(g, p, b, Code(g, b)[1].dst[1][1])
  /\ g.blk[idom[b]].kind # "switch"

(* The two values are taken from the blocks the branch goes to, which are  *)
(* not compared with the predecessors of the join.                         *)
FoldAssignment(g, b, idom) ==
  LET top == idom[b]
      branch == LastIns(g, top)
      if == branch.to[1]
      else == branch.to[2]
      x == Code(g, b)[1].dst[1]
      isValue(t) == Code(g, t) # << >> /\ Code(g, t)[1].op \in {"copy", "const"}
      a == Code(g, if)[1]
      c == Code(g, else)[1]
      h == DropEdge(DropEdge(g, top, if), top, else)
      g1 == [h EXCEPT !.blk[top].ins = Front(@), !.temp = @ + 1]
      value == IF a.op = "const" THEN << Temp(g1.temp), 0 >> ELSE a.src[1]
      g2 == IF a.op = "const" THEN Emit(g1, top, Const(value, a.n)) ELSE g1
      move == IF c.op = "const" THEN Ins("cmovc", << x >>, << branch.src[1], value >>, c.n, << branch.n >>)
              ELSE Ins("cmov", << x >>, << branch.src[1], value, c.src[1] >>, 0, << branch.n >>)
      g3 == DropEdge(DropEdge(Emit(g2, top, move), if, b), else, b)
  IN IF branch.op # "branch" \/ ~isValue(if) \/ ~isValue(else) THEN [g EXCEPT !.crashed = TRUE]
     ELSE [EmitJump(g3, top, b) EXCEPT !.blk[b].ins = Tail(@)]

HasFoldable(g, idom) == \E b \in g.live : JoinsAssignments(g, b, idom)
FoldAssignments(g, idom) ==
  FoldLeft(LAMBDA h, b : IF ~h.crashed /\ JoinsAssignments(h, b, idom) THEN FoldAssignment(h, b, idom) ELSE h,
           g, Ascending(g.live))

---------------------------------------------------------------------------
(* Cleaning.                                                               *)

(* Mutant of Redirect: the edge to the block that was passed over stays. *)
RedirectAndKeepEdge(g, p, empty, target) ==
  LET swap(i) == [i EXCEPT !.to = [k \in DOMAIN @ |-> IF @[k] = empty THEN target ELSE @[k]]]
  IN AddEdge([g EXCEPT !.blk[p].ins = Append(Front(@), swap(Last(@)))], p, target)

(* Every way into an empty block leads to the block it jumps to instead.   *)
Redirect(g, p, empty, target) ==
  LET h == DropEdge(g, p, empty)
      code == Code(h, p)
      hits == code # << >> /\ Last(code).op \in {"jump", "branch", "switch"} /\ empty \in ToSet(Last(code).to)
      swap(i) == [i EXCEPT !.to = [k \in DOMAIN @ |-> IF @[k] = empty THEN target ELSE @[k]]]
  IN IF hits THEN AddEdge([h EXCEPT !.blk[p].ins = Append(Front(@), swap(Last(@)))], p, target) ELSE h
ReplaceAllBranchTargets(g, empty, target) ==
  DropEdge(FoldLeft(LAMBDA h, p : Redirect(h, p, empty, target), g, Ascending(Pred(g, empty))), empty, target)

Combine(g, a, b) ==
  [g EXCEPT !.blk[a].ins = @ \o Code(g, b), !.live = @ \ {b},
            !.blk[a].suc = @ \o SelectSeq(g.blk[b].suc, LAMBDA s : s \notin ToSet(@)),
            !.blk[a].kind = IF @ = "entry" THEN @ ELSE g.blk[b].kind]

ReduceBranch(acc, b) ==
  LET i == LastIns(acc.g, b)
      same == LastOp(acc.g, b) = "branch" /\ i.to[1] = i.to[2]
      g == IF same THEN EmitJump([acc.g EXCEPT !.blk[b].ins = Front(@)], b, i.to[1]) ELSE acc.g
      to == LastIns(g, b).to[1]
  IN IF LastOp(g, b) # "jump" THEN acc
     ELSE IF Len(Code(g, b)) = 1 /\ g.blk[b].kind # "entry"
     THEN [g |-> ReplaceAllBranchTargets(g, b, to), changed |-> TRUE]
     ELSE IF Cardinality(Pred(g, to)) = 1
     THEN [g |-> Combine(DropEdge([g EXCEPT !.blk[b].ins = Front(@)], b, to), b, to), changed |-> TRUE]
     ELSE [g |-> g, changed |-> acc.changed \/ same]

(* One round over the blocks; there is another one while it changes things.*)
CleanRound(g) == FoldLeft(ReduceBranch, [g |-> g, changed |-> FALSE], PostOrder(g))

RECURSIVE ReachableFrom(_, _)
ReachableFrom(g, seen) ==
  LET next == seen \cup UNION { Suc(g, b) : b \in seen } IN IF next = seen THEN seen ELSE ReachableFrom(g, next)
DeleteAllUnreachable(g) == [g EXCEPT !.live = @ \cap ReachableFrom(g, {g.entry})]
=============================================================================
