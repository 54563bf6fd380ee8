--------------------------- MODULE StaticAnalyzer ---------------------------
(***************************************************************************)
(* The static analyzer (src/oc/compiler/static_analyzer/static_analyzer.c):*)
(* conversion to SSA form, the analysis of what is initialized where, and  *)
(* the checks that every variable is assigned before it is used and that   *)
(* no immutable variable is assigned twice.  The liveness the pruned phi   *)
(* functions need is computed when the graph is built (cfg.c).             *)
(***************************************************************************)
EXTENDS GraphAnalyzer

IsEligible(x) == ~IsTemp(x)
EligibleVars(names) == { x[1] : x \in { y \in ToSet(names) : IsEligible(y) } }

(* What a block uses before it assigns it, and what it assigns.            *)
UseAndDef(code) ==
  FoldLeft(LAMBDA acc, i : [use |-> acc.use \cup (EligibleVars(i.src) \ acc.def),
                            def |-> acc.def \cup EligibleVars(i.dst)],
           [use |-> {}, def |-> {}], code)
Assigned(g, b) == UseAndDef(Code(g, b)).def
VariablesOf(g) == UNION { Assigned(g, b) \cup UseAndDef(Code(g, b)).use : b \in g.live }

(* What is live where a block starts.  Only blocks that reach the exit are *)
(* visited: nothing is ever live in the others.                            *)
RECURSIVE LiveFrom(_, _, _, _)
LiveFrom(g, sets, order, live) ==
  LET next == [b \in DOMAIN live |->
        IF b \notin order THEN {}
        ELSE sets[b].use \cup (UNION { live[s] : s \in Suc(g, b) } \ sets[b].def)]
  IN IF next = live THEN live ELSE LiveFrom(g, sets, order, next)
LiveIn(g) ==
  LET all == g.live \cup {g.exit}
  IN LiveFrom(g, [b \in all |-> UseAndDef(Code(g, b))],
              ToSet(ReversePostOrderReverseCfg(g)), [b \in all |-> {}])

---------------------------------------------------------------------------
(* Phi functions.                                                          *)

RECURSIVE DominatesTarget(_, _, _)
DominatesTarget(b, target, idom) ==
  target # NoBlock /\ (target = b \/ DominatesTarget(b, idom[target], idom))

(* The iterated dominance frontier of the blocks in work, as far as it is  *)
(* admitted.                                                               *)
(* Mutant of PhiBlocks: the frontier is not iterated. *)
FirstFrontier(work, has, df, admitted) == (UNION { df[b] : b \in work } \cap admitted) \ has
RECURSIVE PhiBlocks(_, _, _, _)
PhiBlocks(work, has, df, admitted) ==
  LET new == (UNION { df[b] : b \in work } \cap admitted) \ has
  IN IF new = {} THEN has ELSE PhiBlocks(new, has \cup new, df, admitted)

(* Mutable variables, and those the compiler made, get a phi function only *)
(* where they are live; the others wherever their declaration dominates.   *)
IsPruned(v, mutable) == v \in mutable \/ ~IsUserVariable(<< v, 0 >>)
PhiTargets(g, rel, live, v, mutable) ==
  LET admitted == IF IsPruned(v, mutable) THEN { b \in g.live : v \in live[b] }
                  ELSE { b \in g.live : DominatesTarget(g.decl[v], b, rel.idom) }
  IN PhiBlocks({ b \in g.live : v \in Assigned(g, b) }, {}, rel.df, admitted)

InsertPhis(g, rel, mutable) ==
  LET live == LiveIn(g)
      insert(h, v) ==
        LET at == PhiTargets(g, rel, live, v, mutable)
        IN [h EXCEPT !.blk = [b \in DOMAIN @ |->
              IF b \in at THEN [@[b] EXCEPT !.ins = << Ins("phi", << << v, 0 >> >>, None, 0, None) >> \o @] ELSE @[b]]]
  IN FoldLeft(insert, g, Ascending(VariablesOf(g)))

---------------------------------------------------------------------------
(* Renaming.  Every variable has a counter of its generations and a stack  *)
(* of those in force; generation 0 is the variable before any assignment.  *)
(* over remembers which generation an assignment replaced.                 *)

OverwritesNothing == -1
InitialNames(vars) ==
  [ count |-> [v \in vars |-> 1], stack |-> [v \in vars |-> << 0 >>],
    over |-> [x \in vars \X {0} |-> OverwritesNothing] ]

LhsNewName(names, v, overwrites) ==
  LET n == names.count[v]
  IN [ count |-> [names.count EXCEPT ![v] = @ + 1],
       stack |-> [names.stack EXCEPT ![v] = Append(@, n)],
       over |-> (<< v, n >> :> IF overwrites THEN Last(names.stack[v]) ELSE OverwritesNothing) @@ names.over ]
RhsNewName(names, x) == IF IsEligible(x) THEN << x[1], Last(names.stack[x[1]]) >> ELSE x

(* Renames one instruction: its operands, then what it assigns.            *)
RenameInstruction(acc, i) ==
  LET used == IF i.op = "phi" THEN i.src ELSE [k \in DOMAIN i.src |-> RhsNewName(acc.names, i.src[k])]
      names == FoldLeft(LAMBDA n, x : IF IsEligible(x) THEN LhsNewName(n, x[1], i.op # "phi") ELSE n,
                        acc.names, i.dst)
  IN [ names |-> names,
       code |-> Append(acc.code, [i EXCEPT !.src = used, !.dst = [k \in DOMAIN @ |-> RhsNewName(names, @[k])]]) ]

(* The phi functions at the head of a successor take the name in force.    *)
PassToPhis(names, code) ==
  [k \in DOMAIN code |-> IF code[k].op # "phi" THEN code[k]
                         ELSE [code[k] EXCEPT !.src = Append(@, RhsNewName(names, code[k].dst[1]))]]

RECURSIVE RenameBlock(_, _, _)
RenameBlock(s, b, children) ==
  LET here == FoldLeft(RenameInstruction, [names |-> s.names, code |-> << >>], Code(s.g, b))
      g1 == [s.g EXCEPT !.blk[b].ins = here.code]
      g2 == FoldLeft(LAMBDA g, t : [g EXCEPT !.blk[t].ins = PassToPhis(here.names, @)], g1, g1.blk[b].suc)
      below == FoldLeft(LAMBDA acc, c : RenameBlock(acc, c, children), [g |-> g2, names |-> here.names], children[b])
      pushed == SelectSeq(FlattenSeq([k \in DOMAIN here.code |-> here.code[k].dst]), IsEligible)
      pop(stack, x) == [stack EXCEPT ![x[1]] = Front(@)]
  IN [below EXCEPT !.names.stack = FoldLeft(pop, @, pushed)]

(* The function in SSA form, with the names it uses. *)
SSAForm(g, rel, mutable) ==
  LET phis == InsertPhis(g, rel, mutable)
  IN RenameBlock([g |-> phis, names |-> InitialNames(VariablesOf(g))], g.entry, rel.children)

---------------------------------------------------------------------------
(* Initialization.  An assignment initializes its name; a phi function     *)
(* only if all the names that reach it are.                                *)

DefinedNames(g, blocks) ==
  UNION { UNION { { x \in ToSet(i.dst) : IsEligible(x) } : i \in ToSet(Code(g, b)) } : b \in blocks }
PhisOf(g, blocks) == UNION { { i \in ToSet(Code(g, b)) : i.op = "phi" } : b \in blocks }

RECURSIVE MaybeFrom(_, _, _)
MaybeFrom(phis, assigned, maybe) ==
  LET more == { i.dst[1] : i \in { p \in phis : \E x \in ToSet(p.src) : x \notin assigned \/ x \in maybe } }
  IN IF more \subseteq maybe THEN maybe ELSE MaybeFrom(phis, assigned, maybe \cup more)

(* The names that are assigned, and those of them that are so on some of   *)
(* the ways only.                                                          *)
InitializationStates(g) ==
  LET blocks == ToSet(PostOrder(g))
      assigned == DefinedNames(g, blocks)
  IN [assigned |-> assigned, maybe |-> MaybeFrom(PhisOf(g, blocks), assigned, {})]

(* Mutant of CompliesWithDefiniteAssignment: maybe is good enough. *)
CompliesWithMaybe(i, state) == \A x \in ToSet(i.src) : IsEligible(x) => x \in state.assigned
CompliesWithDefiniteAssignment(i, state) ==
  \A x \in ToSet(i.src) : IsEligible(x) => x \in state.assigned \ state.maybe

(* Mutant of CompliesWithMutability: what is maybe initialized may be assigned. *)
CompliesUnlessCertain(i, state, over, mutable) ==
  \A x \in ToSet(i.dst) :
    IsEligible(x) /\ x[1] \notin mutable /\ over[x] # OverwritesNothing
      => << x[1], over[x] >> \notin state.assigned \ state.maybe

(* An immutable variable may only be given a value where it has none.      *)
CompliesWithMutability(i, state, over, mutable) ==
  \A x \in ToSet(i.dst) :
    IsEligible(x) /\ x[1] \notin mutable /\ over[x] # OverwritesNothing
      => << x[1], over[x] >> \notin state.assigned

RECURSIVE TreeBelow(_, _)
TreeBelow(b, children) == {b} \cup UNION { TreeBelow(c, children) : c \in ToSet(children[b]) }

IsAccepted(ssa, rel, mutable) ==
  LET state == InitializationStates(ssa.g)
  IN \A b \in TreeBelow(ssa.g.entry, rel.children) : \A i \in ToSet(Code(ssa.g, b)) :
       i.op # "phi" => /\ CompliesWithDefiniteAssignment(i, state)
                       /\ CompliesWithMutability(i, state, ssa.names.over, mutable)

(* The mutable variables the programmer is told are never mutated.         *)
NeverMutated(ssa, mutable) ==
  { v \in mutable \cap DOMAIN ssa.names.count : ssa.names.count[v] = 2 }
=============================================================================
