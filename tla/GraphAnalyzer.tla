---------------------------- MODULE GraphAnalyzer ----------------------------
(***************************************************************************)
(* Dominance and postdominance of the blocks of a function, and the orders *)
(* its blocks are traversed in                                             *)
(* (src/oc/compiler/graph_analyzer/graph_analyzer.c): the Lengauer-Tarjan  *)
(* algorithm with path compression.  The source has each operation twice,  *)
(* once along the successors from the entry and once along the             *)
(* predecessors from the exit; here the direction is a parameter.          *)
(***************************************************************************)
EXTENDS IntermediateCode

Forward(g) == [b \in DOMAIN g.blk |-> g.blk[b].suc]
Backward(g) == [b \in DOMAIN g.blk |-> Ascending(Pred(g, b))]

(* What the algorithm keeps for each block: its number in the depth-first  *)
(* search (0 until it is found), the block it was found from, the number   *)
(* of its semidominator, the ancestor it is linked to, the best candidate  *)
(* on the way there, the blocks it semidominates, its immediate dominator. *)
Unnumbered == 0
NoDominators(n) ==
  [ number |-> [b \in n |-> Unnumbered], vertex |-> << >>, parent |-> [b \in n |-> NoBlock],
    semi |-> [b \in n |-> Unnumbered], ancestor |-> [b \in n |-> NoBlock], best |-> [b \in n |-> b],
    worklist |-> [b \in n |-> {}], idom |-> [b \in n |-> NoBlock] ]

RECURSIVE DfsNumber(_, _, _)
DfsNumber(l, b, next) ==
  LET n == Len(l.vertex) + 1
      found == [l EXCEPT !.number[b] = n, !.semi[b] = n, !.vertex = Append(@, b)]
  IN FoldLeft(LAMBDA acc, s : IF acc.number[s] # Unnumbered THEN acc
                              ELSE DfsNumber([acc EXCEPT !.parent[s] = b], s, next),
              found, next[b])

(* Points a block straight at the root of its tree of linked ancestors.    *)
(* Mutant of Evaluated: every block is its own best candidate. *)
Unevaluated(l, b) == l
RECURSIVE Compressed(_, _)
Compressed(l, b) ==
  LET a == l.ancestor[b] IN
  IF a = NoBlock \/ l.ancestor[a] = NoBlock THEN l
  ELSE LET m == Compressed(l, a)
       IN [m EXCEPT !.ancestor[b] = m.ancestor[a],
                    !.best[b] = IF m.semi[m.best[a]] < m.semi[@] THEN m.best[a] ELSE @]
Evaluated(l, b) == IF l.ancestor[b] = NoBlock THEN l ELSE Compressed(l, b)

(* One block, from the last one found to the first: its semidominator, and *)
(* the dominators of the blocks its parent semidominates.                  *)
DominateBlock(l0, i, back) ==
  LET w == l0.vertex[i]
      parent == l0.parent[w]
      closer(l, p) ==
        IF l.number[p] = Unnumbered THEN l
        ELSE LET m == IF l.number[p] < l.number[w] THEN l ELSE Evaluated(l, p)
                 candidate == IF l.number[p] < l.number[w] THEN p ELSE m.best[p]
             IN IF m.semi[candidate] < m.semi[w] THEN [m EXCEPT !.semi[w] = m.semi[candidate]] ELSE m
      l1 == FoldLeft(closer, l0, back[w])
      l2 == [l1 EXCEPT !.worklist[l1.vertex[l1.semi[w]]] = @ \cup {w}, !.ancestor[w] = parent]
      settle(l, d) ==
        LET m == Evaluated(l, d)
        IN [m EXCEPT !.idom[d] = IF m.semi[m.best[d]] < m.semi[d] THEN m.best[d] ELSE parent]
  IN [FoldLeft(settle, l2, Ascending(l2.worklist[parent])) EXCEPT !.worklist[parent] = {}]

DominatorsFrom(root, next, back) ==
  LET numbered == DfsNumber(NoDominators(DOMAIN next), root, next)
      found == Len(numbered.vertex)
      semi == FoldLeft(LAMBDA l, i : DominateBlock(l, i, back), numbered, [k \in 1 .. found - 1 |-> found + 1 - k])
      finish(l, i) ==
        LET w == l.vertex[i] IN
        IF l.idom[w] = l.vertex[l.semi[w]] THEN l ELSE [l EXCEPT !.idom[w] = l.idom[@]]
  IN FoldLeft(finish, semi, [k \in 1 .. found - 1 |-> k + 1]).idom

ImmediateDominators(g) == DominatorsFrom(g.entry, Forward(g), Backward(g))
ImmediatePostdominators(g) == DominatorsFrom(g.exit, Backward(g), Forward(g))

(* The blocks from b up to, not including, its end in the tree of idom.  A *)
(* walk that runs off the tree without meeting the end is Lost.            *)
Lost == -1
RECURSIVE ClimbTo(_, _, _)
ClimbTo(b, end, idom) ==
  IF b = end THEN {} ELSE IF b = NoBlock THEN {Lost} ELSE {b} \cup ClimbTo(idom[b], end, idom)

(* The frontier a block is added to, from every block with two or more     *)
(* ways in: the blocks between each of them and its immediate dominator.   *)
FrontierWalks(g, ways, idom) ==
  [b \in g.live |-> IF Cardinality(ways[b]) < 2 THEN {}
                    ELSE UNION { ClimbTo(p, idom[b], idom) : p \in ways[b] }]
Frontiers(g, walks) == [b \in g.live |-> { f \in g.live : b \in walks[f] }]

DominatorTree(g, idom) ==
  [b \in g.live |-> Reverse(Ascending({ c \in g.live : idom[c] = b }))]

(* All relations of a function.  crashed: a frontier walk followed a       *)
(* dominator that is not there.                                            *)
RelationsOf(g, idom, ipdom, df, rdf) ==
  [ idom |-> idom, ipdom |-> ipdom, children |-> DominatorTree(g, idom),
    df |-> Frontiers(g, df), rdf |-> Frontiers(g, rdf),
    crashed |-> \E b \in g.live : Lost \in df[b] \cup rdf[b] ]
WithFrontiers(g, idom, ipdom) ==
  RelationsOf(g, idom, ipdom, FrontierWalks(g, [b \in g.live |-> Pred(g, b)], idom),
              FrontierWalks(g, [b \in g.live |-> Suc(g, b)], ipdom))
ControlFlowRelations(g) == WithFrontiers(g, ImmediateDominators(g), ImmediatePostdominators(g))

RECURSIVE NearestMarked(_, _, _)
NearestMarked(b, marked, ipdom) ==
  IF b = NoBlock \/ ipdom[b] = NoBlock THEN NoBlock
  ELSE IF ipdom[b] \in marked THEN ipdom[b] ELSE NearestMarked(ipdom[b], marked, ipdom)

---------------------------------------------------------------------------
(* Traversals.                                                             *)

RECURSIVE PostOrderFrom(_, _, _)
PostOrderFrom(seen, b, next) ==
  IF b \in ToSet(seen.order) \cup seen.open THEN seen
  ELSE LET done == FoldLeft(LAMBDA acc, s : PostOrderFrom(acc, s, next),
                            [seen EXCEPT !.open = @ \cup {b}], next[b])
       IN [done EXCEPT !.order = Append(@, b)]

PostOrder(g) == PostOrderFrom([order |-> << >>, open |-> {}], g.entry, Forward(g)).order
ReversePostOrderReverseCfg(g) ==
  Reverse(PostOrderFrom([order |-> << >>, open |-> {}], g.exit, Backward(g)).order)
=============================================================================
