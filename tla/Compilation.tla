---------------------------- MODULE Compilation ----------------------------
(***************************************************************************)
(* The compilation of one function, pass by pass, from its syntax tree to  *)
(* the optimized intermediate code (src/oc/compiler/compiler.c), and a run *)
(* of the code it has arrived at beside a run of the source.               *)
(*                                                                         *)
(* After any pass that leaves executable code the function may be run.     *)
(* The two runs then meet at every event, and the environment gives both   *)
(* the same answer.                                                        *)
(***************************************************************************)
EXTENDS OllieSource, Lowering, StaticAnalyzer, BlockLayout

CONSTANTS
  Programs,     \* the functions compiled: their body and their mutable variables
  Answers       \* the answers each question of a program may get

VARIABLES
  program,
  stage,        \* the last pass that ended, or how compiling ended early
  graph,        \* the function as it is now
  relations,    \* its control flow relations, as they were last computed
  rounds,       \* the rounds the pass that is under way has changed something in
  source,       \* the run of the source, NotRunning before it starts
  machine       \* the run of the code

vars == << program, stage, graph, relations, rounds, source, machine >>
settled == << program, rounds, source, machine >>
running == << program, source, machine >>

NotRunning == << >>
Unrelated == << >>

Init ==
  /\ program \in Programs
  /\ stage = "parsed" /\ graph = EmptyFunction /\ relations = Unrelated
  /\ rounds = 0 /\ source = NotRunning /\ machine = NotRunning

---------------------------------------------------------------------------
(* The passes.                                                             *)

IsCompiling(s) == stage = s /\ machine = NotRunning

Lower ==
  /\ IsCompiling("parsed")
  /\ graph' = LoweredFunction(program.body)
  /\ stage' = "lowered"
  /\ UNCHANGED << relations, settled >>

(* Relations, SSA and the checks of the static analyzer.                   *)
Analyze ==
  /\ IsCompiling("lowered")
  /\ relations' = ControlFlowRelations(graph)
  /\ IF relations'.crashed
     THEN stage' = "crashed" /\ UNCHANGED graph
     ELSE LET ssa == SSAForm(graph, relations', program.mutable)
          IN /\ graph' = ssa.g
             /\ stage' = IF IsAccepted(ssa, relations', program.mutable) THEN "accepted" ELSE "rejected"
  /\ UNCHANGED settled

MarkAndSweepPass(from, to) ==
  /\ IsCompiling(from)
  /\ graph' = MarkAndSweep(graph, relations)
  /\ stage' = IF graph'.crashed THEN "crashed" ELSE to
  /\ UNCHANGED << relations, settled >>

(* What a pass that changed the control flow is followed by.               *)
Recomputed(g, rel, to) ==
  IF g.crashed \/ rel.crashed
  THEN stage' = "crashed" /\ graph' = g /\ relations' = Unrelated
  ELSE stage' = to /\ graph' = g /\ relations' = rel
Recompute(g, to) ==
  LET reachable == DeleteAllUnreachable(g) IN Recomputed(reachable, ControlFlowRelations(reachable), to)

FirstSweep == MarkAndSweepPass("accepted", "swept")

OptimizeAlwaysTrueFalsePaths ==
  /\ IsCompiling("swept")
  /\ IF HasOnlyWay(graph) THEN Recompute(AlwaysTrueFalsePaths(graph), "straightened")
     ELSE stage' = "decided" /\ UNCHANGED << graph, relations >>
  /\ UNCHANGED settled
SecondSweep == MarkAndSweepPass("straightened", "decided")

OptimizeBranchingAssignments ==
  /\ IsCompiling("decided")
  /\ IF HasFoldable(graph, relations.idom) THEN Recompute(FoldAssignments(graph, relations.idom), "moved")
     ELSE stage' = "folded" /\ UNCHANGED << graph, relations >>
  /\ UNCHANGED settled
ThirdSweep == MarkAndSweepPass("moved", "folded")

Clean ==
  /\ IsCompiling("folded")
  /\ LET round == CleanRound(graph)
     IN IF round.changed
        THEN graph' = round.g /\ rounds' = rounds + 1 /\ UNCHANGED << stage, relations >>
        ELSE rounds' = 0 /\ Recompute(graph, "optimized")
  /\ UNCHANGED running

(* The selector: the blocks get their order, values are numbered, what     *)
(* became useless is swept, and the branches are selected.                 *)
Select ==
  /\ IsCompiling("optimized")
  /\ LET swept == SelectorMarkAndSweep(GlobalValueNumbering(graph, relations.children), relations)
     IN IF swept.crashed THEN stage' = "crashed" /\ UNCHANGED graph
        ELSE /\ stage' = "selected"
             /\ graph' = [SelectBranches(swept) EXCEPT !.order = BlockOrder(swept)]
  /\ UNCHANGED << relations, settled >>

(* The postprocessor, after registers were allocated.                      *)
RemoveMoves ==
  /\ IsCompiling("selected")
  /\ graph' = RemoveUselessMoves(graph) /\ stage' = "allocated"
  /\ UNCHANGED << relations, settled >>
Condense ==
  /\ IsCompiling("allocated")
  /\ LET round == CondenseRound(graph)
     IN IF round.changed
        THEN graph' = round.g /\ rounds' = rounds + 1 /\ UNCHANGED stage
        ELSE graph' = Reordered(graph) /\ rounds' = 0 /\ stage' = "placed"
  /\ UNCHANGED << relations, running >>

Pass ==
  \/ Lower \/ Analyze
  \/ FirstSweep \/ OptimizeAlwaysTrueFalsePaths \/ SecondSweep
  \/ OptimizeBranchingAssignments \/ ThirdSweep \/ Clean
  \/ Select \/ RemoveMoves \/ Condense

---------------------------------------------------------------------------
(* Running.                                                                *)

Runnable == {"lowered", "accepted", "optimized", "selected", "placed"}
IsRunning == machine # NotRunning

RunFunction ==
  /\ stage \in Runnable /\ ~IsRunning
  /\ source' = Start(program.body)
  /\ machine' = Ready(graph)
  /\ UNCHANGED << program, stage, graph, relations, rounds >>

(* The runs go on together while they agree.                               *)
AnswerEvent ==
  /\ IsRunning /\ source.ev = machine.ev /\ source.ev \notin Final
  /\ \E a \in (IF source.ev[1] \in {"ask", "try"} THEN Answers[source.ev[2]] ELSE {0}) :
       source' = Answered(source, a) /\ machine' = CodeAnswered(graph, machine, a)
  /\ UNCHANGED << program, stage, graph, relations, rounds >>

Next == Pass \/ RunFunction \/ AnswerEvent

Spec == Init /\ [][Next]_vars

---------------------------------------------------------------------------
(* Properties.                                                             *)

(* Whatever the function is asked to do, the code does what the source    *)
(* does, event by event, after the lowering, after SSA, after the optimizer,  *)
(* after instruction selection and in its final layout.  Sources that read *)
(* a variable before it has a value are left out, and so are runs that     *)
(* loop for ever without an event: mark and sweep drops such loops         *)
(* (optimizer.c mark, sweep; instruction_selector.c global value           *)
(* numbering; postprocessor.c condense).                                   *)
BehaviourPreserved ==
  IsRunning /\ ~source.undef /\ source.ev # << "spin" >> => source.ev = machine.ev

(* Names of a variable share one live range once the phi functions are     *)
(* gone, so an instruction must find in it the very name it was renamed to *)
(* read: pruned phi placement, renaming and every pass that moves code     *)
(* keep the name an operand has the last one that was written              *)
(* (static_analyzer.c insert_phi_functions, rename_all_variables).  The    *)
(* postprocessor then copies blocks without their phi functions.           *)
NamesAreCurrent ==
  IsRunning /\ stage \in {"accepted", "optimized", "selected"} /\ ~source.undef => ~machine.wrong

(* No run of an accepted function reads a variable that has no value on    *)
(* the way it came: the definite assignment analysis of the static         *)
(* analyzer works on the blocks before they are simplified                 *)
(* (static_analyzer.c, initialization states).                             *)
AcceptedReadsAreDefined == IsRunning /\ stage # "lowered" => ~source.undef

(* No run of an accepted function assigns a variable that is not mutable a *)
(* second time, around a loop or after a jump back included                *)
(* (static_analyzer.c, mutability rules).                                  *)
ImmutablesAreSetOnce == IsRunning /\ stage # "lowered" => source.again \subseteq program.mutable

(* No pass follows a pointer that is not there or meets a form of code it  *)
(* gives up on.                                                            *)
NeverCrashes == stage # "crashed"

(* The dominators the Lengauer-Tarjan code computes are the dominators:    *)
(* the blocks without which a block cannot be reached from the entry, and  *)
(* the immediate one is dominated by all the others; the same of           *)
(* postdominators and the way to the exit (graph_analyzer.c).              *)
Cut(next, d) == [b \in DOMAIN next |-> IF b = d THEN << >> ELSE next[b]]
RECURSIVE Flood(_, _)
Flood(next, seen) ==
  LET more == seen \cup UNION { ToSet(next[b]) : b \in seen } IN IF more = seen THEN seen ELSE Flood(next, more)
StrictDominators(next, root, b) ==
  { d \in DOMAIN next \ {b} : d = root \/ b \notin Flood(Cut(next, d), {root}) }
IsExact(next, root, idom) ==
  \A b \in Flood(next, {root}) \ {root} :
    LET reached == Flood(next, {root})
        dominators == StrictDominators(next, root, b) \cap reached
    IN idom[b] \in dominators /\ dominators \ {idom[b]} = StrictDominators(next, root, idom[b]) \cap reached
Related == {"accepted", "straightened", "moved", "optimized"}
DominatorsExact ==
  ~IsRunning /\ (stage \in Related \/ (stage = "crashed" /\ relations # Unrelated /\ ~graph.crashed)) =>
    /\ IsExact(Forward(graph), graph.entry, relations.idom)
    /\ IsExact(Backward(graph), graph.exit, relations.ipdom)

(* In the final layout every jump goes to a block that is placed, and no   *)
(* block but one that leaves the function comes last: redirecting,         *)
(* combining and hoisting keep up with every jump (postprocessor.c).       *)
CodeIsClosed ==
  stage = "placed" /\ ~IsRunning =>
    /\ \A b \in ToSet(graph.order) : \A k \in DOMAIN Code(graph, b) : ToSet(Code(graph, b)[k].to) \subseteq
         (IF Code(graph, b)[k].op \in {"jump", "jcc", "jp", "switch"} THEN ToSet(graph.order) ELSE ToSet(Code(graph, b)[k].to))
    /\ LastOp(graph, Last(graph.order)) \in {"ret", "raise", "jump", "switch"}

(* Cleaning (optimizer.c clean) and condensing (postprocessor.c condense)  *)
(* are repeated until a round changes nothing; both come to an end, after  *)
(* no more rounds than the function has blocks.                            *)
RoundsAreBounded == rounds <= Cardinality(DOMAIN graph.blk)
=============================================================================
