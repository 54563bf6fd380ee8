# Models of the Ollie compiler

TLA+ specifications of the Ollie compiler (`src/oc/compiler`): the order of the build, the
replacement of macros, the types and layouts a program defines, the way an expression and a
function take from syntax tree to machine code, the allocation of registers, and the code
around calls. TLC checks them on small instances. TLAPS proves the central properties of the
build system, of types and stack frames, and of the register allocator for programs of any
size.

Line numbers below are of files under `src/oc/compiler`.

## 1. The system

`compiler.c` runs one fixed sequence of passes in one thread:

    options -> build order -> preprocess -> parse -> build_cfg -> static analysis
            -> optimize -> select_all_instructions -> schedule_all_instructions
            -> allocate_all_registers -> postprocess -> assemble_and_link

There is no concurrency, nothing is persisted between two compilations, and a pass ends
by returning, by an error that ends the compilation, or by `exit(1)`. The hard behaviour
is therefore not interleaving but *staleness and order over long sequences of steps*:
fixpoints computed over graphs that the same loop rewrites, marks and flags that a later
pass relies on, code inserted in pieces that only fits together if every piece counted
what the others would insert, and decisions about width, sign and place that two passes
take independently and must take alike.

### Components

| Component (lines) | State it keeps | Operations | What makes it correct |
|---|---|---|---|
| build system (785), dependency graph (85) | module symtab, visitation marks, dependency nodes, compilation order | `construct_build_order`, the mutual recursion `find_or_create_module` / `get_dependency_subtree_from_import_statement` | the order is topological and complete, circularity is reported exactly when present, the recursion ends |
| lexer (1876) | token array per file | tokenize a file or its first two tokens | tokens are those of the text |
| preprocessor (1352) | macro symtab, replacement token arrays, grouping stack | consume macros, replace calls, nested parameters | every call is replaced once, parameters end at their own nesting level |
| parser (15231), AST (8422) | lookahead index, nesting stack, current function, symtabs | recursive descent, coercion and folding, layouts, flags of functions | what is accepted has a meaning and is folded to it; switches cover their type; flags reach every caller |
| type system (3644) | types | coercion, widening, assignability, layouts | operands meet in one type; members do not overlap |
| symbol tables (3159) | function, variable, type, constant, macro and module tables, call graph matrix | insert, lookup, scopes, places of parameters, transitive closure | a name is found in the innermost scope; parameters are where calls put them |
| control flow graph (13000) | blocks, edges, stacks of break and continue targets | build the blocks of each statement, the code of each expression, store arguments | code does what the tree says |
| graph analyzer (1288) | visit marks, semidominators, frontiers | traversals, dominators, postdominators, control dependence | results equal their path definitions |
| static analyzer (1942) | generations, states of initialization | phi functions, renaming, definite assignment, mutability | every use is reached by the name it reads; accepted programs read no undefined variable |
| optimizer (2964) | marks, worklist | mark and sweep, always-true paths, conditional moves, cleaning | what is observable stays; rounds end |
| instruction selector (15296), instructions (9192) | instruction window, value table, region lists | simplification, value numbering, second sweep, translation to x86-64 | each pattern keeps its meaning |
| scheduler (416), data dependency graph (1052) | adjacency, transitive closure, load counts | build the graph, weigh it | dependences are complete; nothing is reordered yet |
| register allocator (5162), interference graph (342), priority queues | live ranges, liveness sets, interference, colours, spill slots | liveness, interference, precolour, coalesce, colour, spill, restart, save around calls, stack allocation | no two live values share a register, and code means what it meant |
| stack data area (538) | regions, total size | place, mark, sweep, realign, align | regions are disjoint, addresses in code stay current |
| postprocessor (956) | block order | useless moves, condensing, hoisting of returns, final order | control flow stays |
| assembler driver (771), compiler driver (609) | files, processes | order of passes, write text, run `as` and `ld` | input and output |
| jump tables, local constants, utilities | lists, sets, queues | containers | the containers' contracts |

### How they interact

* The build system hands the later passes only `compilation_order`. They read it front to
  back and never look at `depends_on`, so a wrong order cannot be noticed later.
* The parser decides the type of every node; the cfg builder and the selector take the width
  and sign of each operation from the types of the variables they are left with.
* The parser places parameters in registers and on the stack while it reads the parameter
  list; the cfg builder places the arguments of a call with code of its own.
* Dominance relations are recomputed after some of the optimizer's passes and not after
  others; the selector's value table is carried down the dominator tree.
* The selector turns regions into constant offsets and sweeps regions afterwards; the
  allocator adds regions for spills, and adds what it pushes to the offsets of parameters.
* The parser keeps the call graph; at its end `requires_initial_alignment` is spread over
  the transitive closure. The cfg builder sets the same flag afterwards, and the stack
  allocator reads it last of all. The selector chooses aligned moves on its strength.
* The allocator's colouring writes `assigned_general_purpose_registers` of a function; the
  saving code of *other* functions reads it. Coalescing and spilling rewrite the code and the
  interference graph that the liveness of the round was computed from.

### What is hard to test

The hazards are listed with their lines in `PROJECT.json`. In short: marks and order in
the recursion of the build system; one failure deep in that recursion; definite assignment
around loops; passes on stale dominance relations; blocks that are merged while an order of
before is walked; value tables and operands overwritten in place; width and sign at the
boundaries, in folding, in conversions and in divisions; paddings counted at two places;
liveness in code that cannot reach an exit; decisions of one coalescing round made on data of
before it; colours kept across spills; saving code inserted inside out around calls; stack
alignment along every call chain; arguments and parameters placed by two pieces of code.

## 2. The modules

| Module | Models | Kind |
|---|---|---|
| `BuildOrder` | what the build system promises | abstract specification |
| `BuildSystem` | `build_system.c`, module symtab, dependency nodes | component; implements `BuildOrder` |
| `BuildSystemProofs` | | proofs about `BuildSystem` and the import graph |
| `MacroText`, `MacroExpansion` | what a file with macros means, and what the preprocessor promises the parser | abstract specification |
| `Preprocessor` | `preprocessor.c` | component; implements `MacroExpansion` |
| `OllieValues`, `OllieSource` | the language: statements, conditions, expressions, and what a function does when it runs | abstract specification |
| `IntermediateCode` | basic blocks of three address code, and a machine that runs them | shared |
| `Lowering` | `cfg.c`: statements and conditions to blocks | component |
| `GraphAnalyzer` | `graph_analyzer.c` | pure algorithms |
| `StaticAnalyzer` | `static_analyzer.c`, liveness of `cfg.c` | component |
| `Optimizer` | `optimizer.c` | component |
| `BlockLayout` | value numbering, second sweep, block order and branches of `instruction_selector.c`; `postprocessor.c` | component |
| `Compilation` | `compiler.c`: the passes in order, and a run of what they leave beside a run of the source | composition of the seven above |
| `OllieTypes` | `type_system.c`: coercion, widening, operators of a type | pure rules |
| `MachineIntegers` | two's complement of scaled widths | shared |
| `ConstantFolding` | `ast.c`, and the folding of the selector | pure rules |
| `ExpressionParser` | the expression levels of `parser.c` | component |
| `ExpressionCode` | the expressions of `cfg.c` | component |
| `Simplifier` | the peephole rules of `instruction_selector.c` 2800-6460 | component |
| `X86Machine` | the instructions the selector emits, as a processor carries them out | environment |
| `InstructionSelection` | the patterns of `instruction_selector.c` 7700-14330 | component |
| `Expressions` | an expression from its leaves to a run | composition of the eight above |
| `TypeDefinitions` | structs, unions, enumerations and switches over them in `parser.c` and `type_system.c` | component |
| `StackDataArea` | `stack_data_area.c` | component |
| `Frames` | what lays out frames, parameters and arguments: `parser.c`, `symtab.c`, `cfg.c`, `optimizer.c`, the selector and the allocator | composition with the two above |
| `FramesProofs` | | proofs about `Frames` and `StackDataArea` |
| `TypeProofs` | | proofs about the layouts and the switches of `TypeDefinitions` |
| `RegisterAllocator` | `register_allocator.c` steps 1-7, `interference_graph.c`, max priority queue | component |
| `AllocatorProofs`, `AllocatorColorProofs` | | proofs about `RegisterAllocator` |
| `AllocatedCode` | an x86-64 machine that runs the allocator's code next to its source | composition with `RegisterAllocator` |
| `AllocatedCodeProofs` | | proofs about a run of `AllocatedCode`, and about what it supposes of a function |
| `CallingConvention` | alignment flags (parser, cfg), colouring's record of assigned registers, steps 8 and 9 of the allocator, stack data area sizes, and the machine that runs the result | composition of four components |
| `CallingConventionProofs` | | proofs about the code that `CallingConvention` puts together, and about a run of it |
| `NumberFacts` | | facts about numbers and bounded sets that the proofs share |
| `MC...` | the constants of the runs | model checking |

### BuildSystem

The recursion is the variable `stack`: one frame per active call of
`find_or_create_module`, with the index of the import statement it is at. `visit` is the
module symtab and the marks of `dependency_graph_node_t` in one (`"absent"`: no record).
`pc` says whether the innermost call scans imports, has just been returned to, or is
unwinding a NULL. A file is its two-token header and its sequence of import statements;
directory order is the sequence `search`, and all of its contents are in `project`, chosen
at the start and never written. Each way out of the handlers is an action: `CircularImport`,
`KnownModule`, `ModuleNotFound`, `ModuleTokenizeFails`, `FatalFile` (the `exit(1)` in the
directory walk), `MalformedImport`, `MissingSemicolon` (looked at only after the whole
subtree was built, line 427), and the two that end the compiler by a bad pointer,
`HashCollision` and `AngledImport`. `CreateModule` / `FinishModule` enter and leave a node.

The import loop is entered behind `$module name ;` at index 3 (index 0 for the main file),
which is why a header that is found is always of that form in the model.

`BuildOrder` says only: a module is emitted once, after all it needs; the order is handed
over with the main file last; a build may be rejected at any time. `BuildSystem` implements
it with `needs` mapped to the files' imports, `emitted` to `order`, `verdict` to `pc`.

### Preprocessor

`MacroText` writes a file as its author means it: words, groups in parentheses, identifiers
applied to arguments, definitions, directives. `Rendered` makes the tokens of it, `Replaced`
what it says once its calls are replaced, by descent over that structure. `MacroExpansion`
delivers the replaced files in their order, or rejects the first one that is not well formed.

`Preprocessor` sees tokens only. The consumption pass is `BeginMacro`, `MacroParameter`,
`MacroToken`, `EndMacro` for `process_macro`, `SkipImport`, `SkipModule`, `SkipOunit`, and
`PlainToken`; `ignored` holds the tokens that are flagged, `macros` the symtab that all files
share. In the replacement pass `perform_macro_substitution` and
`generate_parameter_substitution_array` call each other: `calls` is the stack of the calls
that read their arguments, each with its own nesting level, beside `grouping`, the stack of
parentheses they share. A file is left as it is when no macro and no directive has been
counted up to it. `streams` is mapped to what is delivered. What a body names is not looked
up again, in the code as in the meaning.

### Compilation

One function over integer variables. `OllieSource` gives the statements of the language a
meaning of their own, a run that stops at each *event*: a use of a value (a call), a question
to the environment, a call that may raise, a return, a raise, a loop without an event.
`Lowering` is the recursive descent of `visit_*` and `emit_*` over the same tree: each is an
operator from the graph built so far to the graph and a result package, with the stacks of
break and continue targets, the values of conditions, operands kept in temporaries when the
second one assigns their variable, C-style and ollie-style switches, labels, and
`handle` clauses of calls. `StaticAnalyzer` computes liveness, phi functions (pruned for
mutable variables, full for the others), renames, and decides whether the function is
accepted. `GraphAnalyzer` is the Lengauer-Tarjan code with its path compression, the
frontiers and the dominator tree. `Optimizer` and `BlockLayout` are the passes, each from a
graph to a graph, and `Compilation` is the sequence of them with the recomputation of the
relations where the code has it. A pass that reads through NULL or meets what it gives up on
leaves the graph `crashed`.

After lowering, SSA, optimizer, selector and postprocessor, the function may be run beside
its source with every answer of the environment, and the events compared. Phi functions do
nothing when code runs: all names of a variable share one place, as they share one live range
in the compiler, and the machine notes every operand that is not the last name given.

### Expressions

One assignment `x = e`. The parser's levels are operators on a stack of trees (`Leaf`,
`Unary`, `CastTo`, `Operation`, `Choice`): each checks its operands, coerces both to one
type, folds constants, and may reject. Beside each tree its *twin* is kept in which nothing
is folded. `Assignment` emits the three address code; `Simplify` applies one peephole rule to
one window at a time, in any order, until none matches; `global_value_number` may make a
second reader of the left operand's temporary; `Select` translates instruction by
instruction, and `Execute` runs the result on `X86Machine`, whose registers are 8 byte
patterns and whose upper parts keep what was there unless the instruction clears it.
A byte has two bits (`Bits`: 2, 4, 8 and 16 bits for 1, 2, 4 and 8 bytes), which keeps every
relation between widths and makes all boundary values cheap.

### TypeDefinitions, StackDataArea and Frames

`TypeDefinitions` is the parser's loop over members, one action per rule: `struct_member`,
`union_member` and the two ends of their lists, `ExplicitMember` and `ImplicitMember` of an
enumeration, `case_statement`, `default_statement` and `switch_statement`. A type is its
class, its size, and the size `get_base_alignment_type` gives. Names are left out: a name
that was used before is a member or case that is refused.

`StackDataArea` has one action per function of `stack_data_area.c`; the loop of
`realign_data_area` is one step per region, with `pending` the regions it has not come to.
Three data areas use it in `Frames`, one after the other: the locals of a function
(`DeclareLocal`, the optimizer's marks and sweep, `SelectReference`, which makes an address a
constant, the selector's sweep, `Spill`, `FinishFrame`), the parameters a function is passed
on the stack (`DeclareParameter`, `DeclareList` for an elaborative parameter, `EndParameters`,
`ResultType`, which moves parameters, and a list among them, when the result is returned by
copy), and the arguments of one call (`BeginCall`, `StoreArgument`, `StoreCount`,
`StoreElement`, `Call`).

### RegisterAllocator and AllocatedCode

One function and one class of registers. An instruction has the variable structures
(`three_addr_var_t`) it reads and writes, each of which points to a live range; a variable
structure may be shared by several instructions, as in the code. `code`, `range`, `reg`,
`neighbors`, `spillCost`, `liveIn` are the fields of instructions, variables and live
ranges. The actions follow `allocate_registers_for_function`: `Build` (live ranges),
`VisitBlock` (the liveness equations of the last block that has not settled, until all have),
`BuildInterference` (interference, then precolouring), `Coalesce` (the next copy that
`perform_live_range_coalescence` can merge), `EndRound`, `Color` / `StartSpill`
(the heap's maximum; ties in any order), `SpillCopy`, `SpillConst`, `SpillOperands` (one
instruction of the spilled function), `Restart`.

Liveness is computed over the blocks a backward walk from the exit reaches, as the code
does. Priorities are 16 bits wide. Colours survive a restart, and coalescing sees registers
and neighbours as they are at that moment but liveness and costs of before the round.

`AllocatedCode` runs the result. Each value is tagged with the instruction that made it,
and is marked stale when that instruction runs again, so a loop cannot hide a value of an
earlier iteration. The source runs in lockstep on the variables' names, and
`UsesSeeTheirValues` compares the two at every operand. This says far more than the
colouring being proper: liveness, coalescing and the placing of loads and stores have all
to be right.

### CallingConvention

A program is a sequence of functions with coloured bodies, in the order of
`function_entry_blocks`. `Parse` spreads the alignment flag over the call graph, `BuildCfg`
sets it where the cfg does, `Color` and `InsertSavingLogic` alternate function by function
as in `allocate_all_registers` (so a caller allocated first sees an empty set of its
callee). `Complete` puts the code together in the order the code inserts it: pushes and pops
around calls with the dummy push next to the call, stack parameters inside them, callee saved
pushes at the entry and their reverse before every return, the allocation of locals merged
with an adjacent adjustment. The machine then runs it with a real stack of 8 byte cells, from
any function without parameters, so that every chain of callers up to `MaxDepth` occurs.
Return addresses, saved registers and parameters are values on that stack: a missing pop or
a wrong offset shows as a wrong value. What the code takes for granted of a program without
looking at it is stated on its own, as the hypotheses of the theorems: `KnownToCallers`,
`CopiesSeen`, `ParametersOffset`.


## 3. Runs

Constants are given in the `.cfg` files, families of programs in the `MC` modules.

| Run | Bounds | Shows |
|---|---|---|
| `BuildSystem` | main and 3 modules; up to 3 imports of the main file, 2 of `b`, 1 of `a` and of `c`; every kind of faulty file or statement | `TypeOK`, `OrderSound`, `InProgressIsCallChain`, `CircularIsExact`, `BuiltIsComplete`, `Terminates`, and that it implements `BuildOrder` |
| `Preprocessor` | three macros with up to two parameters, arguments nested up to three deep; up to three files; 11 forms of definitions, 9 of directives | that it implements `MacroExpansion`, which includes that it ends |
| `AllocatedCode` | K = 2 registers, at most 2 spills; straight code, branch, loop, precoloured, updated in place, computed in one block and read in another, stack address, stack argument | `TypeOK`, `ColoringProper`, `EveryRangeColored`, `UsesSeeTheirValues`, `CoalescingEnds` |
| `AllocatedCodeTrapping` | one function with an endless loop | a violation, finding 1 |
| `CallingConvention` | 3 functions, registers RAX, RCX, R8, R12, R13, call depth 4 | `TypeOK`, `ValuesSurviveCalls`, `ReturnsIntact`, `CopiesAreAligned`, `ParametersFound` |
| `CallingConventionNested` | a chain of three functions | a violation, finding 2 |
| `Compilation` | several hundred functions, every answer of the environment in {0, 1} or unordered, runs of at most 60 steps | `BehaviourPreserved`, `NamesAreCurrent`, `AcceptedReadsAreDefined`, `ImmutablesAreSetOnce`, `CodeIsClosed`, `NeverCrashes`, `DominatorsExact`, `RoundsAreBounded` |
| `CompilationNumbering` | one expression in two branches | a violation, finding 3 |
| `Expressions` | one operator or cast, 10 kinds of leaves, 3 casts, 4 destinations | `TypeOK`, `VariablesSurvive`, `FoldingAgrees`, `OperandsAgree`, `TrapsAreDeserved`, `ComputesItsMeaning` |
| `ExpressionsDeep` | two operators, or a choice, of four bytes | `ComputesItsMeaning`, `NumberedSurvive`, `SimplifierEnds` |
| `ExpressionsModulus` | a product, remainder two | a violation, finding 4 |
| `Frames` | one type with at most 3 members or a switch over it; 2 locals and 1 spill; 3 parameters, a list of 2 elements; 2 + 1 registers | `MembersApart`, `SwitchesAreTotal`, `RegionsDisjoint`, `OffsetsCurrent`, `ArgumentsFound` |

Deadlock is not checked where a run of the program really ends: the compiler returns, a
function has run to its end, a call has been made.

### Why the bounds are enough

*Build system.* Three modules give self imports, cycles of length two and three below the
main file, diamonds, repeated imports and chains; a fourth name shares a bucket with the
first. Faults are combined with graphs small enough to place them at depth one and two.

*Preprocessor.* Two calls inside each other separate the level of a call from the depth of
the stack they share; the third and a group between them bring every order of opening and
closing. One body uses its parameter twice, another swaps two and holds a comma and the name
of a macro. Macros are used before and after their definition, in the same file, an earlier
and a later one.

*Allocator.* With two colours three live variables suffice to force a spill, and the families
hold every pattern the code tells apart: copies and constants as spill victims, destinations
that are also sources, temporaries that are updated in place or read in another block,
instructions with two destinations, precoloured parameters, a move into and out of pinned
registers, `%rsp` as a source. Some of the straight-line functions keep spilling without end:
the cost that should protect a spilled temporary wraps to the lowest priority in the queue's
16 bits (`max_priority_queue.c:126`, `register_allocator.c:667`), and it is spilled again.
`MaxSpills` cuts them off; the functions that finish are those whose run is compared.

*Calling convention.* RAX and RCX are caller saved, R12 and R13 callee saved, R8 and R12
are also the dummies of the two kinds of saving. Parity is all alignment depends on, and
even and odd numbers of saved registers, locals and parameters all occur on both sides of a
call. Depth 4 has each function below each other once and recursion. Callees stand before
callers, as definitions in the language do unless one is declared first. The run keeps to
programs in which three disagreements do not occur: `KnownToCallers` (a function that is
called directly is allocated before its callers and assigns what its own callees clobber),
`ParametersOffset` (a function with stack parameters and registers to restore has locals),
and `CopiesSeen` (aligned copies that only the cfg adds, `cfg.c:7080`, stand in functions that
nobody calls). All five invariants are proved without these bounds (section 4).

*Compilation.* The families put every statement in the places that matter (alone, after
another, in an arm, in a loop), every form of condition in an `if`, every way of leaving a
block at its end. Two variables and one more of an inner scope are enough for a phi function
of a phi function and for every operand to be overtaken by an assignment. `MinCaseMembers`
and `NumberingThreshold` are the compiler's own 2 and 6; `MaxHoisted` is 1 where the compiler
has 2, so that returns short enough to be hoisted and others both occur. `Fuel` bounds a run; a
loop asks the environment at each round, and two answers lead to every path.

*Expressions.* One operator over all types shows the conversions; two operators of one width
show the windows of the simplifier, whose rules look at two or three instructions. Variables
take the values next to zero and to both ends of their signed range, in widths in which all
of them are 2 to 16 bits. Shift counts stay below what one byte of the model holds.

*Frames.* Types of 1, 4 and 8 bytes give every padding; with two general purpose registers
and one for floats three parameters fill both classes and reach the stack. `ByteBits` = 2
makes an enumeration grow from one byte to two at the value 4. `MembersApart`,
`SwitchesAreTotal`, `RegionsDisjoint` and `OffsetsCurrent` are proved without any of these bounds.

### Fairness

`WF_vars(Next)` in `BuildSystem`, `Preprocessor` and `RegisterAllocator`, `WF_vars(Simplify \/
Sweep)` in `Expressions`: one thread runs a recursion or a loop and does not stop between two
statements. Nothing else is assumed, in particular no fairness of one action against another:
which rule of the simplifier applies next is left open, although the code's order is fixed.
`RoundsAreBounded` is the termination of the loops that `Compilation` evaluates as operators:
each is given a number of rounds beyond which the graph counts as stuck.

### Findings

Each is a run that TLC must find violated; the text of the repository it disagrees with is
quoted in `PROJECT.json`.

1. Blocks that cannot reach the exit have empty liveness sets (`register_allocator.c:1250`);
   endless loops are part of the language's tests.
2. A direct call does not save what a callee of its callee clobbers
   (`register_allocator.c:3801`).
3. The value table is handed down the dominator tree and never cleared on the way back
   (`instruction_selector.c:6640`): a branch uses the result its sibling would have computed.
4. The remainder of a signed temporary by a power of two overwrites its dividend with the
   sign (`instruction_selector.c:2029`).

### Behaviour the passing runs leave out

Met while modelling, excluded by the named restrictions of the MC modules, by `Plain` in
`Expressions` and by `Orderly` in `Frames`, and without a run of its own. A team would
want a test for each.

*Front end and tables.*
* `insert_module` and `insert_macro` (`symtab.c:1407`, `1377`) write through a NULL cursor on
  a collision; `$import <name>` (`build_system.c:368`) looks up the closing `>`. Both are
  actions of `BuildSystem` that end the compiler.
* A definition or directive that stands inside the arguments of a macro call is copied into
  the argument: `generate_parameter_substitution_array` does not look at `ignore`.
* `lookup_macro` (`symtab.c:1917`) compares as many characters as the macro's name has; of two
  names in one bucket a longer one would be taken for its prefix.
* In an enumeration a negative member counts as the largest (`parser.c:8425-8509`), so that
  {-1, 300} gets one byte; a negative member that was read back as unsigned is refused as
  a case (`parser.c:2640-2670`). A switch whose only branch is an ollie-style default reads
  before its array of cases (`parser.c:10633`).
* `%` by a negative constant is rejected only if the result is signed; the right operand of a
  multiplication is validated with the left operand's type (`parser.c:4848`), that of `||` as
  `&&` (6313); folding `INT_MIN / -1` traps the compiler itself.
* `(a + b) as i64` of narrower operands retypes the computation; `(x as u8) as i64` loses the
  truncation.

*Control flow.*
* A jump-table switch of the C style leaves its end on the stack of break targets
  (`cfg.c:9128`, `9388`), a do-while whose body ends the function leaves both stacks
  (`cfg.c:8421`).
* A do-while whose body ends with a break gets a jump behind a jump; a compound statement in
  a compound statement is linked without a jump (`cfg.c:10728`, `11234`) when it opens blocks
  of its own; a label that begins the function is merged away (8185); an `if` that breaks
  with an `else` that continues leads to the function's exit.
* An operand kept for later is put behind the second operand when the block was empty
  (`cfg.c:5779`).
* A loop that cannot be reached is not deleted (`cfg.c:623-680`), and the frontier walk then
  reads through NULL (`graph_analyzer.c:952`); a function that never returns ends the reverse
  walk the same way (1026).

*Optimizer.*
* An indirect jump is swept without a jump in its place when its targets have become
  equal (`optimizer.c:1110`), or gets one to NULL when nothing marked follows (1085).
* An always-true branch deletes its edge even if both targets are one block (2117);
  conditional moves are folded without a test that the branch targets are the join's
  predecessors (2495); an empty endless loop is cleaned for ever (2635); silent endless loops
  are swept.
* `JP` is missing from `replace_all_branch_targets` (`postprocessor.c:253`): a branch on
  unordered operands may jump to a block that was taken out because it became empty.
* Hoisting of returns reads the exit of an empty block (`postprocessor.c:432`).

*Expressions.*
* A value that is widened while its sign changes is extended by the sign of its destination;
  a truncation to 32 bits that is widened again keeps its upper half.
* Operands of one and two bytes are divided with an upper half that was not prepared
  (`instruction_selector.c:9209`); a signed `/` by a power of two is an arithmetic shift and
  rounds down (6118).
* `||` writes its result over an operand that carries a value number, `&&` over one that came
  from a comparison (12843); sums of 32 bits that are merged into a 64 bit `lea` do not wrap
  (5345); a negative 32 bit index is zero extended (13467).
* The chain rule deletes a temporary without a look at its use count (5142).

*Frames.*
* A base is padded by the remainder and not by what is missing to the next multiple
  (`stack_data_area.c:154`): an `i64` after 6 bytes lies at 12.
* When a result is returned by copy the parameter pushed out of the last register is placed
  behind the others by the callee and in order by the caller (`symtab.c:1046-1052`).
* A `params` list counts as a parameter of the general purpose class (`parser.c:13233`), and
  `is_parameter_stack_passed` does not know of lists. When a list has the number of the last
  register and the result is returned by copy, it is given a second region behind the aligned
  area (`symtab.c:1085`): the function looks for the count and the members there, and the call
  stores them at the start. `ResultType` does as the code does; without the last part of the
  first conjunct of `Orderly` TLC finds `ArgumentsFound` violated by it.
* A list of arguments behind other stack parameters, elements whose size is no multiple of 16
  and variable arguments narrower than the element are placed differently by the two sides.
* A function without locals forgets its own pushes in the offsets of its stack parameters
  (`register_allocator.c:4556`); alignment that only the cfg asks for comes after it was
  spread to the callers (`cfg.c:7080`).

## 4. Proofs

### BuildSystemProofs

For any sets of modules and files, any hash function and any tree of files:

* `TypeCorrect`: `Spec => []TypeOK`
* `OrderCorrect`: `Spec => []OrderSound`
* `MarksAreExact`: `Spec => []InProgressIsCallChain`
* `Refinement`: `Spec => Abstract!Spec`, every step of the build system is a step of
  `BuildOrder` or a stutter
* `CompleteWhenBuilt`: `Spec => []BuiltIsComplete`
* `CyclesAreFound`: `Spec => []CircularIsExact`

from the named assumptions of `BuildSystem` (`NamesAssumption`, `ProjectsAssumption`,
`HashAssumption`), which TLC evaluates on every run.

None of the first three is inductive alone. When `FinishModule` puts a node on the order, that
all its imports are there is known only from what its import loop has accepted so far
(`ImportsPlaced`); that the accepted node is the one the statement named, from the frames
hanging together while they are below others (`ChainLinks`) and from what a call returns
(`ReturnedFits`); that a known module is placed, from `DoneIsPlaced`; that the imports are
those on disk, from `FilesRecorded`. `IInv` is their conjunction with the types and
`OrderSound`. `Invariant` is proved from one lemma per action; the theorems follow from it by
implication, and the refinement needs it at each step: `FinishModule` is `Emit`, and the
first step of a failure is `Reject`.

`CompleteWhenBuilt` and `CyclesAreFound` compare the search, which never looks further than one
import statement, with reachability in the graph the files make. `Complete` is added to `IInv`: what
is recorded is reached (`RecordedReached`); every frame, and every node on the order, depends on
exactly what its import loop has passed, and passed no fault (`AcceptedSoFar`, `PlacedAccepted`);
a caller's statement names a module while it waits (`CallsQuoted`). Completeness follows
because what stands on the order is closed under imports and holds the main file. That no cycle
is built: the nodes in front of one on the order are closed, so that a node on a cycle would
have to stand before itself. That a reported cycle is one (`InProgressIsCyclic`): the
frames from the node that is IN_PROGRESS to the top are a path of imports, by induction along
the stack.

### FramesProofs

For any scalar types, any number of registers, members, locals, parameters and spills:

* `NoSharedBytes`: `Spec => []RegionsDisjoint`
* `AddressesCurrent`: `Spec => []OffsetsCurrent`
* `ParametersAreFound`: `Spec => []ArgumentsFound`
* `FrameInvariant`: `Spec => []IInv`, which they rest on

from `ScalarsAssumption`, `BoundsAssumption` and `RegistersAssumption` of the modelled
modules. `ScalarsAssumption` says that a basic type is aligned by its own size
(`type_system.c:106`). `IInv` has three parts.

* `AreaInv`: what `realign_data_area` has not come to yet (`pending`) lies above what it has
  (`InOrder`), so that the regions laid out so far end at `total` and the next one begins
  there or later (`StartAfter`); without it, disjointness is lost in the middle of the loop.
* `Typed`: every type a program can define or spell has a size and an alignment of at least
  one. It is needed because a region of a type without alignment would have no start. For
  structs it rests on `NextMultiple`, for enumerations on the size that is chosen
  being one of the sizes there are (`EnumerationSize`).
* `NothingMoves`: from the optimizer's sweep on every region is marked, addresses are taken
  only after it, and regions are only added at the end. This is the whole reason the
  selector's sweep, which comes *after* addresses have become constants in the code, does
  no harm; a pass that reset the marks in between would break `OffsetsCurrent`.

Each action has a lemma of its own kind: `CreateKeeps`, `MarkKeeps`, `SweepKeeps`,
`RealignKeeps`, `AlignKeeps` for the area, `DefinitionKeeps` for the types, `BodyKeeps` and
`CallsKeep` for the frame and the calls, and `NextKeeps` joins them.

`ParametersAreFound` has an invariant of its own beside `IInv`, `CallInv`. The place of each
parameter is compared with its *number* in its class, with the one for the result's address
included (`Numbered`); `RegisterMoves` shows that moving the registers up when the type of the
result becomes known gives each parameter the number it has with one more before it, which is
what the cfg counts. Places on the stack are compared by a function `f` of which `f[i]` is
where the first `i` parameters end (`Ends`): the area of the call has come to `f[i]` when `i`
arguments are stored (`Agree`). The proof shows what each part of `Orderly` is for: a
parameter the result moves to the stack, or a list, is placed by other rules than those of its
neighbours, and both sides agree only because it begins the area (`ListStored`), which is why
a list may not be what is moved; and that the members of a list follow one another
without a gap needs their size to be a multiple of their alignment (`TypesPlain`,
`ElementStart`). `StackIsCounted` shows that a signature with a place on the stack counts as
one that has some, so that the area is aligned.

### TypeProofs

For any scalar types, any number of members and any values:

* `MembersDoNotOverlap`: `Spec => []MembersApart`
* `SwitchesCoverEnumerations`: `Spec => []SwitchesAreTotal`

from `ScalarsAssumption`, `BoundsAssumption`, `ConstantsAssumption` and `PowersAssumption`.

*Layouts.* The code counts the offset of a member from
the one before it and the size of the struct on its own (`type_system.c:2732-2813`). That the
two agree is the strengthening: `SizeIsEnd` says that an unfinished struct is exactly as long
as its last member reaches, `Apart` that each member begins behind the one before, and
`SizeIsMultiple` that the size of a finished type is a multiple of its largest alignment. That
this alignment is a multiple of each member's needs that alignments are powers of two
(`Alignments`; `SmallerDivides`), which holds because `get_base_alignment_type` always comes
down to a basic type. `RoundedIsMultiple` and `NextMultiple` are the arithmetic of padding.

*Switches.* The parser does not compare the cases with the members. It compares the smallest and
the largest of each, and looks for a gap between the cases. That this is enough is
`ExhaustiveCovers`: cases without a gap are an interval (`ContiguousIsInterval`), and members
with the same bounds lie in it. `SwitchInv` carries what the clauses have gathered: cases are
values of members, and none is gathered before the enumeration is complete.

### AllocatorProofs and AllocatorColorProofs

For any function, any number of colours, and any sequence of coalescing, spilling and restarts:

* `AllocatorTypeCorrect`: `Spec => []TypeOK`
* `EveryOperandHasRegister`: `Spec => []EveryRangeColored`
* `ColorsStayProper`:
  `Spec /\ [][BuildInterference /\ resume = "precolor" => ColoringProper']_vars => []ColoringProper`
* `Invariance`: `Spec => []IInv`, which all of them rest on

from `KAssumption` and `FunctionsAssumption`: operands of the source are variable structures
of it, an instruction writes two of them at most, the edges of its blocks stay inside it, homes
are registers, and nothing is copied into `%rsp` (`instruction_selector.c:15051` and `15067` are
the only writers of it, a subtraction and an addition).

*Registers for all.* That everything has a register at the end would be plain if colouring only
took from a queue.
It is not, because spilling rewrites the code in the meantime: each load, store and temporary
must be an operand of a range that the next round will see. `IInv` therefore says that the
code is made of operands with ranges (`CodeTyped`, `RangesTyped`), that liveness stays within
the ranges (`LiveTyped`), that interference is mutual and irreflexive (`Mutual`), which
coalescing has to keep when it folds two sets of neighbours into one, that the cursor of the
spiller is at an instruction while it inserts others in front of it (`CursorInCode`), and that
what has left the queue has a register (`QueueLacks`). A range with fewer than K neighbours
finds a colour by counting (`LowDegreeFindsColor`). `LiveAfter` is defined by a recursive
function, and that such a function exists, with values among the ranges, is itself proved
(`BackwardsExists`, `BackwardsBounded`); so are the sums over blocks that costs are
(`SumExists`, `SumIsLarge`).

*Colours apart.* `ColorsStayProper` supposes that the function's own precolouring is proper: the
homes `precolor_function` gives to what interferes in the code it was given differ. Everything
after that is proved. It is far from inductive, because the interference that `ColoringProper`
speaks of is thrown away and computed anew, from other code, after every round of merges and
after every spill, while colours are kept. What is carried from one graph to the next is an
*annotation*: a set of live ranges for each point of the code (`Sound`, `Flows`) that is closed
under the liveness equations, so that no solution of them holds more, and in which every clash of
a destination with what is live after it is accounted for, by the neighbors (`Annotated`), or by
different registers (`ColorsAnnotated`).

* When the sets have settled they are such an annotation themselves (`SettledAnnotates`).
* A merge of `d` into `s` renames `d` in it (`MergeKeepsAnnotation`). The copy that is deleted
  is what connected the two, and since they did not interfere no clash is lost. Absorbing `%rsp`
  would lose some, as the analyses leave it out; but no copy defines it
  (`NoCopyToStackPointer`), and none comes to define it when `d` is merged *into* `%rsp`,
  because then `d` is defined by the deleted copy alone. The code tests `assignment_count` for
  this, a weighted sum over blocks; that a count of one means at most one definition is `Counted`
  (`CountsDefinitions`).
* The spiller changes no range that has a colour. What it puts around an instruction mentions
  only the victim and its stand-in, neither of which has one, so the annotation of the coloured
  ranges is passed over the inserted instructions (`SpliceKeepsSound`, `SpillCopyKeepsColors`,
  `SpillConstKeepsColors`, `SpillOperandsKeepsColors`).
* The next liveness pass starts from nothing and stays below the annotation (`Held`,
  `EquationIsHeld`), so that what then interferes and has kept its colours has different ones
  (`InterferenceIsColored`).

Annotations are quantified over, so TLC cannot evaluate this part of the invariant (`CInv`); it
checks `ColoringProper`, its consequence, on every state of the run.

### AllocatedCodeProofs

For any number of registers, of spills and of steps of the run:

* `AllocatedCodeComputes`: `RunSpec /\ Disciplined(function) /\ Visited = Blocks /\
  [][Precolors /\ SpillsOnce]_vars => []UsesSeeTheirValues`

from `KAssumption` and `FunctionsAssumption`. This is what the allocator is for, and it says
nothing of how: the source and the code have in common only their paths.

*The claims.* A claim says of a point of the code, a variable and a place (a live range, or a
stack slot) that the place holds the variable's value. `Claims(W, N)` asks of a set `W` of claims
that they justify each other: what is claimed after an instruction was given by it, or was claimed
before it and neither the place was written nor the variable assigned (`Justified`; a copy passes
on what is claimed of its source, which is why a merge may delete it); that claims pass along the
edges (`Passed`); and that what an operand reads, or a load fetches, is claimed (`Needs`).
`Faithful` says that there are such claims, and `Coded` what the code still has of its source:
`Matched` that an instruction is what its original was or what a merge or a spill makes of one,
`Steady` that a structure keeps its value while it is mentioned further on.

* When the liveness sets have settled for the first time every live range is its own variable, and
  "live" claims it. Two variables that are live at once may not be in one register, which is not
  needed yet, but no assignment may hit what is live: that is the interference of the code.
* A merge of `d` into `s` renames the place. A claim about `d` would be lost where `s` is written,
  and the other way round: since the two do not interfere, claims of what is live can be kept
  (`Within` restricts them to an annotation of AllocatorColorProofs), and a deleted copy
  made the two equal.
* The spiller rewrites one instruction at a time. From its cursor on, claims of the victim
  stand for claims of the new slot (`Slotted`). What it has rewritten claims the slot, and a
  temporary that was loaded from it from the load to its last mention; between the instruction
  that computes the victim and the store that follows, the live range itself (`Preceding`,
  `AtStore`). That a temporary keeps its value up to its last mention is where the hypotheses
  about sharing are needed.
* Once every live range of an operand has a register (`EveryOperandHasRegister`) and those that
  interfere have different ones (`ColorsStayProper`), claims about live ranges can be read as claims
  about registers: no instruction writes the register of a range that is claimed and live
  (`Within` again). From there the machine is followed step by step (`Followed`).

*The hypotheses.* Each is a property of the given function or of its first precolouring, except
for the last:

* `Disciplined`: a structure that is read is not assigned before it is mentioned again, and no
  later block mentions it (an earlier one may have computed it). `emit_temp_var` makes one
  structure for all the readers of a temporary, `emit_var` one for each mention; the selector
  updates a temporary it has just copied into, through one structure
  (`instruction_selector.c:10098-10134`), which is allowed. What an instruction writes besides
  its first destination is precoloured, parameters are in different registers, and the stack
  pointer is not both copied and moved: a copy of it is coalesced with it, and the code around
  a call with stack parameters moves it (`instruction_selector.c:15051`, `15067`).
* `Visited = Blocks`: the liveness pass reaches every block. The function of
  `AllocatedCodeTrapping` meets every other hypothesis, and finding 1 shows what happens to it.
* `Precolors`: the function's own precolouring is proper, and what is live at its start are
  parameters. TLC finds this of every function of the run.
* `SpillsOnce`: a live range with an operand that a store reads is spilled again only if the
  function updates no structure and computes none in one block for another. The comment at
  `register_allocator.c:665` says "If this was already spilled, we can't spill it again"; the
  code does so nevertheless, because the cost that should prevent it wraps (`max_priority_queue.c:126`).

`FamiliesAreDisciplined` has TLC evaluate `Disciplined` on the families of the run, all but
`Diamond`, which reads a structure in two blocks. In `Crossing` a temporary is computed in one
block and read in a later one, on branches and around a loop.

### CallingConventionProofs

For any program, any registers and any depth of calls:

* `TypeCorrect`: `Spec => []TypeOK`
* `ReturnsAreIntact`: `Spec => []ReturnsIntact`
* `CallsKeepValues`: `Spec /\ KnownToCallers(program) => []ValuesSurviveCalls`
* `CopiesStayAligned`: `Spec /\ CopiesSeen(program) => []CopiesAreAligned`
* `ParametersAreFound`: `Spec /\ ParametersOffset(program) => []ParametersFound`
* `CodeIsAnnotated`: `Spec => []CodeInv` and `Invariant`: `Spec => []Inv`, on which they rest

from `RegistersAssumption`, `ProgramsAssumption` and `DepthAssumption`. The hypotheses say in
terms of the source program where this component goes wrong (section 3); outside of
them nothing is lost, and the programs of the run meet all of them.

None of the five says anything about the middle of a function, so that each is far from
inductive. The strengthening is an *annotation* of the code. Every place in the code of a
function gets a `State`: the `height` of the stack above the return address, and two `Half`s,
each of which names the registers, and for every cell the registers, that still hold what
they held. `entry` is about the values at the entry of the function (what returning needs),
`vals` about those that calls must not lose (what uses need). `Fits` says for each
instruction what it may rely on in the state before it and what may be claimed in the state
after it: a pop restores a claim only if the cell holds that register's value, a call leaves
the registers that its callee preserves, and those it has saved in cells below the arguments,
`ret` needs height 0 and all callee saved registers.

* The compilation. `CompleteTyped` shows that an annotation exists for whatever `Complete`
  puts together, from one lemma for each part of it: pushes and pops in opposite orders
  cancel (`CallCode`, `Exit`), the dummies keep the height of a call even, the allocation of
  locals can be merged with an adjacent adjustment, and the early exit begins in the state
  that every place of the body has. `CodeInv` carries this through the allocation of one
  function after another. It also says what is known when a function's turn comes (`IsNext`):
  its own record of registers, and those of all functions before it, which is why
  `KnownToCallers` asks for `g <= f`. `ParserAligns` is the fixed point of the
  closure of the call graph: who calls an aligned function is aligned.
* The run. `RunInv` gives each activation a `base`, the cell of its return address. The
  running activation finds registers and cells as the annotation of its place says (`Runs`);
  one that waits finds its cells as the annotation of its call says, and its registers in
  what the next activation has at its entry (`Waits`), up to the cells in which parameters
  are passed; activations lie above each other (`Stacked`), each entered at a parity that
  alignment depends on and with its parameters below its return address (`Entered`). One
  lemma per action of the machine shows that this is kept (`PushKeeps` ... `ReturnKeeps`).

That an annotation exists cannot be evaluated by TLC: its consequences, the five invariants,
are what the run checks. `LiveAfter`, the clobbers of a callee (`Clobbered`, least fixed
points of the call graph) and the ascending order of saved registers are defined without recursion,
`Callers` and `BodyCode` by recursive functions whose existence is proved (`RecursionExists`).

### NumberFacts

Smallest and largest elements of bounded sets of integers, and induction over a set of
numbers, from the library's theorem that a well-founded order has minimal elements, and the
existence of functions defined by recursion up to a number. The
library's own induction theorems take the induction hypothesis as an operator, which the
provers here cannot instantiate; a *set* of numbers as a parameter is first order.

### Only model-checked

* Liveness: `Terminates`, `CoalescingEnds`, `SimplifierEnds`. It is out of the prover's
  reach under fairness.
* `ImplementsMacroExpansion`: the meaning of nested items is recursive.
* All of `Compilation` and `Expressions`: the descent over statements and trees is recursive,
  and the machine works on bits.
* In the allocator that the precolouring of a function is proper, and `UsesSeeTheirValues` for
  functions outside the hypotheses of its theorem.

## 5. Not modelled

* The lexer, printing, the assembler driver, options and the summary: characters, messages,
  files and processes. Tables of symbols apart from modules and parameters: names are the
  members of small sets.
* In the parser: tokens, initializers, aliases, namespaces and switches over plain integers
  (the last are statements of `Compilation`). Anonymous structs are types defined before.
* In the code of expressions: arrays, members and pointers, floating point, strings, copies
  of memory. Nothing of loads and stores of computed addresses is selected.
* In the optimizer lines 1149-1715, which nothing calls, and the sweeping of local constants.
* In the allocator: SSE registers (their saving uses stack regions and not pushes), the
  interplay of the two classes, and the 16 bit index of the interference matrix, which wraps
  beyond 256 live ranges.
* In the calling convention functions are coloured beforehand; the order in which saved
  registers are taken from the live sets is fixed to ascending, as push and pop mirror each
  other whatever it is.
* The data dependency graph: it is built and weighed, and nothing reorders by it yet.

## 6. Plan

In order of what matters most.

1. `AllocatedCodeComputes` for structures that are read in one block and mentioned again in a
   later one, and without `SpillsOnce`.
2. The two classes of registers together: liveness that wipes what the other class recorded,
   and saving through stack regions.
3. Accesses to arrays and members, from tree to addressing mode, on the memory that `Frames`
   lays out.
4. Scopes of the symbol tables.
5. The interference matrix against the relation it stands for; the transitive closure of the
   dependency graph against reachability.
