-------------------------- MODULE CallingConvention --------------------------
(***************************************************************************)
(* How the functions of a program share the registers and the stack:       *)
(* which of them ask for an aligned stack (parser and cfg), the saving     *)
(* and stack code that the last steps of allocate_registers_for_function   *)
(* put around their bodies, and a run of the result.                       *)
(*                                                                         *)
(* Functions are numbered in the order of function_entry_blocks.  Bodies   *)
(* are coloured already; a register stands for the live range it holds.    *)
(* A stack cell is 8 bytes, the last of `stack' is the one %rsp points to. *)
(***************************************************************************)
EXTENDS Naturals, Sequences, FiniteSets, SequencesExt

CONSTANTS
  Registers,     \* the general purpose registers, numbered as the enum does
  CalleeSaved,   \* the registers a function must leave as it found them
  DummyCaller,   \* dummy_caller_saving_push_register
  DummyCallee,   \* dummy_callee_saving_push_register
  Programs,      \* the programs that may be compiled
  MaxDepth       \* bound on the depth of the calls of a run

CallerSaved == Registers \ CalleeSaved

(* "leave" may jump to the end; "copy" is an aligned memory copy, seen by  *)
(* the parser (an assignment or a let), by the cfg (a structure passed on  *)
(* the stack) or by nobody (one returned by copy); "param" reads a         *)
(* parameter passed on the stack.  dst, to which the result of a call is   *)
(* precoloured, is caller saved, or 0 when there is none.                  *)
Step ==
  [ op : {"set", "use"}, reg : Registers ] \cup
  [ op : {"leave"} ] \cup [ op : {"copy"}, seen : {"parser", "cfg", "nobody"} ] \cup
  [ op : {"param"}, k : Nat ] \cup
  [ op : {"call"}, callee : Nat, dst : CallerSaved \cup {0}, indirect : BOOLEAN ]

(* locals and params count cells. *)
Function == [ body : Seq(Step), locals : Nat, params : Nat ]

ASSUME RegistersAssumption ==
  /\ Registers \subseteq Nat \ {0} /\ IsFiniteSet(Registers)
  /\ CalleeSaved \subseteq Registers
  /\ DummyCaller \in CalleeSaved /\ DummyCallee \in CallerSaved
ASSUME ProgramsAssumption ==
  \A p \in Programs : /\ p \in Seq(Function) /\ p # << >>
    /\ \A f \in DOMAIN p : \A i \in DOMAIN p[f].body :
         /\ p[f].body[i].op = "call" => p[f].body[i].callee \in DOMAIN p
         /\ p[f].body[i].op = "param" => p[f].body[i].k < p[f].params
ASSUME DepthAssumption == MaxDepth \in Nat \ {0}

VARIABLES
  program,    \* the program; never written
  pc,         \* the stage of the compilation, then "run"
  flagged,    \* functions whose requires_initial_alignment is set
  assigned,   \* assigned_general_purpose_registers of each function
  code,       \* the instructions of each function
  frameSize,  \* its total_stack_frame_size, in cells
  stack,      \* the cells of the stack
  regs,       \* what is in each register
  frames      \* the activations, the last is running

compiled == << assigned, code, frameSize >>
machine == << stack, regs, frames >>
vars == << program, pc, flagged, compiled, machine >>

F == DOMAIN program
Body(f) == program[f].body
Calls(f, i) == Body(f)[i].op = "call"
Odd(n) == n % 2 = 1
RoundUp(n) == IF Odd(n) THEN n + 1 ELSE n

-----------------------------------------------------------------------------
(* Who asks for an aligned stack. *)

CallGraph ==
  { e \in F \X F : \E i \in DOMAIN Body(e[1]) :
      Calls(e[1], i) /\ ~ Body(e[1])[i].indirect /\ Body(e[1])[i].callee = e[2] }

(* Mutant: only direct callers are flagged. *)
DirectCallers(S) == S \cup { f \in F : \E g \in S : << f, g >> \in CallGraph }

(* The functions from which one of S is reachable. *)
Callers(S) ==
  LET grow[n \in 0 .. Cardinality(F)] ==
        IF n = 0 THEN S
        ELSE { f \in F : f \in grow[n-1] \/ \E g \in grow[n-1] : << f, g >> \in CallGraph }
  IN grow[Cardinality(F)]

FlaggedByParser ==
  { f \in F : \E i \in DOMAIN Body(f) :
      \/ Calls(f, i) /\ Body(f)[i].indirect
      \/ Body(f)[i].op = "copy" /\ Body(f)[i].seen = "parser" }
FlaggedByCfg ==
  { f \in F : \E i \in DOMAIN Body(f) : Body(f)[i].op = "copy" /\ Body(f)[i].seen = "cfg" }

-----------------------------------------------------------------------------
(* Code around the calls of a body. *)

Reads(s) == IF s.op = "use" THEN {s.reg} ELSE {}
Writes(s) == IF s.op = "set" THEN {s.reg} ELSE IF s.op = "call" THEN {s.dst} \ {0} ELSE {}

(* The colouring marks what it gives to a live range of the function. *)
Coloured(function) == UNION { Reads(s) \cup Writes(s) : s \in ToSet(function.body) }
Colours(f) == Coloured(program[f])

LiveAfter(f, i) ==
  { r \in Registers : \E j \in DOMAIN Body(f) :
      /\ j > i /\ r \in Reads(Body(f)[j])
      /\ \A m \in i + 1 .. j - 1 : r \notin Writes(Body(f)[m]) }

Instr(op, r) == [ op |-> op, reg |-> r, step |-> 0, n |-> 0 ]
Move(op, n) == IF n = 0 THEN << >> ELSE << [ op |-> op, reg |-> 0, step |-> 0, n |-> n ] >>
BodyInstr(f, i) == [ op |-> Body(f)[i].op, reg |-> 0, step |-> i, n |-> 0 ]
Each(op, rs) == [ i \in DOMAIN rs |-> Instr(op, rs[i]) ]
Ascending(S) == CHOOSE s \in [1 .. Cardinality(S) -> S] :
                  \A i, j \in DOMAIN s : i < j => s[i] < s[j]

(* Mutant: the register of the result is saved and restored like others. *)
SavedWithResult(f, i) ==
  { r \in CallerSaved \cap LiveAfter(f, i) :
      Body(f)[i].indirect \/ r \in assigned[Body(f)[i].callee] }

(* A direct call saves what its callee assigns, an indirect one whatever   *)
(* is live; the result's register never.                                   *)
SavedAround(f, i) ==
  { r \in CallerSaved \cap LiveAfter(f, i) :
      /\ r # Body(f)[i].dst
      /\ Body(f)[i].indirect \/ r \in assigned[Body(f)[i].callee] }

(* An odd number of pushes gets a dummy, next to the call.  What is passed *)
(* on the stack lies within.                                               *)
CallCode(f, i) ==
  LET saved == SavedAround(f, i)
      popped == (IF Odd(Cardinality(saved)) THEN << DummyCaller >> ELSE << >>) \o Ascending(saved)
      passed == RoundUp(program[Body(f)[i].callee].params)
  IN Each("push", Reverse(popped)) \o Move("sub", passed)
     \o << BodyInstr(f, i) >> \o Move("add", passed) \o Each("pop", popped)

StepCode(f, i) == IF Calls(f, i) THEN CallCode(f, i) ELSE << BodyInstr(f, i) >>

BodyCode(f) ==
  LET upTo[i \in 0 .. Len(Body(f))] ==
        IF i = 0 THEN << >> ELSE upTo[i - 1] \o StepCode(f, i)
  IN upTo[Len(Body(f))]

(* insert_callee_saving_logic: the pushes at the entry; the pops at an     *)
(* exit are theirs in reverse.                                             *)
CalleePushes(f) ==
  LET saved == Ascending(assigned[f] \cap CalleeSaved)
  IN saved \o (IF Odd(Len(saved)) THEN << DummyCallee >> ELSE << >>)

(* align_stack_data_area rounds up to 16 bytes and adds 8 for the return   *)
(* address; a function without locals reserves 8 when it is flagged.       *)
LocalSize(f) == IF program[f].locals # 0 THEN RoundUp(program[f].locals) + 1
                ELSE IF f \in flagged THEN 1 ELSE 0

(* Mutant: the pushes are not counted. *)
FrameWithoutPushes(f) == LocalSize(f)

(* The pushes are counted where the allocation is placed, and it is only   *)
(* placed when there is something to allocate.                             *)
TotalFrameSize(f) == IF LocalSize(f) = 0 THEN 0 ELSE LocalSize(f) + Len(CalleePushes(f))

(* finalize_local_and_parameter_stack_logic merges its allocation with one *)
(* that comes first in the body, and its deallocation with a last one.     *)
WithLocals(c, size) ==
  LET first == c # << >> /\ c[1].op = "sub"
      last == c # << >> /\ c[Len(c)].op = "add"
      grown == [ j \in DOMAIN c |->
                   IF (j = 1 /\ first) \/ (j = Len(c) /\ last) THEN [c[j] EXCEPT !.n = @ + size]
                   ELSE c[j] ]
  IN IF size = 0 THEN c
     ELSE (IF first THEN << >> ELSE Move("sub", size)) \o grown
          \o (IF last THEN << >> ELSE Move("add", size))

(* Mutant: the pops are in the order of the pushes. *)
ExitInOrder(f) == Each("pop", CalleePushes(f)) \o << Instr("ret", 0) >>

Exit(f) == Each("pop", Reverse(CalleePushes(f))) \o << Instr("ret", 0) >>

(* Mutant: a block of an early return loses its return. *)
EarlyExitFallsThrough(f) == Move("add", LocalSize(f)) \o Each("pop", Reverse(CalleePushes(f)))

(* A block that a "leave" jumps to has an exit of its own, at the end. *)
EarlyExit(f) == Move("add", LocalSize(f)) \o Exit(f)

Complete(f) ==
  Each("push", CalleePushes(f)) \o WithLocals(BodyCode(f), LocalSize(f)) \o Exit(f)
  \o EarlyExit(f)

-----------------------------------------------------------------------------
(* Values are tuples << kind, function or number, step, depth >>. *)
Initially(r) == << "initial", r, 0, 0 >>
Computed(f, i) == << "computed", f, i, Len(frames) >>
Address(f, at) == << "address", f, at, Len(frames) >>
Argument(k, depth) == << "argument", k, 0, depth >>
Junk == << "junk", 0, 0, 0 >>

Init ==
  /\ program \in Programs
  /\ pc = "parse"
  /\ flagged = {}
  /\ assigned = [f \in DOMAIN program |-> {}]
  /\ code = [f \in DOMAIN program |-> << >>]
  /\ frameSize = [f \in DOMAIN program |-> 0]
  /\ stack = << >>
  /\ regs = [r \in Registers |-> Initially(r)]
  /\ frames = << >>

(* flag_functions_that_require_initial_alignment, at the end of parse. *)
Parse ==
  /\ pc = "parse"
  /\ flagged' = Callers(FlaggedByParser)
  /\ pc' = "cfg"
  /\ UNCHANGED << program, compiled, machine >>

(* build_cfg flags a function that copies a structure into a parameter. *)
BuildCfg ==
  /\ pc = "cfg"
  /\ flagged' = flagged \cup FlaggedByCfg
  /\ pc' = "allocate"
  /\ UNCHANGED << program, compiled, machine >>

(* The functions are allocated one after the other: the colouring of one   *)
(* is known before its calls are saved around, that of the next is not.    *)
Current == CHOOSE f \in F : code[f] = << >> /\ \A g \in F : g < f => code[g] # << >>

Color ==
  /\ pc = "allocate" /\ << >> \in { code[f] : f \in F }
  /\ assigned' = [assigned EXCEPT ![Current] = Colours(Current)]
  /\ pc' = "save"
  /\ UNCHANGED << program, flagged, code, frameSize, machine >>

(* Steps 8 and 9: insert_saving_logic and the stack. *)
InsertSavingLogic ==
  /\ pc = "save"
  /\ code' = [code EXCEPT ![Current] = Complete(Current)]
  /\ frameSize' = [frameSize EXCEPT ![Current] = TotalFrameSize(Current)]
  /\ pc' = "allocate"
  /\ UNCHANGED << program, flagged, assigned, machine >>

-----------------------------------------------------------------------------
(* The run. *)
Top == frames[Len(frames)]
Here == code[Top.fn][Top.at]
HereStep == Body(Top.fn)[Here.step]
Running(op) == pc = "run" /\ frames # << >> /\ Here.op = op

Activation(f) == [ fn |-> f, at |-> 1, entry |-> regs, vals |-> regs ]
Jump(n) == [frames EXCEPT ![Len(frames)].at = n]
Advance == Jump(Top.at + 1)
Drop(n) == SubSeq(stack, 1, Len(stack) - n)
Cell(n) == stack[Len(stack) - n]     \* n(%rsp), in cells
Ran == UNCHANGED << program, pc, flagged, compiled >>

(* Any function without parameters may be entered from outside. *)
Start(f) ==
  /\ pc = "allocate" /\ << >> \notin { code[g] : g \in F }
  /\ program[f].params = 0
  /\ pc' = "run"
  /\ stack' = << Address(0, 0) >>
  /\ frames' = << Activation(f) >>
  /\ UNCHANGED << program, flagged, compiled, regs >>

Set ==
  /\ Running("set")
  /\ LET v == Computed(Top.fn, Here.step)
         r == HereStep.reg
     IN /\ regs' = [regs EXCEPT ![r] = v]
        /\ frames' = [Advance EXCEPT ![Len(frames)].vals[r] = v]
  /\ Ran /\ UNCHANGED stack

(* A use, a copy or the read of a parameter changes nothing that matters. *)
Look ==
  /\ Running("use") \/ Running("copy") \/ Running("param")
  /\ frames' = Advance
  /\ Ran /\ UNCHANGED << stack, regs >>

Leave ==
  /\ Running("leave")
  /\ \/ frames' = Advance
     \/ frames' = Jump(Len(code[Top.fn]) - Len(EarlyExit(Top.fn)) + 1)
  /\ Ran /\ UNCHANGED << stack, regs >>

Push ==
  /\ Running("push")
  /\ stack' = Append(stack, regs[Here.reg])
  /\ frames' = Advance
  /\ Ran /\ UNCHANGED regs

Pop ==
  /\ Running("pop")
  /\ regs' = [regs EXCEPT ![Here.reg] = Cell(0)]
  /\ stack' = Drop(1)
  /\ frames' = Advance
  /\ Ran

Sub ==
  /\ Running("sub")
  /\ stack' = stack \o [ i \in 1 .. Here.n |-> Junk ]
  /\ frames' = Advance
  /\ Ran /\ UNCHANGED regs

Add ==
  /\ Running("add")
  /\ stack' = Drop(Here.n)
  /\ frames' = Advance
  /\ Ran /\ UNCHANGED regs

(* The parameters are stored from %rsp on, and the call made. *)
Call ==
  /\ Running("call") /\ Len(frames) < MaxDepth
  /\ LET g == HereStep.callee
         stored == [ c \in DOMAIN stack |->
                       IF Len(stack) - c < program[g].params
                       THEN Argument(Len(stack) - c, Len(frames) + 1) ELSE stack[c] ]
     IN /\ stack' = Append(stored, Address(Top.fn, Top.at))
        /\ frames' = Append(frames, Activation(g))
  /\ Ran /\ UNCHANGED regs

(* The caller's result is whatever its register holds now. *)
Return ==
  /\ Running("ret")
  /\ stack' = Drop(1)
  /\ frames' = LET n == Len(frames) - 1
                   caller == frames[n]
                   dst == Body(caller.fn)[code[caller.fn][caller.at].step].dst
               IN IF n = 0 THEN << >>
                  ELSE [SubSeq(frames, 1, n) EXCEPT
                          ![n].at = @ + 1,
                          ![n].vals = [r \in Registers |-> IF r = dst THEN regs[r] ELSE @[r]]]
  /\ Ran /\ UNCHANGED regs

Next == Parse \/ BuildCfg \/ Color \/ InsertSavingLogic \/ (\E f \in F : Start(f))
        \/ Set \/ Look \/ Leave \/ Push \/ Pop \/ Sub \/ Add \/ Call \/ Return
Spec == Init /\ [][Next]_vars

-----------------------------------------------------------------------------
(* What the code around the calls takes for granted of a program, and the  *)
(* compiler does not look at.                                              *)

Callees(p, f) ==
  { p[f].body[i].callee : i \in { j \in DOMAIN p[f].body : p[f].body[j].op = "call" } }
Reached(p, f) ==
  { g \in DOMAIN p : \A S \in SUBSET DOMAIN p :
      f \in S /\ (\A h \in S : Callees(p, h) \subseteq S) => g \in S }

(* The registers that a call of f may leave changed. *)
Clobbered(p, f) == CallerSaved \cap UNION { Coloured(p[g]) : g \in Reached(p, f) }

(* A function that is called directly is allocated no later than its       *)
(* callers, and assigns itself all that a call of it clobbers.             *)
KnownToCallers(p) ==
  \A f \in DOMAIN p : \A i \in DOMAIN p[f].body :
    p[f].body[i].op = "call" /\ ~ p[f].body[i].indirect =>
      LET g == p[f].body[i].callee
      IN g <= f /\ Clobbered(p, g) \subseteq Coloured(p[g])

(* The parser has seen every aligned copy, or the function is not called.  *)
CopiesSeen(p) ==
  \A f \in DOMAIN p : \A i \in DOMAIN p[f].body :
    p[f].body[i].op = "copy" =>
      \/ p[f].body[i].seen = "parser"
      \/ p[f].body[i].seen = "cfg" /\ \A g \in DOMAIN p : f \notin Callees(p, g)

(* A function with parameters on the stack and registers to restore has    *)
(* locals.                                                                 *)
ParametersOffset(p) ==
  \A f \in DOMAIN p :
    p[f].params # 0 /\ Coloured(p[f]) \cap CalleeSaved # {} => p[f].locals # 0

-----------------------------------------------------------------------------
Value == {"initial", "computed", "address", "argument", "junk"} \X Nat \X Nat \X Nat

(* Every variable holds what its declaration says. *)
TypeOK ==
  /\ pc \in {"parse", "cfg", "allocate", "save", "run"}
  /\ flagged \subseteq F
  /\ assigned \in [F -> SUBSET Registers]
  /\ \A f \in F : \A i \in DOMAIN code[f] : code[f][i].reg \in Registers \cup {0}
  /\ frameSize \in [F -> Nat]
  /\ stack \in Seq(Value)
  /\ regs \in [Registers -> Value]
  /\ \A d \in DOMAIN frames : /\ frames[d].fn \in F
                            /\ frames[d].at \in DOMAIN code[frames[d].fn]
                            /\ frames[d].entry \in [Registers -> Value]
                            /\ frames[d].vals \in [Registers -> Value]
  /\ Len(frames) <= MaxDepth

(* A value that is used after a call is the one that was computed before   *)
(* it, whatever the callee, or a function it calls, did to the register.   *)
ValuesSurviveCalls ==
  Running("use") => regs[HereStep.reg] = Top.vals[HereStep.reg]

(* A function returns to the address it was called from, on every path,    *)
(* and with the registers it must preserve as it found them.               *)
ReturnsIntact ==
  Running("ret") =>
    /\ Cell(0) = IF Len(frames) = 1 THEN << "address", 0, 0, 0 >>
                 ELSE << "address", frames[Len(frames) - 1].fn, frames[Len(frames) - 1].at,
                         Len(frames) - 1 >>
    /\ \A r \in CalleeSaved : regs[r] = Top.entry[r]

(* "we need to be sure everything here is going to be aligned": at an      *)
(* aligned copy %rsp is a multiple of 16, whoever called the function.     *)
CopiesAreAligned ==
  Running("copy") => ~ Odd(Len(stack))

(* "We need to keep track of this in case we have stack-passed parameters  *)
(* who will need their offsets updated": a parameter is read from where    *)
(* the caller has put it.                                                  *)
ParametersFound ==
  Running("param") =>
    Cell(HereStep.k + 1 + frameSize[Top.fn]) = Argument(HereStep.k, Len(frames))
=============================================================================
