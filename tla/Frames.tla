------------------------------- MODULE Frames -------------------------------
(***************************************************************************)
(* Where the data of a function lies.  A program defines its types and     *)
(* then either the body of a function, whose locals are laid out, swept,   *)
(* addressed by constants and joined by spills, or a function and a call   *)
(* of it: the parser places the parameters, and the call its arguments,    *)
(* each on its own.                                                        *)
(***************************************************************************)
EXTENDS TypeDefinitions, StackDataArea

CONSTANTS
  GPRegisters,    \* MAX_GP_REGISTER_PASSED_PARAMS
  SSERegisters,   \* MAX_SSE_REGISTER_PASSED_PARAMS
  MaxLocals,      \* bounds on the regions of a body, on what is spilled,
  MaxSpills,
  MaxParameters,  \* on parameters, and on what is passed for the last one
  MaxElements

ASSUME RegistersAssumption == GPRegisters \in Nat \ {0} /\ SSERegisters \in Nat

VARIABLES
  phase,       \* what the compiler is at
  offsets,     \* << region, address >> that instructions hold as constants
  signature,   \* the types of the parameters
  elaborated,  \* the type the last one is a list of, or NoDefinition
  byCopy,      \* returns_by_copy
  places,      \* where the function finds each parameter
  arguments,   \* where the call has put each argument
  elements     \* where it has put the members of the list

definition == << types, open, switch, verdict >>
call == << signature, elaborated, byCopy, places, arguments, elements >>
vars == << definition, area, phase, offsets, call >>

Init ==
  /\ TypesInit
  /\ kind = "local" /\ regions = {} /\ typeOf = << >> /\ base = << >>
  /\ marked = {} /\ total = 0 /\ pending = {}
  /\ phase = "types" /\ offsets = {}
  /\ signature = << >> /\ elaborated = NoDefinition /\ byCopy = FALSE
  /\ places = << >> /\ arguments = << >> /\ elements = << >>

Define == phase = "types" /\ TypesNext /\ UNCHANGED << area, phase, offsets, call >>

(* What follows sees the types and not how they were defined. *)
EndTypes ==
  /\ phase = "types" /\ Working /\ open.complete /\ switch = NoSwitch
  /\ open' = NoDefinition
  /\ \/ phase' = "body" /\ Alloc("local")
     \/ phase' = "parameters" /\ Alloc("parameters")
  /\ UNCHANGED << types, switch, verdict, offsets, call >>

-----------------------------------------------------------------------------
(* The body of a function. *)

DeclareLocal(t) ==
  /\ phase = "body" /\ NextId <= MaxLocals
  /\ create_stack_region_for_type(t)
  /\ UNCHANGED << definition, phase, offsets, call >>

(* The optimizer marks the region of every operand of a useful statement.  *)
MarkUseful(r) ==
  /\ phase \in {"body", "swept"} /\ mark_stack_region(r)
  /\ UNCHANGED << definition, phase, offsets, call >>

(* Mutant: the optimizer leaves the sweeping to the selector. *)
LeaveUnswept ==
  /\ phase = "body" /\ Idle /\ regions # {}
  /\ phase' = "swept" /\ UNCHANGED << area, definition, offsets, call >>

OptimizerSweep ==
  /\ phase \in {"body", "swept"} /\ regions # {}
  /\ sweep_stack_data_area /\ phase' = "swept"
  /\ UNCHANGED << definition, offsets, call >>

(* Selecting an instruction makes its address a constant, and marks the    *)
(* region for the selector's own sweep.                                    *)
SelectReference(r) ==
  /\ phase \in {"swept", "selecting"} /\ mark_stack_region(r)
  /\ offsets' = offsets \cup { << r, base[r] >> }
  /\ phase' = "selecting" /\ UNCHANGED << definition, call >>

SelectorSweep ==
  /\ phase = "selecting" /\ sweep_stack_data_area /\ phase' = "allocating"
  /\ UNCHANGED << definition, offsets, call >>

(* A spilled register gets a region, and its loads and stores the address. *)
Spill(t) ==
  /\ phase = "allocating" /\ NextId <= MaxLocals + MaxSpills
  /\ create_stack_region_for_type(t)
  /\ offsets' = offsets \cup { << NextId, StartOf(total, t) >> }
  /\ UNCHANGED << definition, phase, call >>

FinishFrame ==
  /\ phase = "allocating" /\ align_stack_data_area /\ phase' = "framed"
  /\ UNCHANGED << definition, offsets, call >>

Realign == realign_data_area /\ UNCHANGED << definition, phase, offsets, call >>

-----------------------------------------------------------------------------
(* The parameters of a function.  Arrays are passed as their address.      *)

IsFloat(t) == t.class = "float"
IsList(t) == t.class = "elaborative"
Pointer == Type("pointer", 8, 8)
Passed(t) == IF t.class = "array" THEN Pointer ELSE t
ListOf(t) == Type("elaborative", 4, Passed(t).align)

InClass(t, u) == ~ IsAggregate(u) /\ ~ IsList(u) /\ (IsFloat(t) <=> IsFloat(u))
OrderIn(t, types1) == 1 + Cardinality({ i \in DOMAIN types1 : InClass(t, types1[i]) })
(* A list has a number of the general purpose class, too.                  *)
Order(i) == OrderIn(signature[i], SubSeq(signature, 1, i - 1))

InRegister(t, order) == [ in |-> IF IsFloat(t) THEN "sse" ELSE "gp", at |-> order, size |-> Passed(t).size ]
OnStack(t) == [ in |-> "stack", at |-> StartOf(total, Passed(t)), size |-> SizeOf(Passed(t)) ]
Registers(t) == IF IsFloat(t) THEN SSERegisters ELSE GPRegisters

(* The test does not know of lists. *)
is_parameter_stack_passed(t, order) == IsAggregate(t) \/ order > Registers(t)
HasStackParameters == \E i \in DOMAIN places : places[i].in = "stack"

(* Mutant: aggregates take a number of the general purpose class. *)
ParameterAmongAll(t) ==
  /\ phase = "parameters" /\ Len(signature) < MaxParameters /\ elaborated = NoDefinition
  /\ signature' = Append(signature, t)
  /\ LET order == 1 + Cardinality({ i \in DOMAIN signature : ~ IsFloat(signature[i]) <=> ~ IsFloat(t) })
     IN  IF is_parameter_stack_passed(t, order)
         THEN create_stack_region_for_type(Passed(t)) /\ places' = Append(places, OnStack(t))
         ELSE places' = Append(places, InRegister(t, order)) /\ UNCHANGED area
  /\ UNCHANGED << definition, phase, offsets, elaborated, byCopy, arguments, elements >>

(* parameter_declaration and add_function_parameter: a list comes last.    *)
DeclareParameter(t) ==
  /\ phase = "parameters" /\ Len(signature) < MaxParameters /\ elaborated = NoDefinition
  /\ signature' = Append(signature, t)
  /\ LET order == OrderIn(t, signature)
     IN  IF is_parameter_stack_passed(t, order)
         THEN create_stack_region_for_type(Passed(t)) /\ places' = Append(places, OnStack(t))
         ELSE places' = Append(places, InRegister(t, order)) /\ UNCHANGED area
  /\ UNCHANGED << definition, phase, offsets, elaborated, byCopy, arguments, elements >>

DeclareList(t) ==
  /\ phase = "parameters" /\ Len(signature) < MaxParameters /\ elaborated = NoDefinition
  /\ signature' = Append(signature, ListOf(t)) /\ elaborated' = t
  /\ create_stack_region_for_type(ListOf(t)) /\ places' = Append(places, OnStack(ListOf(t)))
  /\ UNCHANGED << definition, phase, offsets, byCopy, arguments, elements >>

EndParameters ==
  /\ phase = "parameters" /\ signature # << >>
  /\ IF HasStackParameters THEN align_stack_data_area ELSE UNCHANGED area
  /\ phase' = "result" /\ UNCHANGED << definition, offsets, call >>

(* A result returned by copy takes the first general purpose register: the *)
(* others move up, and the one with the last number goes to the stack,     *)
(* behind what lies there; a list with that number, which is on the stack  *)
(* already, gets a second region there.                                    *)
Moved(i) ==
  /\ ~ is_parameter_stack_passed(signature[i], Order(i))
  /\ ~ IsFloat(signature[i])
  /\ Order(i) = GPRegisters
ResultType(copied) ==
  /\ phase = "result"
  /\ byCopy' = copied
  /\ IF copied
     THEN /\ places' = [ i \in DOMAIN signature |->
                IF Moved(i) THEN OnStack(signature[i])
                ELSE IF places[i].in = "gp" THEN [ places[i] EXCEPT !.at = @ + 1 ] ELSE places[i] ]
          /\ IF \E i \in DOMAIN signature : Moved(i)
             THEN \E i \in DOMAIN signature : Moved(i) /\ create_stack_region_for_type(Passed(signature[i]))
             ELSE UNCHANGED area
     ELSE UNCHANGED << places, area >>
  /\ phase' = "called"
  /\ UNCHANGED << definition, offsets, signature, elaborated, arguments, elements >>

-----------------------------------------------------------------------------
(* A call: the arguments are stored one after the other, in an area of     *)
(* their own that is there when the signature says so.                     *)

(* A result returned by copy is one more address to pass. *)
GeneralPurposeCount == Cardinality({ i \in DOMAIN signature : InClass(Pointer, signature[i]) }) + (IF byCopy THEN 1 ELSE 0)
FloatCount == Cardinality({ i \in DOMAIN signature : IsFloat(signature[i]) })
contains_stack_params ==
  \/ \E i \in DOMAIN signature : IsAggregate(signature[i]) \/ IsList(signature[i])
  \/ GeneralPurposeCount > GPRegisters
  \/ FloatCount > SSERegisters

BeginCall ==
  /\ phase = "called" /\ Alloc("call") /\ phase' = "storing"
  /\ UNCHANGED << definition, offsets, call >>

NextArgument == signature[Len(arguments) + 1]
Unstored == phase = "storing" /\ Len(arguments) + 1 \in DOMAIN signature

StoreArgument ==
  /\ Unstored /\ ~ IsList(NextArgument)
  /\ LET t == NextArgument
         order == OrderIn(t, SubSeq(signature, 1, Len(arguments)))
                  + (IF byCopy /\ ~ IsFloat(t) THEN 1 ELSE 0)
     IN  IF is_parameter_stack_passed(t, order)
         THEN create_stack_region_for_type(Passed(t)) /\ arguments' = Append(arguments, OnStack(t))
         ELSE arguments' = Append(arguments, InRegister(t, order)) /\ UNCHANGED area
  /\ UNCHANGED << definition, phase, offsets, signature, elaborated, byCopy, places, elements >>

(* The number of the members of a list, as a u32, then each of them. *)
Count == Type("basic", 4, 4)
StoreCount ==
  /\ Unstored /\ IsList(NextArgument)
  /\ create_stack_region_for_type(Count) /\ arguments' = Append(arguments, OnStack(Count))
  /\ UNCHANGED << definition, phase, offsets, signature, elaborated, byCopy, places, elements >>

StoreElement ==
  /\ phase = "storing" /\ Len(arguments) = Len(signature)
  /\ elaborated # NoDefinition /\ Len(elements) < MaxElements
  /\ create_stack_region_for_type(Passed(elaborated))
  /\ elements' = Append(elements, OnStack(elaborated))
  /\ UNCHANGED << definition, phase, offsets, signature, elaborated, byCopy, places, arguments >>

Call ==
  /\ phase = "storing" /\ Len(arguments) = Len(signature)
  /\ IF contains_stack_params THEN align_stack_data_area ELSE UNCHANGED area
  /\ phase' = "entered" /\ UNCHANGED << definition, offsets, call >>

-----------------------------------------------------------------------------
Body ==
  \/ \E t \in Spelled : DeclareLocal(t)
  \/ \E r \in regions : MarkUseful(r) \/ SelectReference(r)
  \/ OptimizerSweep \/ SelectorSweep \/ Realign \/ FinishFrame
  \/ \E t \in types : Spill(t)

Calls ==
  \/ \E t \in Spelled : DeclareParameter(t) \/ DeclareList(t)
  \/ EndParameters \/ \E copied \in BOOLEAN : ResultType(copied)
  \/ BeginCall \/ StoreArgument \/ StoreCount \/ StoreElement \/ Call

Next == Define \/ EndTypes \/ Body \/ Calls
Spec == Init /\ [][Next]_vars

-----------------------------------------------------------------------------
(* Every address that an instruction holds as a constant is still the      *)
(* address of its region, whatever was swept and spilled since             *)
(* (instruction_selector.c:1242, 7178; optimizer.c:1138).                  *)
OffsetsCurrent ==
  Idle => \A o \in offsets : o[1] \in regions /\ base[o[1]] = o[2]

(* The first member of a list, counted from its number. *)
InitialPadding ==
  LET alignment == IF IsAggregate(elaborated) THEN 16 ELSE Passed(elaborated).align
  IN  IF 4 % alignment # 0 THEN alignment ELSE 4
ElementPlace(i) ==
  [ in |-> "stack", size |-> Passed(elaborated).size,
    at |-> places[Len(signature)].at + InitialPadding + (i - 1) * Passed(elaborated).size ]

(* The cases in which the two sides lay out the stack in the same order:   *)
(* what a result by copy moves there is alone and no list, and a list is   *)
(* alone, too, and its members fill the distance between them.             *)
StackPlaces == { i \in DOMAIN places : places[i].in = "stack" }
Orderly ==
  /\ \A i \in DOMAIN signature : byCopy /\ Moved(i) => StackPlaces = {i} /\ ~ IsList(signature[i])
  /\ elaborated # NoDefinition => StackPlaces = {Len(signature)}
  /\ elaborated # NoDefinition /\ IsAggregate(elaborated) => elaborated.size % 16 = 0

(* A call puts every argument where the function looks for the parameter,  *)
(* and within the part of the stack it reserves, though the parser and the *)
(* cfg place them with code of their own (parser.c:13118, symtab.c:990,    *)
(* cfg.c:6986-7385, instruction_selector.c:2199).                          *)
ArgumentsFound ==
  phase = "entered" /\ Orderly =>
    /\ arguments = places
    /\ \A i \in DOMAIN elements : elements[i] = ElementPlace(i)
    /\ \A i \in StackPlaces : contains_stack_params /\ places[i].at + places[i].size <= total
    /\ StackPlaces # {} => total % 16 = 0
=============================================================================
