-------------------------- MODULE RegisterAllocator --------------------------
(***************************************************************************)
(* The register allocator (oc/compiler/register_allocator, with            *)
(* interference_graph and the max priority queue), for one function and    *)
(* one class of registers: live ranges are built, precoloured and          *)
(* coalesced until no copy can be merged; they are then coloured in the    *)
(* order of their spill costs, and when one cannot be, it is spilled: the  *)
(* code is rewritten and the colouring starts again.                       *)
(*                                                                         *)
(* An operand is a variable structure, which several instructions may      *)
(* share; `range' is its associated_live_range.  Widths, addressing modes  *)
(* and opcodes are abstracted to what an instruction reads and writes.     *)
(***************************************************************************)
EXTENDS Naturals, Sequences, FiniteSets, FiniteSetsExt

CONSTANTS
  K,          \* K_COLORS_GEN_USE: the colours are 1 .. K
  Functions,  \* the functions an allocation may be asked for
  MaxSpills   \* bound on the spills of one allocation

NoReg == 0        \* NO_REG_GEN_PURPOSE
RSP == K + 1
SP == 1           \* stack_pointer_lr
LoadCost == 2
StoreCost == 2
INT32_MAX == 2147483647
PriorityRange == 65536  \* the heap keeps a priority in 16 bits

(* id names a source instruction, 0 one the spiller has inserted.  "copy"  *)
(* and "const" are what the coalescer and the spiller treat apart; "load", *)
(* "store" and "constStore" have a stack slot as their other operand.      *)
Op == {"copy", "const", "op", "load", "store", "constStore", "deleted"}
Instr == [ id : Nat, op : Op, src : Seq(Nat \ {0}), dst : Seq(Nat \ {0}),
           both : BOOLEAN, pinned : BOOLEAN, slot : Nat ]

(* name gives each variable structure the variable it mentions, SSA        *)
(* generations aside; 1 is the stack pointer.  home is the register that   *)
(* precolor_function gives to a variable; params arrive in theirs.         *)
Function == [ blocks : Seq(Seq(Instr)), succ : Seq(SUBSET Nat), freq : Seq(Nat \ {0}),
              ends : SUBSET Nat, name : Seq(Nat \ {0}), home : Seq(Nat),
              params : SUBSET Nat ]

SeqSet(s) == { s[i] : i \in DOMAIN s }

(* The operands are variable structures of the function, two at most are   *)
(* written, and a copy or a constant has one destination and the operands  *)
(* that are looked at.                                                     *)
WellFormed(i, variables) ==
  /\ SeqSet(i.src) \cup SeqSet(i.dst) \subseteq variables
  /\ Len(i.dst) <= 2
  /\ i.op \in {"copy", "const"} => Len(i.dst) = 1 /\ ~ i.both
  /\ i.op = "copy" => i.src # << >>
  /\ i.both => i.dst # << >>

ASSUME KAssumption == K \in Nat \ {0} /\ MaxSpills \in Nat

(* What the selector hands over.  Nothing is copied into the stack pointer *)
(* (it is written by subtractions and additions), and nothing has a home   *)
(* that is no register.                                                    *)
ASSUME FunctionsAssumption ==
  \A f \in Functions :
    /\ f \in Function
    /\ SP \in DOMAIN f.home /\ f.home[SP] = RSP
    /\ \A r \in DOMAIN f.home : f.home[r] \in NoReg .. RSP
    /\ Len(f.succ) = Len(f.blocks) /\ Len(f.freq) = Len(f.blocks)
    /\ f.ends \subseteq DOMAIN f.blocks
    /\ \A b \in DOMAIN f.blocks :
         /\ f.succ[b] \subseteq DOMAIN f.blocks
         /\ \A p \in DOMAIN f.blocks[b] :
              /\ WellFormed(f.blocks[b][p], DOMAIN f.name)
              /\ f.blocks[b][p].op = "copy" => f.name[f.blocks[b][p].dst[1]] # SP
    /\ \A i \in DOMAIN f.name : f.name[i] \in DOMAIN f.home

VARIABLES
  function,     \* the function; never written
  pc,           \* the step of allocate_registers_for_function
  code,         \* its instructions, block by block in direct_successor order
  range,        \* associated_live_range of each variable structure
  reg,          \* reg of each live range
  wasSpilled,   \* was_spilled of each live range
  liveIn,       \* live_in of each block
  resume,       \* what the analysis under way is for
  neighbors,    \* neighbors of each live range
  assignments,  \* assignment_count of each live range
  spillCost,    \* spill_cost of each live range
  cursor,       \* block and index the coalescer or the spiller is at
  merged,       \* whether this round of coalescing has merged something
  queue,        \* the live ranges still to be coloured
  victim,       \* spill_range
  slots         \* stack regions created by the spiller

costs == << assignments, spillCost >>
liveness == << liveIn, resume >>
vars == << function, pc, code, range, reg, wasSpilled, liveness, neighbors, costs,
           cursor, merged, queue, victim, slots >>

Ranges == DOMAIN reg
Blocks == DOMAIN function.blocks

-----------------------------------------------------------------------------
(* What an instruction reads and writes; the stack pointer is not tracked. *)
Written(i) == i.dst
Read(i) == IF i.both THEN Append(i.src, i.dst[1]) ELSE i.src
Uses(i) == { range[v] : v \in SeqSet(Read(i)) } \ {SP}
Defs(i) == { range[v] : v \in SeqSet(Written(i)) } \ {SP}

Assigned(blk) == UNION { Defs(blk[p]) : p \in DOMAIN blk }
UsedBeforeDef(blk) ==
  UNION { { r \in Uses(blk[p]) : \A q \in 1 .. p - 1 : r \notin Defs(blk[q]) } : p \in DOMAIN blk }

(* The liveness pass visits the blocks found backwards from the exit. *)
Visited ==
  LET grow[n \in 0 .. Cardinality(Blocks)] ==
        IF n = 0 THEN function.ends
        ELSE { b \in Blocks : b \in grow[n-1] \/ function.succ[b] \cap grow[n-1] # {} }
  IN grow[Cardinality(Blocks)]

LiveOut(b) == IF b \in Visited THEN UNION { liveIn[s] : s \in function.succ[b] } ELSE {}
Equation(b) == UsedBeforeDef(code[b]) \cup (LiveOut(b) \ Assigned(code[b]))
Unsettled == { b \in Visited : liveIn[b] # Equation(b) }

(* The live ranges that are live after each instruction of a block. *)
LiveAfter(b) ==
  LET blk == code[b]
      after[p \in 1 .. Len(blk)] ==
        IF p = Len(blk) THEN LiveOut(b)
        ELSE (after[p+1] \ Defs(blk[p+1])) \cup Uses(blk[p+1])
  IN after

(* A destination interferes with what is live once the destinations before *)
(* it have left the set.                                                   *)
Edges(i, after) ==
  LET first == range[i.dst[1]]
      rest == IF i.both THEN after \cup {first} ELSE after \ {first}
  IN IF i.dst = << >> THEN {}
     ELSE ({first} \X after)
          \cup (IF Len(i.dst) = 2 THEN {range[i.dst[2]]} \X rest ELSE {})

Interference ==
  LET edges == UNION { UNION { Edges(code[b][p], LiveAfter(b)[p]) : p \in DOMAIN code[b] } :
                       b \in Blocks }
      proper == { e \in edges : e[1] # e[2] /\ SP \notin {e[1], e[2]} }
  IN [r \in Ranges |-> { e[2] : e \in { d \in proper : d[1] = r } }
                       \cup { e[1] : e \in { d \in proper : d[2] = r } }]

(* assignment_count and use_count: every mention weighs its block's        *)
(* estimated_execution_frequency.                                          *)
Mentions(r, Of(_)) ==
  MapThenSumSet(LAMBDA b : function.freq[b] *
                  Cardinality({ m \in UNION { {p} \X DOMAIN Of(code[b][p]) : p \in DOMAIN code[b] } :
                                range[Of(code[b][m[1]])[m[2]]] = r }),
                Blocks)

(* The sets and the costs are computed anew, and the liveness sets emptied. *)
Analyse(andThen) ==
  /\ assignments' = [r \in Ranges |-> IF r = SP THEN 0 ELSE Mentions(r, Written)]
  /\ spillCost' = [r \in Ranges |->
       IF r = SP THEN 0
       ELSE IF wasSpilled[r] THEN INT32_MAX
       ELSE Mentions(r, Written) * StoreCost + Mentions(r, Read) * LoadCost]
  /\ liveIn' = [b \in Blocks |-> {}]
  /\ pc' = "liveness"
  /\ resume' = andThen

(* max_priority_queue_enqueue adds one and stores the sum in 16 bits. *)
Priority(r) == ((spillCost[r] % PriorityRange) + 1) % PriorityRange

First == IF \E b \in Blocks : code[b] # << >>
         THEN << CHOOSE b \in Blocks : code[b] # << >> /\
                   \A a \in Blocks : a < b => code[a] = << >>, 1 >>
         ELSE << Len(code) + 1, 1 >>

(* The position after n more instructions of the cursor's block. *)
Past(c, n) ==
  LET b == cursor[1]
      later == { a \in Blocks : a > b /\ c[a] # << >> }
  IN IF cursor[2] + n <= Len(c[b]) THEN << b, cursor[2] + n >>
     ELSE IF later = {} THEN << Len(c) + 1, 1 >>
     ELSE << CHOOSE a \in later : \A e \in later : a <= e, 1 >>
AtEnd == cursor[1] > Len(code)

-----------------------------------------------------------------------------
Init ==
  /\ function \in Functions
  /\ pc = "build"
  /\ code = function.blocks
  /\ range = function.name
  /\ reg = [r \in DOMAIN function.home |-> IF r = SP THEN RSP ELSE NoReg]
  /\ wasSpilled = [r \in DOMAIN function.home |-> FALSE]
  /\ liveIn = [b \in DOMAIN function.blocks |-> {}]
  /\ resume = "precolor"
  /\ neighbors = [r \in DOMAIN function.home |-> {}]
  /\ assignments = [r \in DOMAIN function.home |-> 0]
  /\ spillCost = [r \in DOMAIN function.home |-> 0]
  /\ cursor = << 1, 1 >>
  /\ merged = FALSE
  /\ queue = {}
  /\ victim = SP
  /\ slots = 0

(* Steps 1 and 2: live ranges and their costs. *)
Build ==
  /\ pc = "build"
  /\ Analyse("precolor")
  /\ UNCHANGED << function, code, range, reg, wasSpilled, neighbors, cursor, merged,
                  queue, victim, slots >>

(* Step 3: the blocks are visited from the last to the first and again     *)
(* until no set changes; a visit that changes nothing is left out.         *)
VisitBlock ==
  /\ pc = "liveness"
  /\ Unsettled # {}
  /\ liveIn' = [liveIn EXCEPT ![Max(Unsettled)] = Equation(Max(Unsettled))]
  /\ UNCHANGED << function, pc, code, range, reg, wasSpilled, resume, neighbors, costs,
                  cursor, merged, queue, victim, slots >>

(* Steps 4 and 5: interference, and the first time the precolouring. *)
BuildInterference ==
  /\ pc = "liveness"
  /\ Unsettled = {}
  /\ neighbors' = Interference
  /\ reg' = IF resume = "precolor" THEN function.home ELSE reg
  /\ cursor' = First
  /\ IF resume = "color"
     THEN pc' = "color" /\ queue' = Ranges \ {SP}
     ELSE pc' = "coalesce" /\ queue' = queue
  /\ UNCHANGED << function, code, range, wasSpilled, liveness, costs, merged, victim, slots >>

-----------------------------------------------------------------------------
(* Step 6, coalescing: the destination of a copy is absorbed into its      *)
(* source, and the copy deleted.                                           *)
DoLiveRangesInterfere(a, b) == a = b \/ b \in neighbors[a]
NeighborsUse(r, c) == \E n \in neighbors[r] : reg[n] = c

(* Mutant: the neighbors of the destination are looked at only. *)
ConflictOfDestination(s, d) ==
  \/ reg[s] = RSP /\ assignments[d] > 1
  \/ reg[s] # NoReg /\ reg[d] = NoReg /\ NeighborsUse(d, reg[s])
  \/ reg[s] # NoReg /\ reg[d] # NoReg /\ reg[s] # reg[d]

(* Mutant: what shares the stack pointer may be assigned again. *)
ConflictWithoutStackPointer(s, d) ==
  \/ reg[s] = NoReg /\ reg[d] # NoReg /\ NeighborsUse(s, reg[d])
  \/ reg[s] # NoReg /\ reg[d] = NoReg /\ NeighborsUse(d, reg[s])
  \/ reg[s] # NoReg /\ reg[d] # NoReg /\ reg[s] # reg[d]

(* does_general_purpose_register_allocation_interference_exist: one that   *)
(* shares %rsp must never be assigned again.                               *)
RegistersConflict(s, d) ==
  \/ reg[s] = RSP /\ assignments[d] > 1
  \/ reg[s] = NoReg /\ reg[d] # NoReg /\ NeighborsUse(s, reg[d])
  \/ reg[s] # NoReg /\ reg[d] = NoReg /\ NeighborsUse(d, reg[s])
  \/ reg[s] # NoReg /\ reg[d] # NoReg /\ reg[s] # reg[d]

Source(i) == range[i.src[1]]
Destination(i) == range[i.dst[1]]
CanMerge(i) ==
  /\ i.op = "copy" /\ ~ i.pinned
  /\ ~ DoLiveRangesInterfere(Destination(i), Source(i))
  /\ ~ RegistersConflict(Source(i), Destination(i))

NotBefore(at, b, p) == b > at[1] \/ (b = at[1] /\ p >= at[2])
Positions == UNION { {b} \X DOMAIN code[b] : b \in Blocks }
Mergeable == { at \in Positions : /\ NotBefore(cursor, at[1], at[2])
                                  /\ CanMerge(code[at[1]][at[2]]) }
NextMerge == CHOOSE at \in Mergeable : \A e \in Mergeable : NotBefore(at, e[1], e[2])

(* coalesce_live_ranges, and the deletion of the copy it makes useless. *)
Coalesce ==
  /\ pc = "coalesce"
  /\ Mergeable # {}
  /\ LET at == NextMerge
         i == code[at[1]][at[2]]
         s == Source(i)
         d == Destination(i)
     IN /\ range' = [v \in DOMAIN range |-> IF range[v] = d THEN s ELSE range[v]]
        /\ neighbors' = [r \in Ranges |->
             IF r = d THEN {}
             ELSE IF r = s THEN neighbors[s] \cup neighbors[d]
             ELSE IF r \in neighbors[d] THEN (neighbors[r] \ {d}) \cup {s}
             ELSE neighbors[r]]
        /\ reg' = [reg EXCEPT ![s] = IF @ = NoReg THEN reg[d] ELSE @]
        /\ assignments' = [assignments EXCEPT ![s] = @ + assignments[d]]
        /\ spillCost' = [spillCost EXCEPT ![s] = @ + spillCost[d]]
        /\ code' = [code EXCEPT ![at[1]][at[2]] =
                      [@ EXCEPT !.op = "deleted", !.src = << >>, !.dst = << >>]]
        /\ cursor' = at
  /\ merged' = TRUE
  /\ UNCHANGED << function, pc, wasSpilled, liveness, queue, victim, slots >>

(* Mutant: the result of a round is not taken over by the loop. *)
EndRoundUnnoticed ==
  /\ pc = "coalesce"
  /\ Mergeable = {}
  /\ IF merged
     THEN Analyse("coalesce") /\ queue' = queue
     ELSE pc' = "color" /\ queue' = Ranges \ {SP} /\ UNCHANGED << costs, liveness >>
  /\ UNCHANGED << function, code, range, reg, wasSpilled, neighbors, cursor, merged,
                  victim, slots >>

(* A round that has merged something is followed by a new analysis and by  *)
(* another round; one that has not, by the colouring.                      *)
EndRound ==
  /\ pc = "coalesce"
  /\ Mergeable = {}
  /\ IF merged
     THEN Analyse("coalesce") /\ queue' = queue
     ELSE pc' = "color" /\ queue' = Ranges \ {SP} /\ UNCHANGED << costs, liveness >>
  /\ merged' = FALSE
  /\ UNCHANGED << function, code, range, reg, wasSpilled, neighbors, cursor, victim, slots >>

-----------------------------------------------------------------------------
(* Step 7, colouring.  Live ranges of equal priority come in any order. *)
Taken(r) == { reg[n] : n \in neighbors[r] }
Free(r) == (1 .. K) \ Taken(r)
HighestPriority(r) == r \in queue /\ \A s \in queue : Priority(s) <= Priority(r)

(* allocate_register_general_purpose: one that has a register keeps it,    *)
(* any other gets the first that none of its neighbors has.                *)
Allocated(r) == IF reg[r] # NoReg THEN reg[r]
                ELSE IF Free(r) = {} THEN NoReg ELSE Min(Free(r))

(* Mutant: the boundary is off by one. *)
ColorUpToK(r) ==
  /\ pc = "color"
  /\ HighestPriority(r)
  /\ Cardinality(neighbors[r]) <= K \/ Allocated(r) # NoReg
  /\ reg' = [reg EXCEPT ![r] = Allocated(r)]
  /\ queue' = queue \ {r}
  /\ UNCHANGED << function, pc, code, range, wasSpilled, liveness, neighbors, costs,
                  cursor, merged, victim, slots >>

(* With a degree below K the result of the allocation is not looked at. *)
Color(r) ==
  /\ pc = "color"
  /\ HighestPriority(r)
  /\ Cardinality(neighbors[r]) < K \/ Allocated(r) # NoReg
  /\ reg' = [reg EXCEPT ![r] = Allocated(r)]
  /\ queue' = queue \ {r}
  /\ UNCHANGED << function, pc, code, range, wasSpilled, liveness, neighbors, costs,
                  cursor, merged, victim, slots >>

StartSpill(r) ==
  /\ pc = "color"
  /\ HighestPriority(r)
  /\ Cardinality(neighbors[r]) >= K /\ Allocated(r) = NoReg
  /\ slots < MaxSpills
  /\ pc' = "spill"
  /\ victim' = r
  /\ slots' = slots + 1
  /\ cursor' = First
  /\ queue' = {}
  /\ UNCHANGED << function, code, range, reg, wasSpilled, liveness, neighbors, costs,
                  merged >>

AllColored ==
  /\ pc = "color" /\ queue = {}
  /\ pc' = "done"
  /\ UNCHANGED << function, code, range, reg, wasSpilled, liveness, neighbors, costs,
                  cursor, merged, queue, victim, slots >>

-----------------------------------------------------------------------------
(* handle_instruction_level_spilling, for the instruction at the cursor. *)
At == code[cursor[1]][cursor[2]]
Replace(new) == [code EXCEPT ![cursor[1]] =
  SubSeq(@, 1, cursor[2] - 1) \o new \o SubSeq(@, cursor[2] + 1, Len(@))]

SpilledCopy == At.op = "copy" /\ Source(At) = victim
SpilledConst == At.op = "const" /\ Destination(At) = victim

Spilling(new) == code' = Replace(new) /\ cursor' = Past(code', Len(new))

(* A copy out of the victim becomes a load. *)
SpillCopy ==
  /\ pc = "spill" /\ ~ AtEnd
  /\ SpilledCopy
  /\ Spilling(<< [At EXCEPT !.op = "load", !.src = << >>, !.slot = slots] >>)
  /\ UNCHANGED << function, pc, range, reg, wasSpilled, liveness, neighbors, costs,
                  merged, queue, victim, slots >>

(* A constant for the victim is stored at once. *)
SpillConst ==
  /\ pc = "spill" /\ ~ AtEnd
  /\ ~ SpilledCopy /\ SpilledConst
  /\ Spilling(<< [At EXCEPT !.op = "constStore", !.dst = << >>, !.slot = slots] >>)
  /\ UNCHANGED << function, pc, range, reg, wasSpilled, liveness, neighbors, costs,
                  merged, queue, victim, slots >>

Load(v) == [ id |-> 0, op |-> "load", src |-> << >>, dst |-> << v >>, both |-> FALSE,
             pinned |-> FALSE, slot |-> slots ]
Store(v) == [ id |-> 0, op |-> "store", src |-> << v >>, dst |-> << >>, both |-> FALSE,
              pinned |-> FALSE, slot |-> slots ]

(* Mutant: the new live range is not put into the list of live ranges. *)
ForgetLiveRange == UNCHANGED << reg, wasSpilled, neighbors, costs >>

AddLiveRange ==
  /\ reg' = Append(reg, NoReg)
  /\ wasSpilled' = Append(wasSpilled, TRUE)
  /\ neighbors' = Append(neighbors, {})
  /\ assignments' = Append(assignments, 0)
  /\ spillCost' = Append(spillCost, 0)

(* Any other: the victim among the operands that are read is loaded into a *)
(* live range of its own, which those operands then share; a destination   *)
(* that is the victim, or by now that new live range, is stored after.     *)
SpillOperands ==
  /\ pc = "spill" /\ ~ AtEnd
  /\ ~ SpilledCopy /\ ~ SpilledConst
  /\ LET read == { v \in SeqSet(Read(At)) : range[v] = victim }
         new == Len(reg) + 1
         dummy == Len(range) + 1
         loaded == read # {}
         range1 == [v \in DOMAIN range |-> IF v \in read THEN new ELSE range[v]]
         stored == { k \in DOMAIN At.dst : range1[At.dst[k]] \in {victim, new} }
         before == IF loaded THEN << Load(dummy) >> ELSE << >>
         after == [k \in 1 .. Cardinality(stored) |->
                     Store(At.dst[IF Cardinality(stored) = 2 THEN 3 - k ELSE Min(stored)])]
         skipped == IF stored = {} THEN 1 ELSE 2
     IN /\ code' = Replace(before \o << At >> \o after)
        /\ cursor' = Past(code', Len(before) + skipped)
        /\ IF loaded
           THEN range' = Append(range1, new) /\ AddLiveRange
           ELSE UNCHANGED << range, reg, wasSpilled, neighbors, costs >>
  /\ UNCHANGED << function, pc, liveness, merged, queue, victim, slots >>

(* After a spill everything is computed anew, except the colours. *)
Restart ==
  /\ pc = "spill" /\ AtEnd
  /\ Analyse("color")
  /\ UNCHANGED << function, code, range, reg, wasSpilled, neighbors, cursor, merged,
                  queue, victim, slots >>

Next ==
  \/ Build \/ VisitBlock \/ BuildInterference \/ Coalesce \/ EndRound
  \/ \E r \in queue : Color(r) \/ StartSpill(r)
  \/ AllColored \/ SpillCopy \/ SpillConst \/ SpillOperands \/ Restart

Spec == Init /\ [][Next]_vars /\ WF_vars(Next)

-----------------------------------------------------------------------------
(* Every variable holds what its declaration says. *)
TypeOK ==
  /\ function \in Functions
  /\ pc \in {"build", "liveness", "coalesce", "color", "spill", "done", "running"}
  /\ DOMAIN code = Blocks /\ \A b \in Blocks : \A p \in DOMAIN code[b] : code[b][p] \in Instr
  /\ range \in Seq(Ranges)
  /\ reg \in Seq(NoReg .. RSP)
  /\ wasSpilled \in [Ranges -> BOOLEAN]
  /\ liveIn \in [Blocks -> SUBSET Ranges]
  /\ resume \in {"precolor", "coalesce", "color"}
  /\ neighbors \in [Ranges -> SUBSET Ranges]
  /\ assignments \in [Ranges -> Nat]
  /\ spillCost \in [Ranges -> Nat]
  /\ cursor \in (Nat \ {0}) \X (Nat \ {0})
  /\ merged \in BOOLEAN
  /\ queue \in SUBSET Ranges
  /\ victim \in Ranges
  /\ slots \in 0 .. MaxSpills

(* Live ranges that interfere never share a register: neither when one of  *)
(* them was precoloured, nor when coalescing has passed a register on, nor *)
(* when the colour is left from before a spill.                            *)
ColoringProper ==
  pc \in {"coalesce", "color", "done"} =>
    \A r \in Ranges : \A s \in neighbors[r] : reg[r] # NoReg => reg[r] # reg[s]

(* When the allocation is over, every operand of the code has a register:  *)
(* no live range of low degree was passed over.                            *)
EveryRangeColored ==
  pc = "done" => \A b \in Blocks : \A p \in DOMAIN code[b] :
    \A v \in SeqSet(code[b][p].src) \cup SeqSet(code[b][p].dst) : reg[range[v]] # NoReg

(* The coalescing loop ends, although every merge causes another round. *)
CoalescingEnds == pc = "coalesce" ~> pc = "color"

(* "If this was already spilled, we can't spill it again." *)
SpilledNeverRespilled == pc = "spill" => ~ wasSpilled[victim]
=============================================================================
