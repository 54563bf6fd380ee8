---------------------------- MODULE AllocatedCode ----------------------------
(***************************************************************************)
(* What the allocator is for: the code it leaves is run on K registers, a  *)
(* stack pointer and the stack slots, in lockstep with the instructions it *)
(* was given, which name their variables.                                  *)
(*                                                                         *)
(* A value is the instruction that made it, the number of the destination, *)
(* and whether that destination has been assigned again since.             *)
(***************************************************************************)
EXTENDS RegisterAllocator

VARIABLES
  at,      \* block and index of the next instruction; << 0, 0 >> before and after the run
  env,     \* the value of each variable
  regs,    \* the value in each register
  frame    \* the value in each stack slot

runVars == << at, env, regs, frame >>

Value(id, k) == << id, k, 1 >>
Stale(v) == << v[1], v[2], 0 >>
AtEntry(n) == Value(0, n)
Junk == Value(0, 0)

Running == at # << 0, 0 >>
Registers == 1 .. RSP
Here == code[at[1]][at[2]]

(* The instruction of the source that the one at hand stands for. *)
Original ==
  CHOOSE i \in UNION { SeqSet(function.blocks[b]) : b \in Blocks } : i.id = Here.id
Var(v) == function.name[v]
RegOf(v) == reg[range[v]]

EntryPoints(b) == IF code[b] # << >> THEN << b, 1 >> ELSE << b, 0 >>

RunInit ==
  /\ Init
  /\ at = << 0, 0 >>
  /\ env = [n \in DOMAIN function.home |-> AtEntry(n)]
  /\ regs = [r \in Registers |-> Junk]
  /\ frame = [s \in 1 .. MaxSpills |-> Junk]

(* The parameters are in their registers when the function is entered. *)
Enter ==
  /\ pc = "done" /\ ~ Running
  /\ pc' = "running"
  /\ at' = EntryPoints(1)
  /\ regs' = [r \in Registers |->
                IF r = RSP THEN AtEntry(SP)
                ELSE IF \E n \in function.params : function.home[n] = r
                     THEN AtEntry(CHOOSE n \in function.params : function.home[n] = r)
                     ELSE Junk]
  /\ UNCHANGED << env, frame, function, code, range, reg, wasSpilled, liveness, neighbors,
                  costs, cursor, merged, queue, victim, slots >>

(* Assigning a destination again makes its earlier values stale. *)
Age(v) == IF Here.id # 0 /\ v[1] = Here.id THEN Stale(v) ELSE v
Aged(f) == [x \in DOMAIN f |-> Age(f[x])]
Made(k) == Value(Here.id, k)

SourceStep ==
  IF Here.id = 0 THEN env' = env
  ELSE LET o == Original IN
       env' = [n \in DOMAIN env |->
         IF \E k \in DOMAIN o.dst : Var(o.dst[k]) = n
         THEN IF o.op = "copy" THEN env[Var(o.src[1])]
              ELSE Made(CHOOSE k \in DOMAIN o.dst : Var(o.dst[k]) = n)
         ELSE Age(env[n])]

(* What the destination with number k of the instruction receives. *)
Result(k) == CASE Here.op = "copy" -> regs[RegOf(Here.src[1])]
               [] Here.op = "load" -> frame[Here.slot]
               [] OTHER -> Made(k)

MachineStep ==
  /\ regs' = [r \in Registers |->
       LET writes == { k \in DOMAIN Here.dst : RegOf(Here.dst[k]) = r }
       IN IF writes # {} THEN Result(Max(writes))
          ELSE IF Here.op = "copy" THEN regs[r] ELSE Age(regs[r])]
  /\ frame' = [s \in DOMAIN frame |->
       IF Here.op = "store" /\ s = Here.slot THEN regs[RegOf(Here.src[1])]
       ELSE IF Here.op = "constStore" /\ s = Here.slot THEN Made(1)
       ELSE Age(frame[s])]

Advance ==
  IF at[2] < Len(code[at[1]]) THEN at' = << at[1], at[2] + 1 >>
  ELSE \/ \E s \in function.succ[at[1]] : at' = EntryPoints(s)
       \/ function.succ[at[1]] = {} /\ at' = << 0, 0 >>

Execute ==
  /\ Running
  /\ IF at[2] = 0 THEN UNCHANGED << env, regs, frame >> ELSE SourceStep /\ MachineStep
  /\ Advance
  /\ UNCHANGED vars

RunNext == (Next /\ UNCHANGED runVars) \/ Enter \/ Execute
RunSpec == RunInit /\ [][RunNext]_<< vars, runVars >> /\ WF_vars(Next)

-----------------------------------------------------------------------------
(* The functions whose structures are shared the way those of temporaries  *)
(* are: emit_temp_var makes one that all its readers share, emit_var one   *)
(* for each mention. No later block mentions what is read, and the value   *)
(* it is read for is not assigned before the block mentions it again,      *)
(* unless by the same instruction through the structure itself, as in what *)
(* the selector makes of a shift: move into the temporary, update it, move *)
(* out of it.                                                              *)
Operands(i) == SeqSet(i.src) \cup SeqSet(i.dst)
Sets(f, i) == { f.name[v] : v \in SeqSet(i.dst) }

Numbered(f) ==
  \A b, c \in DOMAIN f.blocks : \A p \in DOMAIN f.blocks[b], q \in DOMAIN f.blocks[c] :
    f.blocks[b][p].id = f.blocks[c][q].id => b = c /\ p = q

SourceKinds(f) ==
  \A b \in DOMAIN f.blocks : \A p \in DOMAIN f.blocks[b] :
    LET i == f.blocks[b][p] IN
    /\ i.id # 0 /\ i.op \in {"copy", "const", "op"}
    /\ i.op = "copy" => Len(i.src) = 1
    /\ i.op = "const" => i.src = << >>

ReadInLastBlock(f) ==
  \A b, c \in DOMAIN f.blocks : b < c => \A p \in DOMAIN f.blocks[b], q \in DOMAIN f.blocks[c] :
    SeqSet(Read(f.blocks[b][p])) \cap Operands(f.blocks[c][q]) = {}

SettledAfter(f, b, p, v) ==
  \A q \in DOMAIN f.blocks[b] : p < q /\ v \in Operands(f.blocks[b][q]) =>
    /\ v \notin SeqSet(f.blocks[b][q].dst)
    /\ \A m \in p .. q : \/ m = p /\ v \in SeqSet(f.blocks[b][p].dst)
                         \/ f.name[v] \notin Sets(f, f.blocks[b][m])
ReadWhenSettled(f) ==
  \A b \in DOMAIN f.blocks : \A p \in DOMAIN f.blocks[b] :
    \A v \in SeqSet(Read(f.blocks[b][p])) : SettledAfter(f, b, p, v)
(* No structure is updated, or has been written in another block: what is  *)
(* written is settled, too.                                                *)
WrittenWhenSettled(f) ==
  /\ \A b, c \in DOMAIN f.blocks : b < c => \A p \in DOMAIN f.blocks[b], q \in DOMAIN f.blocks[c] :
       Operands(f.blocks[b][p]) \cap Operands(f.blocks[c][q]) = {}
  /\ \A b \in DOMAIN f.blocks : \A p \in DOMAIN f.blocks[b] :
       \A v \in Operands(f.blocks[b][p]) : SettledAfter(f, b, p, v)

(* What an instruction writes besides its first destination is a register  *)
(* of its own.                                                             *)
HomesApart(f) ==
  /\ \A b \in DOMAIN f.blocks : \A p \in DOMAIN f.blocks[b] :
       Len(f.blocks[b][p].dst) = 2 =>
         LET first == f.home[f.name[f.blocks[b][p].dst[1]]]
             second == f.home[f.name[f.blocks[b][p].dst[2]]]
         IN first # NoReg /\ second # NoReg /\ first # second

(* Only the stack pointer is in its register, and the parameters are in    *)
(* different ones.                                                         *)
ParametersApart(f) ==
  /\ \A n \in DOMAIN f.home : f.home[n] = RSP => n = SP
  /\ f.params \subseteq DOMAIN f.home \ {SP}
  /\ \A n, m \in f.params : f.home[n] # NoReg /\ (f.home[n] = f.home[m] => n = m)

(* The stack pointer moves, or is copied, never both: a copy of it is      *)
(* coalesced with it.                                                      *)
StackPointerFixed(f) ==
  \/ \A b \in DOMAIN f.blocks : \A p \in DOMAIN f.blocks[b] : SP \notin Sets(f, f.blocks[b][p])
  \/ \A b \in DOMAIN f.blocks : \A p \in DOMAIN f.blocks[b] :
       f.blocks[b][p].op = "copy" => f.name[f.blocks[b][p].src[1]] # SP

Disciplined(f) ==
  /\ f.blocks # << >>
  /\ Numbered(f) /\ SourceKinds(f) /\ ReadInLastBlock(f) /\ ReadWhenSettled(f)
  /\ HomesApart(f) /\ ParametersApart(f) /\ StackPointerFixed(f)

-----------------------------------------------------------------------------
(* Whatever path is taken, every register and every stack slot an          *)
(* instruction reads holds the value that its variable has at this point   *)
(* of the source.                                                          *)
UsesSeeTheirValues ==
  Running /\ at[2] # 0 /\ Here.id # 0 =>
    /\ \A k \in DOMAIN Here.src :
         RegOf(Here.src[k]) # NoReg /\ regs[RegOf(Here.src[k])] = env[Var(Original.src[k])]
    /\ Here.both =>
         RegOf(Here.dst[1]) # NoReg /\ regs[RegOf(Here.dst[1])] = env[Var(Original.dst[1])]
    /\ Here.op = "load" => frame[Here.slot] = env[Var(Original.src[1])]
=============================================================================
