-------------------------- MODULE MCAllocatedCode --------------------------
(* Functions small enough to explore and short enough of registers to be   *)
(* coalesced, precoloured and spilled in every way the allocator knows.    *)
EXTENDS AllocatedCode, TLC

CONSTANT Family     \* the functions of a run

I(id, op, src, dst) == [ id |-> id, op |-> op, src |-> src, dst |-> dst, both |-> FALSE,
                         pinned |-> FALSE, slot |-> 0 ]
Const(id, d) == I(id, "const", << >>, << d >>)
Copy(id, d, s) == I(id, "copy", << s >>, << d >>)
Pinned(id, d, s) == [Copy(id, d, s) EXCEPT !.pinned = TRUE]
Do(id, src, dst) == I(id, "op", src, dst)
Update(id, d, s) == [Do(id, s, << d >>) EXCEPT !.both = TRUE]
Use(id, src) == I(id, "op", src, << >>)

(* Straight-line code over three variables: each is assigned, then two     *)
(* instructions of any kind follow, and two variables are used at the end. *)
(* Instruction n mentions the variable structures 3n+1 to 3n+3.            *)
Kinds == {"const", "copy", "update", "op"}
Middle(id, kind) ==
  CASE kind = "const" -> Const(id, 3 * id + 1)
    [] kind = "copy" -> Copy(id, 3 * id + 1, 3 * id + 2)
    [] kind = "update" -> Update(id, 3 * id + 1, << 3 * id + 2 >>)
    [] kind = "op" -> Do(id, << 3 * id + 2, 3 * id + 3 >>, << 3 * id + 1 >>)

(* a = 2, b = 3, c = 4 *)
Names == 2 .. 4
StraightLine ==
  { [ blocks |-> << << Const(1, 4), Const(2, 7), Do(3, << >>, << 10 >>),
                       Middle(4, k1), Middle(5, k2), Use(6, << 19, 20 >>) >> >>,
      succ   |-> << {} >>, freq |-> << 1 >>, ends |-> {1},
      name   |-> << 1, 1, 1, 2, 1, 1, 3, 1, 1, 4, 1, 1 >> \o m1 \o m2 \o u,
      home   |-> << RSP, 0, 0, 0 >>,
      params |-> {} ] :
    k1 \in Kinds \ {"const"}, k2 \in Kinds \ {"op"},
    m1 \in { << d, s, 4 >> : d \in Names, s \in Names \ {3} },
    m2 \in { << d, s, 2 >> : d \in Names, s \in Names \ {2} },
    u \in { << 2, 3 >>, << 2, 4 >> } }

(* x is assigned in both arms by copies of one variable, and k lives       *)
(* across; shared operands as temporaries have them.                       *)
Diamond ==
  { [ blocks |-> << << Const(1, 1), Const(2, 2), Use(3, << 1 >>) >>,
                    << Copy(4, 3, 1), Update(5, 4, << 2 >>) >>,
                    << Const(6, 5), Copy(7, 6, last) >>,
                    << Do(8, << 7, 8 >>, << 9 >>), Use(9, << 9, 2 >>) >> >>,
      succ   |-> << {2, 3}, {4}, {4}, {} >>, freq |-> << 1, 1, 1, 1 >>, ends |-> {4},
      name   |-> << 2, 3, 4, 4, 5, 4, 4, 3, 6, 5 >>,
      home   |-> << RSP, 0, 0, 0, 0, 0 >>, params |-> {} ] : last \in {1, 2, 10} }

(* A loop that carries x and y, swaps or rotates them through a copy, and  *)
(* leaves k alone.                                                         *)
Loop ==
  { [ blocks |-> << << Const(1, 1), Const(2, 2), Const(3, 3) >>,
                    << Use(4, << 4 >>) >>,
                    << Copy(5, 5, 6), Copy(6, 7, 8), Copy(7, 9, 10), body >>,
                    << Use(9, << 11, 12 >>) >> >>,
      succ   |-> << {2}, {3, 4}, {2}, {} >>, freq |-> << 1, f, f, 1 >>, ends |-> {4},
      name   |-> << 2, 3, 4, 2, 5, 2, 2, 3, 3, 5, u, 4, 3, 2, w >>,
      home   |-> << RSP, 0, 0, 0, 0 >>, params |-> {} ] :
    f \in {1, 10}, u \in {2, 3}, w \in {2, 4},
    body \in { Update(8, 13, << 14 >>), Do(8, << 14 >>, << 15 >>) } }

(* Parameters, a call between pinned moves, a division that writes two     *)
(* registers, and the address of the stack frame.                          *)
Precolored ==
  { [ blocks |-> << << Copy(1, 1, 2), Copy(2, 3, 4), Copy(3, 5, 6),
                       Do(4, << 7, 8 >>, << 9, 10 >>),
                       Copy(5, 11, 12), Copy(6, 13, 14), last, Use(8, << 15, 16 >>) >> >>,
      succ   |-> << {} >>, freq |-> << 1 >>, ends |-> {1},
      name   |-> << 2, 6, 3, 7, 4, 2, 4, 3, 8, 9, 5, 8, 10, 9, p, q, 10, 1 >>,
      home   |-> << RSP, 0, 0, 1, 0, 1, 2, 1, 2, 0 >>, params |-> {6, 7} ] :
    p \in {3, 5, 10}, q \in {2, 5, 10},
    last \in { Update(7, 17, << 14 >>), Copy(7, 17, 18), Const(7, 17) } }

StackAddress ==
  { [ blocks |-> << << Copy(1, 1, 2), first, Copy(3, 3, 4), Use(4, << 5, 6 >>), Use(5, << 9 >>) >> >>,
      succ   |-> << {} >>, freq |-> << 1 >>, ends |-> {1},
      name   |-> << 2, 1, 3, 2, 2, 3, 2, 1, 1 >>,
      home   |-> << RSP, 0, 0 >>, params |-> {} ] :
    first \in { Update(2, 7, << 8 >>), Use(2, << 7, 8 >>), Const(2, 7) } }

(* A parameter and an argument of a call share a register, and the         *)
(* variable that is copied from the one or into the other outlives it.     *)
Argument ==
  { [ blocks |-> << << first, Use(2, << 2 >>), Copy(3, 3, 4), Use(4, << 5, 6 >>) >> >>,
      succ   |-> << {} >>, freq |-> << 1 >>, ends |-> {1},
      name   |-> << 2, 3, 4, 2, 4, n, 3 >>,
      home   |-> << RSP, 0, 1, 1 >>, params |-> {3} ] :
    first \in { Const(1, 1), Copy(1, 1, 7) }, n \in {2, 4} }

(* A temporary is copied into, updated in place by one structure, as the   *)
(* selector's two-address instructions are, and read through it.           *)
Updated ==
  { [ blocks |-> << << Const(1, 1), Const(2, 2), Copy(3, 3, 4), first, Update(5, 3, << 6 >>),
                       last, Use(7, << 9, 10 >>) >> >>,
      succ   |-> << {} >>, freq |-> << 1 >>, ends |-> {1},
      name   |-> << 2, 3, 4, 2, u, u, 2, 5, u, w >>,
      home   |-> << RSP, 0, 0, 0, 0 >>, params |-> {} ] :
    u \in {2, 3}, w \in {2, 3, 5},
    first \in { Copy(4, 8, 7), Do(4, << 5, 7 >>, << 8 >>) },
    last \in { Copy(6, 8, 3), Do(6, << 3, 7 >>, << 8 >>) } }

(* A temporary is computed in one block and read in a later one, through   *)
(* the structure that it was written through.                              *)
Crossing ==
  { [ blocks |-> << << Const(1, 1), Const(2, 2), Do(3, << 3, 4 >>, << 5 >>) >>,
                    << Update(4, 6, << 7 >>) >>,
                    << Copy(5, 8, 9) >>,
                    << Use(6, << 5, 10 >>) >> >>,
      succ   |-> next, freq |-> << 1, 1, 1, 1 >>, ends |-> {4},
      name   |-> << 2, 3, 2, 3, 4, u, 3, 3, 2, w >>,
      home   |-> << RSP, 0, 0, 0 >>, params |-> {} ] :
    u \in {2, 4}, w \in {2, 3},
    next \in { << {2, 3}, {4}, {4}, {} >>, << {2}, {3}, {2, 4}, {} >> } }

(* A loop without a way out: k is used at its top, and t after that. *)
Trapping ==
  { [ blocks |-> << << Const(1, 1) >>, << Use(2, << 2 >>), Const(3, 3), Use(4, << 4 >>) >>,
                    << >> >>,
      succ   |-> << {2}, {2}, {} >>, freq |-> << 1, 10, 1 >>, ends |-> {3},
      name   |-> << 2, 2, 3, 3 >>, home |-> << RSP, 0, 0 >>, params |-> {} ] }

(* Three variables and two registers, no instruction that needs three:     *)
(* c is spilled, and is updated while a and b, which are used more often,  *)
(* are live.                                                               *)
Crowded ==
  { [ blocks |-> << << Const(1, 1), Const(2, 2), Const(3, 3), Update(4, 4, << 5 >>),
                       Use(5, << 6, 7 >>), Use(6, << 8, 9 >>), Use(7, << 10, 11 >>),
                       Use(8, << 12, 13 >>), Use(9, << 14, 15 >>), Use(10, << 16, 17 >>) >> >>,
      succ   |-> << {} >>, freq |-> << 1 >>, ends |-> {1},
      name   |-> << 2, 3, 4, 4, 4, 2, 3, 2, 3, 2, 3, 2, 3, 2, 3, 2, 4 >>,
      home   |-> << RSP, 0, 0, 0 >>, params |-> {} ] }

MCFunctions ==
  CASE Family = "all" -> StraightLine \cup Diamond \cup Loop \cup Precolored \cup StackAddress
                            \cup Argument \cup Updated \cup Crossing
    [] Family = "trapping" -> Trapping
    [] Family = "crowded" -> Crowded

(* What AllocatedCodeComputes supposes of a function holds of every family *)
(* where no block mentions a structure that an earlier one reads.          *)
ASSUME FamiliesAreDisciplined ==
  \A f \in StraightLine \cup Loop \cup Precolored \cup StackAddress \cup Argument
            \cup Updated \cup Crossing \cup Crowded :
    Disciplined(f)
=============================================================================
