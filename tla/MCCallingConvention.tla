------------------------ MODULE MCCallingConvention ------------------------
(* Programs of three functions, a leaf, its caller and the caller of both, *)
(* with two result or scratch registers, the two dummies, and one more     *)
(* that is callee saved.                                                   *)
EXTENDS CallingConvention

CONSTANT Family     \* the programs of a run

RAX == 1
RCX == 2
R8 == 6
R12 == 10
R13 == 11

Put(r) == [op |-> "set", reg |-> r]
Use(r) == [op |-> "use", reg |-> r]
Quit == [op |-> "leave"]
Copy(seen) == [op |-> "copy", seen |-> seen]
Param(k) == [op |-> "param", k |-> k]
CallTo(g, dst) == [op |-> "call", callee |-> g, dst |-> dst, indirect |-> FALSE]
CallBy(g, dst) == [op |-> "call", callee |-> g, dst |-> dst, indirect |-> TRUE]
Fn(body, locals, params) == [body |-> body, locals |-> locals, params |-> params]

(* The leaf assigns some registers, may copy, and may take parameters from *)
(* the stack, the second of them at the end of its cells.                  *)
Leaves ==
  { Fn(sets \o copy \o << Use(sets[1].reg) >>, locals, 0) :
      sets \in { << Put(RAX) >>, << Put(RCX), Put(R12) >>, << Put(R12), Put(R13) >>,
                 << Put(RAX), Put(RCX), Put(R13) >> },
      copy \in { << >>, << Copy("parser") >> }, locals \in {0, 2} }
  \cup { Fn(<< Put(r), Quit, Param(0), Param(1), Use(r) >>, locals, 2) : r \in {RCX, R13}, locals \in {0, 1} }

(* It keeps a value in x, and perhaps one in RAX, while it calls the leaf  *)
(* once or twice, itself, or the leaf through a pointer.                   *)
Middles ==
  { Fn(<< Put(x) >> \o calls \o << Use(x) >>, locals, 0) :
      x \in {RCX, R8, R13}, locals \in {0, 1},
      calls \in { << CallTo(1, RAX) >>, << Put(RAX), CallTo(1, 0), Use(RAX), CallTo(1, RAX), Use(RAX) >>,
                  << CallBy(1, RAX) >>, << Quit, CallTo(2, RAX), CallTo(1, 0) >>,
                  << Put(RAX), Quit, CallBy(1, 0), Use(RAX) >> } }

Mains ==
  { Fn(<< Put(RCX), Put(R12) >> \o calls \o << Use(RCX), Use(R12) >>, 0, 0) :
      calls \in { << CallTo(2, RAX) >>, << CallTo(2, 0), Copy("cfg"), Quit, CallTo(1, RAX) >>,
                  << CallBy(2, RAX), Quit, CallTo(1, RAX) >> } }

Bottom == { << l, m, n >> : l \in Leaves, m \in Middles, n \in Mains }

(* A value in RCX, a callee that leaves RCX to its own callee. *)
Nested ==
  { << Fn(<< Put(RCX), Use(RCX) >>, 0, 0), Fn(<< CallTo(1, 0) >>, 0, 0),
       Fn(<< Put(RCX), CallTo(2, 0), Use(RCX) >>, 0, 0) >> }

(* A function that is called with two parameters on the stack, needs no    *)
(* stack of its own, and restores R13.                                     *)
Passing ==
  { << Fn(<< Put(R13), Param(0), Param(1), Use(R13) >>, 0, 2), Fn(<< CallTo(1, 0) >>, 0, 0) >> }

(* A copy that only the cfg sees, or nobody, in a function that is called  *)
(* by one without a stack of its own.                                      *)
Unseen ==
  { << Fn(<< Copy(seen) >>, 2, 0), Fn(<< CallTo(1, 0) >>, 0, 0) >> : seen \in {"cfg", "nobody"} }

MCPrograms ==
  CASE Family = "bottom" -> { p \in Bottom : KnownToCallers(p) /\ ParametersOffset(p) /\ CopiesSeen(p) }
    [] Family = "nested" -> Nested
    [] Family = "passing" -> Passing
    [] Family = "unseen" -> Unseen
=============================================================================
