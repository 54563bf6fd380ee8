---------------------------- MODULE MCCompilation ----------------------------
(***************************************************************************)
(* The functions that are compiled: small bodies that put every statement, *)
(* condition and expression of the model in the places that matter.  All   *)
(* start with two variables that hold answers and end with a use of both.  *)
(*                                                                         *)
(* Left out of the passing run are the forms the compiler is known to get  *)
(* wrong, see the README: loops without a way out, the same expression in  *)
(* two branches, statements after an if whose arms all leave, chains of    *)
(* tests that only assign one variable.                                    *)
(***************************************************************************)
EXTENDS Compilation

Floating == 9
MCAnswers == [q \in 1 .. 9 |-> IF q = Floating THEN {0, Unordered} ELSE {0, 1}]

Before == << Let(1, Ask(1)), Let(2, Ask(2)) >>
After == << Use(Sum(Var(1), Var(2))) >>
Function(statements) == [mutable |-> {1, 2, 3}, body |-> Before \o statements \o After]

One(i) == << i >>
OneArm(c, a, else) == If(<< << c, a >> >>, else)

---------------------------------------------------------------------------
Conditions ==
  { Eq(1, 0), Var(2), Num(1), Num(0), Asg(1, Var(2)), Tern(Eq(1, 0), Var(2), Num(0)), Sum(Asg(1, Ask(5)), Var(1)),
    And(Num(1), Eq(2, 0)), And(Asg(2, Num(0)), Var(1)), Or(Num(1), Var(1)), And(Eq(1, 0), Eq(2, 0)),
    Or(Eq(1, 0), Eq(2, 0)), And(Or(Eq(1, 0), Eq(2, 0)), Ask(3)) }

Thens == { << Use(Var(1)) >>, << Set(1, Sum(Var(1), Num(1))) >>, << Set(1, Num(2)) >>, << Ret(Var(1)) >>, << Raise(2) >>,
           << Compound(<< Set(1, Num(2)) >>) >> }
Elses == { NoElse, << Use(Num(2)) >>, << Set(1, Var(2)) >>, << Set(2, Num(0)) >> }
Ifs == { OneArm(c, a, e) : c \in Conditions, a \in Thens, e \in Elses }
       \cup { OneArm(Eq(1, 0), << Use(Var(2)) >>, e) : e \in { << Ret(Num(1)) >>, << Raise(1) >> } }

Seconds == { << Use(Var(2)) >>, << Set(2, Sum(Var(2), Num(2))) >>, << Ret(Num(0)) >> }
Chains == { If(<< << Eq(1, 0), a >>, << Eq(2, 1), b >> >>, e) : a \in Thens, b \in Seconds, e \in {NoElse, << Use(Num(2)) >>} }

NotEqual == { OneArm(Feq(1, 0), a, e) : a \in { << Use(Num(1)) >>, << Ret(Num(1)) >> }, e \in { NoElse, << Use(Num(2)) >> } }
Floats == { << Set(1, Ask(Floating)), i, Set(1, Num(1)) >> : i \in NotEqual }

---------------------------------------------------------------------------
Bodies ==
  { << Use(Var(1)) >>, << Set(1, Sum(Var(1), Num(1))) >>, << Set(1, Ask(2)), ContinueWhen(Eq(1, 1)), Use(Var(1)) >>,
    << BreakWhen(Eq(1, 0)), Use(Num(1)) >>, << OneArm(Var(2), One(Break), NoElse), Set(1, Ask(2)) >>,
    << OneArm(Var(2), << Set(1, Ask(4)), Continue >>, NoElse), Set(1, Ask(2)) >>,
    << OneArm(Eq(2, 0), << Ret(Var(1)) >>, << Set(2, Num(0)) >>), Set(1, Ask(2)) >>,
    << Let(3, Ask(4)), Set(1, Var(3)) >> }
Leaving == { << Use(Num(1)), Break >>, << Ret(Var(1)) >>, << Use(Num(1)), Continue >> }
Loops ==
  { While(Eq(1, 1), b) : b \in Bodies \cup Leaving } \cup { DoWhile(b, Eq(1, 1)) : b \in Bodies }
  \cup { For(<< Set(2, Num(0)) >>, Eq(2, 0), << Set(2, Ask(3)) >>, b) : b \in Bodies \cup Leaving }
  \cup { Forever(b \o << BreakWhen(Eq(2, 1)), Set(2, Ask(3)) >>) : b \in Bodies }
Nested == { While(Eq(1, 1), << i, Set(1, Ask(2)) >>) : i \in
              { While(Var(2), << OneArm(Eq(1, 0), One(x), NoElse), Set(2, Ask(3)) >>) : x \in { Break, Continue, Ret(Num(2)) } } }

---------------------------------------------------------------------------
FirstCases == { << Use(Var(2)) >>, << Ret(Var(1)) >> }
CaseBodies == { << Use(Var(2)) >>, << Set(2, Num(1)) >>, << Ret(Var(1)) >> }
Switches ==
  { Switch(style, FALSE, Var(1), << << 0, a >>, << 1, b >>, << Default, << Use(Num(3)) >> >> >>) :
      style \in {"ollie", "c"}, a \in FirstCases, b \in CaseBodies }
  \cup { Switch("c", FALSE, Var(1), << << 0, << Set(2, Num(1)) >> >>, << 1, << Use(Var(2)) >> >>, << Default, << Use(Num(3)) >> >> >>) }
  \cup { Switch("ollie", FALSE, Var(1), << << 0, << Set(2, Num(1)) >> >>, << 1, a >>, << Default, << Use(Num(3)) >> >> >>) : a \in CaseBodies }
  \cup { Switch("c", FALSE, Var(1), << << 0, << Set(2, Num(1)), Break >> >>, << 1, a >>, << Default, b >> >>) :
           a \in CaseBodies, b \in { << Use(Num(3)) >>, << Ret(Num(0)) >> } }
  \cup { Switch(style, TRUE, Var(1), << << 0, a >>, << 1, b >>, << 2, << Use(Num(3)) >> >> >>) :
           style \in {"ollie", "c"}, a \in FirstCases, b \in CaseBodies }
  \cup { Switch("ollie", TRUE, Var(1), << << 0, << Set(2, Num(1)) >> >>, << 1, << Set(2, Var(1)) >> >>, << 2, << Ret(Num(1)) >> >> >>) }

Handler == Try(4, (1 :> << Eval(Num(2), 0) >>) @@ (2 :> << Ret(Num(1)) >>))
Expressions ==
  { Tern(Eq(1, 0), Sum(Var(2), Num(1)), Ask(3)), Tern(Num(1), Var(2), Var(1)), Sum(Var(1), Asg(1, Num(2))),
    Sum(Asg(1, Num(2)), Var(1)), Sum(Var(1), Ask(3)), Handler, Try(4, (1 :> << Raise(1) >>)) }
Assignments ==
  { << Set(2, e), OneArm(Var(2), << Use(Var(1)) >>, NoElse) >> : e \in Expressions }
  \cup { << Let(3, e), Use(Var(3)) >> : e \in Expressions }

Jumps ==
  { << Use(Num(0)), Label(1), Set(1, Sum(Var(1), Num(1))), JumpWhen(1, Eq(1, 0)), Use(Var(1)) >>,
    << JumpWhen(1, Eq(1, 0)), Set(1, Num(2)), Label(1), Use(Var(1)) >>,
    << JumpWhen(1, Or(Eq(1, 0), Eq(2, 0))), Set(1, Num(2)), JumpWhen(2, Ask(3)), Use(Num(1)), Label(1), Use(Var(1)), Label(2) >>,
    << OneArm(Eq(1, 0), << OneArm(Eq(2, 0), << Use(Num(1)) >>, << JumpWhen(2, Ask(3)) >>) >>, NoElse), Use(Var(1)), Label(2), Use(Var(2)) >> }

(* Functions the static analyzer has to judge: a variable without a value  *)
(* on some way, or one that is not mutable assigned again.                 *)
Judged ==
  { [mutable |-> {2}, body |-> << Declare(1), Let(2, Ask(2)) >> \o s \o After] : s \in
      { << OneArm(Var(2), << Set(1, Num(1)) >>, e) >> : e \in { NoElse, << Set(1, Num(2)), Use(Num(1)) >>, << Ret(Num(1)) >> } }
      \cup { << While(Var(2), << Set(1, Num(1)), Set(2, Ask(3)) >>) >>, << DoWhile(<< Set(1, Num(1)) >>, Var(2)) >>,
             << DoWhile(<< OneArm(Var(2), One(Break), NoElse), Set(1, Num(1)) >>, Num(0)) >>,
             << Set(1, Num(1)), OneArm(Var(2), << Set(1, Num(2)) >>, NoElse) >>,
             << Set(1, Num(1)), Use(Var(1)) >>, << OneArm(And(Var(2), Asg(1, Num(1))), << Use(Var(1)) >>, << Ret(Num(0)) >>) >>,
             << OneArm(Or(Var(2), Asg(1, Num(1))), << Use(Num(1)) >>, << Ret(Num(0)) >>) >>,
             << JumpWhen(1, Var(2)), Set(1, Num(1)), Label(1) >> } }
  \cup { [mutable |-> {1, 2}, body |-> Before \o << While(Var(2), << Let(3, Ask(4)), Use(Var(3)), Set(2, Ask(3)) >>) >> \o After] }

(* Two statements after each other, and one in the other. *)
Small ==
  { OneArm(Var(2), << Use(Var(1)) >>, << Set(1, Num(2)) >>), OneArm(Eq(1, 0), << Ret(Num(0)) >>, NoElse),
    OneArm(Or(Var(1), Eq(2, 0)), << Set(2, Num(2)) >>, << Set(1, Num(0)) >>),
    While(Eq(1, 1), << Set(1, Ask(4)) >>), While(Var(2), << Set(2, Num(0)), Use(Var(1)) >>),
    DoWhile(<< Use(Var(2)), Set(1, Ask(3)) >>, Var(1)), For(<< Set(2, Num(1)) >>, Var(2), << Set(2, Ask(3)) >>, << Use(Var(1)) >>),
    Forever(<< Set(2, Ask(3)), BreakWhen(Var(2)) >>),
    Switch("ollie", FALSE, Var(1), << << 0, << Set(2, Ask(4)) >> >>, << 1, << Use(Var(2)) >> >>, << Default, << Set(1, Num(0)) >> >> >>) }
Pairs == { << i, j >> : i \in Small, j \in Small }
Enclosed ==
  { << OneArm(Var(1), One(i), << Set(1, Num(1)) >>) >> : i \in Small } \cup { << OneArm(Var(1), << Use(Num(1)) >>, One(i)) >> : i \in Small }
  \cup { << While(Eq(1, 1), << i, Set(1, Ask(2)) >>) >> : i \in Small } \cup { << DoWhile(<< i, Set(1, Ask(2)) >>, Var(1)) >> : i \in Small }

MCPrograms ==
  { Function(One(i)) : i \in Ifs \cup Chains \cup Loops \cup Nested \cup Switches }
  \cup { Function(s) : s \in Floats \cup Assignments \cup Jumps \cup Pairs \cup Enclosed } \cup Judged

---------------------------------------------------------------------------
(* Both branches add one to the variable.                                  *)
TwoBranches ==
  { Function(<< OneArm(Eq(1, 0), << Use(Sum(Var(1), Num(1))) >>, << Use(Num(0)), Use(Sum(Var(1), Num(1))) >>) >>),
    Function(<< While(Eq(1, 1), << OneArm(Var(2), << Use(Sum(Var(1), Num(1))) >>, NoElse), Set(1, Ask(2)) >>),
                Use(Sum(Var(1), Num(1))) >>) }
  \cup { Function(<< OneArm(c, << Use(Sum(Var(1), Num(1))) >>, << Set(2, Sum(Var(1), Num(1))) >>) >>) : c \in Conditions }
=============================================================================
