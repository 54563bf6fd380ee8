---------------------------- MODULE OllieSource ----------------------------
(***************************************************************************)
(* What a function of the Ollie language means, statement by statement:    *)
(* the reference against which the compiler's code is run.                 *)
(*                                                                         *)
(* A function is a sequence of statements.  A run of it is seen through    *)
(* its events: it asks (calls a function whose answer the environment      *)
(* chooses), tries (calls a function that may raise), uses a value (passes *)
(* it to a call), returns or raises.                                       *)
(*                                                                         *)
(* Two rules are taken from the compiler because no document states them:  *)
(* "continue" in a do-while goes to the top of the body without testing    *)
(* the condition, and "break" in an ollie switch leaves the loop around    *)
(* the switch.                                                             *)
(***************************************************************************)
EXTENDS OllieValues, Sequences, SequencesExt, TLC

---------------------------------------------------------------------------
(* Expressions, conditions and statements are records with a tag k.        *)

Num(n) == [k |-> "num", n |-> n]
Var(v) == [k |-> "var", v |-> v]
Ask(q) == [k |-> "ask", q |-> q]
Sum(l, r) == [k |-> "sum", l |-> l, r |-> r]
Asg(v, e) == [k |-> "asg", v |-> v, e |-> e]        \* an assignment used as a value
Tern(c, a, b) == [k |-> "tern", c |-> c, a |-> a, b |-> b]
(* A call with a handle clause: on error i, on[i]; every other error goes  *)
(* to the handler of the generic error, number 1.                          *)
Try(q, on) == [k |-> "try", q |-> q, on |-> on]
Eq(v, n) == [k |-> "eq", v |-> v, n |-> n]
Feq(v, n) == [k |-> "feq", v |-> v, n |-> n]        \* of a floating point variable
And(l, r) == [k |-> "and", l |-> l, r |-> r]
Or(l, r) == [k |-> "or", l |-> l, r |-> r]

Set(v, e) == [k |-> "set", v |-> v, e |-> e]
Let(v, e) == [k |-> "let", v |-> v, e |-> e]
Declare(v) == [k |-> "declare", v |-> v]
Use(e) == [k |-> "use", e |-> e]
If(arms, else) == [k |-> "if", arms |-> arms, else |-> else]     \* arms: << << c, body >>, ... >>
NoElse == << [k |-> "noelse"] >>
While(c, body) == [k |-> "while", c |-> c, body |-> body]
DoWhile(body, c) == [k |-> "dowhile", c |-> c, body |-> body]
Forever(body) == [k |-> "loop", body |-> body]
For(init, c, update, body) ==
  [k |-> "for", init |-> init, c |-> c, update |-> update, body |-> body]
Break == [k |-> "break"]
BreakWhen(c) == [k |-> "breakwhen", c |-> c]
Continue == [k |-> "continue"]
ContinueWhen(c) == [k |-> "continuewhen", c |-> c]
Ret(e) == [k |-> "ret", e |-> e]
Raise(n) == [k |-> "raise", n |-> n]
Label(l) == [k |-> "label", l |-> l]
Jump(l) == [k |-> "jump", l |-> l]
JumpWhen(l, c) == [k |-> "jumpwhen", l |-> l, c |-> c]
Compound(body) == [k |-> "compound", body |-> body]
(* cases: << << value, body >>, ... >>.  An exhaustive switch covers every  *)
(* value of its enum type.                                                 *)
Switch(style, exhaustive, e, cases) ==
  [k |-> "switch", style |-> style, exhaustive |-> exhaustive, e |-> e, cases |-> cases]

---------------------------------------------------------------------------
(* A run: what is left to do, the variables, the event it waits at, and    *)
(* where an answer goes.  It notes reads of variables without a value and  *)
(* second assignments to variables that have one.                          *)

Start(function) ==
  [ todo |-> function, env |-> << >>, ev |-> << "start" >>, into |-> << >>, body |-> function,
    undef |-> FALSE, again |-> {} ]

Value(m, v) == IF v \in DOMAIN m.env THEN m.env[v] ELSE Undef
Store(m, v, x) ==
  [m EXCEPT !.env = (v :> x) @@ @, !.again = IF Value(m, v) # Undef THEN @ \cup {v} ELSE @]
Forget(m, v) == [m EXCEPT !.env = (v :> Undef) @@ @]
Reads(m, v) == [m EXCEPT !.undef = @ \/ Value(m, v) = Undef]
Plus(x, y) == IF x = Undef \/ y = Undef THEN Undef ELSE (x + y) % Size

(* Variables the compiler never sees hold what the operands of an          *)
(* expression, a condition and a call that may raise are worth.            *)
Result(d) == 0 - 10 - d
Outcome == 10
Error == Result(20)
Eval(e, d) == [k |-> "eval", e |-> e, d |-> d]
(* Goes to the statements yes or no. *)
Test(c, yes, no) == [k |-> "test", c |-> c, yes |-> yes, no |-> no]
TestResult(yes, no) == [k |-> "testresult", yes |-> yes, no |-> no]
Add(d) == [k |-> "add", d |-> d]
Into(v, d) == [k |-> "into", v |-> v, d |-> d]
UseResult == [k |-> "useresult"]
RetResult == [k |-> "retresult"]
Choose(s) == [k |-> "choose", s |-> s]
Dispatch(e) == [k |-> "dispatch", e |-> e]
(* The end of a loop's body: what follows it, and what continue does.      *)
LoopEnd(next, again) == [k |-> "loopend", next |-> next, again |-> again]
SwitchEnd == [k |-> "switchend"]

IsLoopEnd(s) == s.k = "loopend"
IsBreakable(s) == s.k \in {"loopend", "switchend"}

CaseIndex(s, x) ==
  LET hit == SelectInSeq(s.cases, LAMBDA c : c[1] = x)
  IN IF hit # 0 THEN hit ELSE SelectInSeq(s.cases, LAMBDA c : c[1] = Default)

(* The statements a switch runs on the value x. *)
Chosen(s, x) ==
  LET i == CaseIndex(s, x) IN
  IF i = 0 THEN << >>
  ELSE IF s.style = "ollie" THEN s.cases[i][2]
  ELSE FlattenSeq([j \in 1 .. Len(s.cases) - i + 1 |-> s.cases[i + j - 1][2]]) \o << SwitchEnd >>

(* The statements after a label of the function's own statement list.      *)
From(body, l) ==
  SubSeq(body, SelectInSeq(body, LAMBDA s : s.k = "label" /\ s.l = l), Len(body))

At(m, event) == [m EXCEPT !.ev = event]
Goto(m, todo) == [m EXCEPT !.todo = todo]

Step(m) ==
  LET s == Head(m.todo)
      rest == Tail(m.todo)
      r == Value(m, Result(0))
      do(todo) == Goto(m, todo \o rest)
      done(n) == Goto(n, rest)
      skip(test(_)) == SubSeq(m.todo, SelectInSeq(m.todo, test) + 1, Len(m.todo))
  IN
  CASE s.k = "eval" /\ s.e.k = "num" -> done([m EXCEPT !.env = (Result(s.d) :> s.e.n) @@ @])
    [] s.k = "eval" /\ s.e.k = "var" ->
         done(Reads([m EXCEPT !.env = (Result(s.d) :> Value(m, s.e.v)) @@ @], s.e.v))
    [] s.k = "eval" /\ s.e.k = "ask" -> At(done([m EXCEPT !.into = << Result(s.d) >>]), << "ask", s.e.q >>)
    [] s.k = "eval" /\ s.e.k = "sum" -> do(<< Eval(s.e.l, s.d), Eval(s.e.r, s.d + 1), Add(s.d) >>)
    [] s.k = "eval" /\ s.e.k = "asg" -> do(<< Eval(s.e.e, s.d), Into(s.e.v, s.d), Eval(Var(s.e.v), s.d) >>)
    [] s.k = "eval" /\ s.e.k \in {"eq", "feq"} ->
         done(Reads([m EXCEPT !.env = (Result(s.d) :> IF Value(m, s.e.v) = s.e.n THEN 1 ELSE 0) @@ @],
                    s.e.v))
    [] s.k = "eval" /\ s.e.k = "tern" ->
         do(<< Test(s.e.c, << Eval(s.e.a, s.d) >>, << Eval(s.e.b, s.d) >>) >>)
    [] s.k = "eval" /\ s.e.k = "try" ->
         At(do(<< Dispatch(s.e) >>) , << "try", s.e.q >>)
    [] s.k = "add" ->
         done([m EXCEPT !.env =
           (Result(s.d) :> Plus(Value(m, Result(s.d)), Value(m, Result(s.d + 1)))) @@ @])
    [] s.k = "dispatch" ->
         LET error == Value(m, Error)
             handler == IF error \in DOMAIN s.e.on THEN s.e.on[error] ELSE s.e.on[1]
         IN IF error = 0 THEN done(m) ELSE do(handler)
    [] s.k \in {"set", "let"} ->
         Goto(IF s.k = "let" THEN Forget(m, s.v) ELSE m, << Eval(s.e, 0), Into(s.v, 0) >> \o rest)
    [] s.k = "into" -> done(Store(m, s.v, Value(m, Result(s.d))))
    [] s.k = "declare" -> done(Forget(m, s.v))
    [] s.k = "use" -> do(<< Eval(s.e, 0), UseResult >>)
    [] s.k = "useresult" -> At(done(m), << "use", r >>)
    [] s.k = "ret" -> do(<< Eval(s.e, 0), RetResult >>)
    [] s.k = "retresult" -> At(Goto(m, << >>), << "ret", r >>)
    [] s.k = "raise" -> At(Goto(m, << >>), << "raise", s.n >>)
    [] s.k = "test" /\ s.c.k = "and" -> do(<< Test(s.c.l, << Test(s.c.r, s.yes, s.no) >>, s.no) >>)
    [] s.k = "test" /\ s.c.k = "or" -> do(<< Test(s.c.l, s.yes, << Test(s.c.r, s.yes, s.no) >>) >>)
    [] s.k = "test" /\ s.c.k \notin {"and", "or"} -> do(<< Eval(s.c, Outcome), TestResult(s.yes, s.no) >>)
    [] s.k = "testresult" -> do(IF Value(m, Result(Outcome)) # 0 THEN s.yes ELSE s.no)
    [] s.k = "if" ->
         LET more == IF Len(s.arms) > 1 THEN << [s EXCEPT !.arms = Tail(@)] >>
                     ELSE IF s.else = NoElse THEN << >> ELSE s.else
         IN do(<< Test(s.arms[1][1], s.arms[1][2], more) >>)
    [] s.k = "while" -> do(<< Test(s.c, s.body \o << LoopEnd(<< s >>, << s >>) >>, << >>) >>)
    [] s.k = "loop" -> do(s.body \o << LoopEnd(<< s >>, << s >>) >>)
    [] s.k = "dowhile" -> do(s.body \o << LoopEnd(<< Test(s.c, << s >>, << >>) >>, << s >>) >>)
    [] s.k = "for" ->
         LET next == s.update \o << [s EXCEPT !.init = << >>] >>
         IN do(s.init \o << Test(s.c, s.body \o << LoopEnd(next, next) >>, << >>) >>)
    [] s.k = "loopend" -> do(s.next)
    [] s.k = "switchend" -> done(m)
    [] s.k = "break" -> Goto(m, skip(IsBreakable))
    [] s.k = "continue" ->
         LET i == SelectInSeq(m.todo, IsLoopEnd)
         IN Goto(m, m.todo[i].again \o SubSeq(m.todo, i + 1, Len(m.todo)))
    [] s.k = "breakwhen" -> do(<< Test(s.c, << Break >>, << >>) >>)
    [] s.k = "continuewhen" -> do(<< Test(s.c, << Continue >>, << >>) >>)
    [] s.k = "label" -> done(m)
    [] s.k = "jump" -> Goto(m, From(m.body, s.l))
    [] s.k = "jumpwhen" -> do(<< Test(s.c, << Jump(s.l) >>, << >>) >>)
    [] s.k = "compound" -> do(s.body)
    [] s.k = "switch" -> do(<< Eval(s.e, 0), Choose(s) >>)
    [] s.k = "choose" -> do(Chosen(s.s, r))
    [] s.k = "noelse" -> done(m)

Final == { << "ret", x >> : x \in Undef .. Size } \cup { << "raise", x >> : x \in Undef .. Size }
           \cup { << "spin" >> }

(* Runs on to the next event.  A function that falls off its end returns 0. *)
RECURSIVE RunOn(_, _)
RunOn(m, fuel) ==
  IF m.ev # << >> THEN m
  ELSE IF m.todo = << >> THEN At(m, << "ret", 0 >>)
  ELSE IF fuel = 0 THEN At(Goto(m, << >>), << "spin" >>)
  ELSE RunOn(Step(m), fuel - 1)

(* The answer to an event: of a call that may raise, the error it returns. *)
Answered(m, a) ==
  LET n == [m EXCEPT !.ev = << >>, !.into = << >>]
  IN RunOn(IF m.ev[1] = "ask" THEN [n EXCEPT !.env = (m.into[1] :> a) @@ @]
           ELSE IF m.ev[1] = "try"
           THEN [n EXCEPT !.env = (Error :> a) @@ (Result(0) :> 1) @@ @]
           ELSE n, Fuel)
=============================================================================
