----------------------- MODULE CallingConventionProofs -----------------------
(***************************************************************************)
(* CallingConvention for every program, any registers and any depth of the *)
(* calls.                                                                  *)
(*                                                                         *)
(* First the code it puts together: each instruction of a function can be  *)
(* given the height of the stack above the function's return address, and  *)
(* the registers whose values the cells and the registers hold, so that    *)
(* each instruction finds what it relies on and leads to what is claimed   *)
(* after it.  Then a run of code that is annotated so.                     *)
(***************************************************************************)
EXTENDS CallingConvention, NumberFacts, FiniteSetTheorems, SequenceTheorems, TLAPS

-----------------------------------------------------------------------------
(* Sequences. *)

LEMMA SortingExists ==
  ASSUME NEW S, S \subseteq Nat, IsFiniteSet(S)
  PROVE  \E s \in [1 .. Cardinality(S) -> S] : \A i, j \in DOMAIN s : i < j => s[i] < s[j]
<1> DEFINE Sorts(s, R, k) == s \in [1 .. k -> R] /\ \A i, j \in 1 .. k : i < j => s[i] < s[j]
           T == { k \in Nat : \A R \in SUBSET Nat :
                    IsFiniteSet(R) /\ Cardinality(R) = k => \E s : Sorts(s, R, k) }
<1>1. 0 \in T
  <2> SUFFICES ASSUME NEW R \in SUBSET Nat, IsFiniteSet(R), Cardinality(R) = 0
               PROVE  \E s : Sorts(s, R, 0)
    OBVIOUS
  <2>1. Sorts(<< >>, R, 0)
    OBVIOUS
  <2> QED
    BY <2>1
<1>2. ASSUME NEW k \in Nat, k \in T PROVE k + 1 \in T
  <2> SUFFICES ASSUME NEW R \in SUBSET Nat, IsFiniteSet(R), Cardinality(R) = k + 1
               PROVE  \E s : Sorts(s, R, k + 1)
    OBVIOUS
  <2>1. R # {}
    BY FS_EmptySet
  <2>2. PICK m \in R : \A x \in R : m <= x
    BY <2>1, SmallestExists
  <2>3. IsFiniteSet(R \ {m}) /\ Cardinality(R \ {m}) = k
    <3>1. IsFiniteSet(R \ {m}) /\ Cardinality(R \ {m}) = Cardinality(R) - 1
      BY FS_RemoveElement, Zenon
    <3> QED
      BY <3>1
  <2>4. PICK r : Sorts(r, R \ {m}, k)
    BY <1>2, <2>3
  <2> DEFINE s == [i \in 1 .. k + 1 |-> IF i = 1 THEN m ELSE r[i - 1]]
  <2>5. \A i \in 1 .. k + 1 : i # 1 => i - 1 \in 1 .. k /\ s[i] = r[i - 1]
    OBVIOUS
  <2>6. s[1] = m /\ s \in [1 .. k + 1 -> R]
    BY <2>4, <2>5
  <2> HIDE DEF s
  <2>7. ASSUME NEW i \in 1 .. k + 1, NEW j \in 1 .. k + 1, i < j PROVE s[i] < s[j]
    <3>1. j # 1 /\ s[j] = r[j - 1] /\ r[j - 1] \in R \ {m}
      BY <2>4, <2>5, <2>7
    <3>2. CASE i = 1
      <4>1. s[i] = m /\ m <= s[j] /\ m # s[j] /\ m \in Nat /\ s[j] \in Nat
        BY <2>2, <2>6, <3>1, <3>2
      <4> QED
        BY <4>1
    <3>3. CASE i # 1
      BY <2>4, <2>5, <2>7, <3>1, <3>3
    <3> QED
      BY <3>2, <3>3
  <2>8. Sorts(s, R, k + 1)
    BY <2>6, <2>7
  <2> QED
    BY <2>8
<1>3. Cardinality(S) \in Nat
  BY FS_CardinalityType
<1>4. Cardinality(S) \in T
  <2> HIDE DEF T
  <2> QED
    BY <1>1, <1>2, <1>3, Induction
<1>5. PICK s : Sorts(s, S, Cardinality(S))
  BY <1>4
<1>6. DOMAIN s = 1 .. Cardinality(S)
  BY <1>5
<1> QED
  BY <1>5, <1>6

LEMMA AscendingFacts ==
  ASSUME NEW S, S \subseteq Nat, IsFiniteSet(S)
  PROVE  /\ Ascending(S) \in Seq(S)
         /\ Len(Ascending(S)) = Cardinality(S)
         /\ Cardinality(S) \in Nat
         /\ \A x \in S : \E i \in 1 .. Cardinality(S) : Ascending(S)[i] = x
<1> DEFINE s == Ascending(S)
           n == Cardinality(S)
<1>1. s \in [1 .. n -> S] /\ \A i, j \in DOMAIN s : i < j => s[i] < s[j]
  BY SortingExists DEF Ascending
<1>2. n \in Nat
  BY FS_CardinalityType
<1>3. s \in Seq(S) /\ Len(s) = n
  BY <1>1, <1>2, SeqDef
<1> HIDE DEF s
<1>4. s \in Injection(1 .. n, S)
  <2>1. ASSUME NEW i \in 1 .. n, NEW j \in 1 .. n, s[i] = s[j] PROVE i = j
    <3>1. s[i] \in Nat /\ s[j] \in Nat /\ DOMAIN s = 1 .. n
      BY <1>1
    <3>2. ~ (i < j) /\ ~ (j < i)
      BY <1>1, <2>1, <3>1
    <3> QED
      BY <1>2, <3>2
  <2> QED
    BY <1>1, <2>1 DEF Injection, IsInjective
<1>5. IsFiniteSet(1 .. n) /\ Cardinality(1 .. n) = n
  BY <1>2, FS_Interval
<1>6. s \in Surjection(1 .. n, S)
  BY <1>4, <1>5, FS_Injection
<1>7. \A x \in S : \E i \in 1 .. n : s[i] = x
  BY <1>6 DEF Surjection
<1> QED
  BY <1>2, <1>3, <1>7 DEF s

LEMMA EachIsASequence ==
  ASSUME NEW op, NEW rs \in Seq(Registers)
  PROVE  /\ Each(op, rs) \in [1 .. Len(rs) -> { Instr(op, r) : r \in Registers }]
         /\ Each(op, rs) \in Seq({ Instr(op, r) : r \in Registers })
         /\ Len(Each(op, rs)) = Len(rs) /\ Len(rs) \in Nat
         /\ \A i \in 1 .. Len(rs) : Each(op, rs)[i] = Instr(op, rs[i])
<1>1. DOMAIN rs = 1 .. Len(rs) /\ Len(rs) \in Nat /\ \A i \in 1 .. Len(rs) : rs[i] \in Registers
  BY LenProperties, ElementOfSeq
<1>2. Each(op, rs) = [i \in 1 .. Len(rs) |-> Instr(op, rs[i])]
  BY <1>1 DEF Each
<1>3. \A i \in 1 .. Len(rs) : Instr(op, rs[i]) \in { Instr(op, r) : r \in Registers }
  BY <1>1
<1>4. Each(op, rs) \in [1 .. Len(rs) -> { Instr(op, r) : r \in Registers }]
  BY <1>2, <1>3
<1>5. Each(op, rs) \in Seq({ Instr(op, r) : r \in Registers })
  BY <1>1, <1>4, SeqDef
<1>6. Len(Each(op, rs)) = Len(rs)
  BY <1>1, <1>4, <1>5
<1>7. \A i \in 1 .. Len(rs) : Each(op, rs)[i] = Instr(op, rs[i])
  BY <1>2
<1> QED
  BY <1>1, <1>4, <1>5, <1>6, <1>7

LEMMA ReverseFacts ==
  ASSUME NEW S, NEW s \in Seq(S)
  PROVE  /\ Reverse(s) \in Seq(S) /\ Len(Reverse(s)) = Len(s) /\ Len(s) \in Nat
         /\ \A i \in 1 .. Len(s) : Len(s) - i + 1 \in 1 .. Len(s)
                                   /\ Reverse(s)[i] = s[Len(s) - i + 1] /\ s[i] \in S
<1>1. DOMAIN s = 1 .. Len(s) /\ Len(s) \in Nat /\ \A i \in 1 .. Len(s) : s[i] \in S
  BY LenProperties, ElementOfSeq
<1>2. \A i \in 1 .. Len(s) : (Len(s) - i) + 1 \in 1 .. Len(s) /\ Reverse(s)[i] = s[(Len(s) - i) + 1]
  BY <1>1 DEF Reverse
<1>3. Reverse(s) \in [1 .. Len(s) -> S]
  <2>1. \A i \in 1 .. Len(s) : s[(Len(s) - i) + 1] \in S
    BY <1>1, <1>2
  <2> QED
    BY <2>1 DEF Reverse
<1>4. Reverse(s) \in Seq(S) /\ Len(Reverse(s)) = Len(s)
  BY <1>1, <1>3, SeqDef
<1> QED
  BY <1>1, <1>2, <1>4

-----------------------------------------------------------------------------
(* What may be said of a function f of a program p when the functions in   *)
(* fl ask for an aligned stack.                                            *)

Pushes(p, f) ==
  LET saved == Ascending(Coloured(p[f]) \cap CalleeSaved)
  IN saved \o (IF Odd(Len(saved)) THEN << DummyCallee >> ELSE << >>)
Locals(p, fl, f) == IF p[f].locals # 0 THEN RoundUp(p[f].locals) + 1
                    ELSE IF f \in fl THEN 1 ELSE 0
Size(p, fl, f) == Len(Pushes(p, f)) + Locals(p, fl, f)

(* The registers that a call of f leaves alone, and those that even its    *)
(* body does.                                                              *)
Safe(p, f) == Registers \ Clobbered(p, f)
Kept(p, f) == Safe(p, f) \ Coloured(p[f])

(* What is said of a point of the code: how many cells there are above the *)
(* return address, and twice, of the values at the entry and of those that *)
(* a call must not lose, which registers still hold theirs, and of which   *)
(* registers each cell holds a copy.                                       *)
Half == [cell : [Nat -> SUBSET Registers], reg : SUBSET Registers]
State == [height : Nat, entry : Half, vals : Half]

Ops == {"set", "use", "leave", "copy", "param", "call", "push", "pop", "sub", "add", "ret"}
Instrs == [op : Ops, reg : Registers \cup {0}, step : Nat, n : Nat]

(* y claims no more than x about the registers and the lowest h cells. *)
Weaker(h, x, y) == y.reg \subseteq x.reg /\ \A j \in 1 .. h : y.cell[j] \subseteq x.cell[j]

(* The code around the bodies: after c, y may be claimed where x was. *)
Pushed(r, h, x, y) == Weaker(h, x, y) /\ y.cell[h + 1] \subseteq x.reg \cap {r}
Popped(r, h, x, y) ==
  /\ y.reg \subseteq (x.reg \ {r}) \cup (x.cell[h] \cap {r})
  /\ \A j \in 1 .. h - 1 : y.cell[j] \subseteq x.cell[j]
Opened(n, h, x, y) == Weaker(h, x, y) /\ \A j \in h + 1 .. h + n : y.cell[j] = {}

Manages(c, a, b) ==
  \/ /\ c.op = "push" /\ c.reg \in Registers /\ b.height = a.height + 1
     /\ Pushed(c.reg, a.height, a.entry, b.entry) /\ Pushed(c.reg, a.height, a.vals, b.vals)
  \/ /\ c.op = "pop" /\ c.reg \in Registers /\ a.height > 0 /\ b.height = a.height - 1
     /\ Popped(c.reg, a.height, a.entry, b.entry) /\ Popped(c.reg, a.height, a.vals, b.vals)
  \/ /\ c.op = "sub" /\ b.height = a.height + c.n
     /\ Opened(c.n, a.height, a.entry, b.entry) /\ Opened(c.n, a.height, a.vals, b.vals)
  \/ /\ c.op = "add" /\ c.n <= a.height /\ b.height = a.height - c.n
     /\ Weaker(b.height, a.entry, b.entry) /\ Weaker(b.height, a.vals, b.vals)

(* In the body of f, all that its entry has pushed is in place. *)
Frame(p, f) ==
  [ cell |-> [j \in Nat |-> IF j \in 1 .. Len(Pushes(p, f)) THEN {Pushes(p, f)[j]} ELSE {}],
    reg |-> Kept(p, f) ]
Within(p, f, h, L) ==
  [ height |-> h, entry |-> Frame(p, f), vals |-> [cell |-> [j \in Nat |-> {}], reg |-> L] ]

Sets(s, a, b) ==
  /\ b.entry.reg \subseteq a.entry.reg \ {s.reg} /\ b.vals.reg \subseteq a.vals.reg \cup {s.reg}
  /\ \A j \in 1 .. a.height : /\ b.entry.cell[j] \subseteq a.entry.cell[j]
                              /\ b.vals.cell[j] \subseteq a.vals.cell[j] \ {s.reg}

Looks(p, fl, f, s, a) ==
  \/ s.op = "use" /\ (KnownToCallers(p) => s.reg \in a.vals.reg)
  \/ s.op = "leave" /\ a.height = Size(p, fl, f) /\ Weaker(a.height, a.entry, Frame(p, f))
  \/ s.op = "copy" /\ (f \in fl => Odd(a.height))
  \/ s.op = "param" /\ a.height = Size(p, fl, f)

(* The parameters overwrite the cells on top; the result is a new value. *)
CallsOn(p, fl, f, s, a, b) ==
  LET below == a.height - p[s.callee].params
  IN /\ below >= 0 /\ (f \in fl => Odd(a.height))
     /\ b.entry.reg \subseteq a.entry.reg \cap Safe(p, s.callee)
     /\ b.vals.reg \subseteq (a.vals.reg \cap Safe(p, s.callee)) \cup ({s.dst} \ {0})
     /\ \A j \in 1 .. a.height :
          /\ b.entry.cell[j] \subseteq (IF j <= below THEN a.entry.cell[j] ELSE {})
          /\ b.vals.cell[j] \subseteq (IF j <= below THEN a.vals.cell[j] \ {s.dst} ELSE {})

Steps(p, fl, f, s, a, b) ==
  /\ b.height = a.height
  /\ \/ s.op = "set" /\ Sets(s, a, b)
     \/ /\ Looks(p, fl, f, s, a)
        /\ Weaker(a.height, a.entry, b.entry) /\ Weaker(a.height, a.vals, b.vals)
     \/ s.op = "call" /\ CallsOn(p, fl, f, s, a, b)

Fits(p, fl, f, c, a, b) ==
  \/ Manages(c, a, b)
  \/ /\ c.step \in DOMAIN p[f].body /\ p[f].body[c.step].op = c.op
     /\ Steps(p, fl, f, p[f].body[c.step], a, b)
  \/ c.op = "ret" /\ a.height = 0 /\ Safe(p, f) \subseteq a.entry.reg

Typed(p, fl, f, c, a, b) ==
  /\ c \in Seq(Instrs)
  /\ \E ann \in [1 .. Len(c) + 1 -> State] :
       /\ ann[1] = a /\ ann[Len(c) + 1] = b
       /\ \A i \in 1 .. Len(c) : Fits(p, fl, f, c[i], ann[i], ann[i + 1])

-----------------------------------------------------------------------------
(* Typed code is put together from typed code. *)

LEMMA NothingTyped ==
  ASSUME NEW p, NEW fl, NEW f, NEW a \in State
  PROVE  Typed(p, fl, f, << >>, a, a)
<1>1. << >> \in Seq(Instrs) /\ Len(<< >>) = 0
  BY EmptySeq
<1> DEFINE ann == [i \in 1 .. 0 + 1 |-> a]
<1>2. ann \in [1 .. 0 + 1 -> State] /\ ann[1] = a /\ ann[0 + 1] = a
  OBVIOUS
<1>3. \A i \in 1 .. 0 : Fits(p, fl, f, << >>[i], ann[i], ann[i + 1])
  OBVIOUS
<1> QED
  BY <1>1, <1>2, <1>3 DEF Typed

LEMMA OneTyped ==
  ASSUME NEW p, NEW fl, NEW f, NEW c \in Instrs, NEW a \in State, NEW b \in State,
         Fits(p, fl, f, c, a, b)
  PROVE  Typed(p, fl, f, << c >>, a, b)
<1>1. << c >> \in Seq(Instrs) /\ Len(<< c >>) = 1 /\ << c >>[1] = c
  OBVIOUS
<1> DEFINE ann == [i \in 1 .. 1 + 1 |-> IF i = 1 THEN a ELSE b]
<1>2. ann \in [1 .. 1 + 1 -> State] /\ ann[1] = a /\ ann[1 + 1] = b
  OBVIOUS
<1>3. \A i \in 1 .. 1 : Fits(p, fl, f, << c >>[i], ann[i], ann[i + 1])
  <2>1. \A i \in 1 .. 1 : i = 1
    OBVIOUS
  <2> HIDE DEF ann
  <2> QED
    BY <1>1, <1>2, <2>1
<1> HIDE DEF ann
<1> QED
  BY <1>1, <1>2, <1>3 DEF Typed

(* y is claimed after the first k instructions of c. *)
TypedThrough(p, fl, f, c, k, x, y, z) ==
  \E ann \in [1 .. Len(c) + 1 -> State] :
    /\ ann[1] = x /\ ann[k + 1] = y /\ ann[Len(c) + 1] = z
    /\ \A i \in 1 .. Len(c) : Fits(p, fl, f, c[i], ann[i], ann[i + 1])

LEMMA JoinTyped ==
  ASSUME NEW p, NEW fl, NEW f, NEW c, NEW d, NEW x, NEW y, NEW z,
         Typed(p, fl, f, c, x, y), Typed(p, fl, f, d, y, z)
  PROVE  /\ c \o d \in Seq(Instrs) /\ Len(c \o d) = Len(c) + Len(d)
         /\ TypedThrough(p, fl, f, c \o d, Len(c), x, y, z)
<1> DEFINE m == Len(c)
           n == Len(d)
<1>1. c \in Seq(Instrs) /\ d \in Seq(Instrs) /\ m \in Nat /\ n \in Nat
  BY LenProperties DEF Typed
<1>2. PICK s \in [1 .. m + 1 -> State] :
        s[1] = x /\ s[m + 1] = y /\ \A i \in 1 .. m : Fits(p, fl, f, c[i], s[i], s[i + 1])
  BY DEF Typed
<1>3. PICK t \in [1 .. n + 1 -> State] :
        t[1] = y /\ t[n + 1] = z /\ \A i \in 1 .. n : Fits(p, fl, f, d[i], t[i], t[i + 1])
  BY DEF Typed
<1>4. /\ c \o d \in Seq(Instrs) /\ Len(c \o d) = m + n
      /\ \A i \in 1 .. m + n : (c \o d)[i] = IF i <= m THEN c[i] ELSE d[i - m]
  BY <1>1, ConcatProperties
<1> HIDE DEF m, n
<1> DEFINE ann == [i \in 1 .. (m + n) + 1 |-> IF i <= m THEN s[i] ELSE t[i - m]]
<1>5. /\ ann \in [1 .. (m + n) + 1 -> State]
      /\ \A i \in 1 .. m : ann[i] = s[i]
      /\ \A i \in m + 1 .. m + n + 1 : ann[i] = t[i - m]
  <2>1. ASSUME NEW i \in 1 .. (m + n) + 1 PROVE (IF i <= m THEN s[i] ELSE t[i - m]) \in State
    <3>1. CASE i <= m
      BY <1>1, <3>1
    <3>2. CASE ~ (i <= m)
      <4>1. i - m \in 1 .. n + 1
        BY <1>1, <3>2
      <4> QED
        BY <3>2, <4>1
    <3> QED
      BY <3>1, <3>2
  <2>2. \A i \in 1 .. m : i \in 1 .. (m + n) + 1 /\ i <= m
    BY <1>1
  <2>3. \A i \in m + 1 .. m + n + 1 : i \in 1 .. (m + n) + 1 /\ ~ (i <= m)
    BY <1>1
  <2> QED
    BY <2>1, <2>2, <2>3
<1> HIDE DEF ann
<1>6. ann[1] = x
  <2>1. CASE m = 0
    BY <1>1, <1>2, <1>3, <1>5, <2>1
  <2>2. CASE m # 0
    <3>1. 1 \in 1 .. m
      BY <1>1, <2>2
    <3> QED
      BY <1>2, <1>5, <3>1
  <2> QED
    BY <2>1, <2>2
<1>7. ann[(m + n) + 1] = z
  BY <1>1, <1>3, <1>5
<1>8. ann[m + 1] = y
  BY <1>1, <1>3, <1>5
<1>9. ASSUME NEW i \in 1 .. m + n PROVE Fits(p, fl, f, (c \o d)[i], ann[i], ann[i + 1])
  <2>1. CASE i <= m
    <3>1. i \in 1 .. m /\ ann[i] = s[i] /\ (c \o d)[i] = c[i]
      BY <1>1, <1>4, <1>5, <2>1
    <3>2. ann[i + 1] = s[i + 1]
      <4>1. CASE i = m
        <5>1. m + 1 \in m + 1 .. m + n + 1 /\ (m + 1) - m = 1
          BY <1>1
        <5> QED
          BY <1>2, <1>3, <1>5, <4>1, <5>1
      <4>2. CASE i # m
        <5>1. i + 1 \in 1 .. m
          BY <1>1, <2>1, <4>2
        <5> QED
          BY <1>5, <5>1
      <4> QED
        BY <4>1, <4>2
    <3> QED
      BY <1>2, <3>1, <3>2
  <2>2. CASE ~ (i <= m)
    <3>1. i - m \in 1 .. n /\ (i + 1) - m = (i - m) + 1 /\ i + 1 \in m + 1 .. m + n + 1
          /\ i \in m + 1 .. m + n + 1
      BY <1>1, <2>2
    <3>2. ann[i] = t[i - m] /\ ann[i + 1] = t[(i - m) + 1] /\ (c \o d)[i] = d[i - m]
      BY <1>4, <1>5, <2>2, <3>1
    <3> QED
      BY <1>3, <3>1, <3>2
  <2> QED
    BY <2>1, <2>2
<1> QED
  <2>1. TypedThrough(p, fl, f, c \o d, m, x, y, z)
    BY <1>4, <1>5, <1>6, <1>7, <1>8, <1>9 DEF TypedThrough
  <2> QED
    BY <1>4, <2>1 DEF m, n

LEMMA ConcatTyped ==
  ASSUME NEW p, NEW fl, NEW f, NEW c, NEW d, NEW x, NEW y, NEW z,
         Typed(p, fl, f, c, x, y), Typed(p, fl, f, d, y, z)
  PROVE  Typed(p, fl, f, c \o d, x, z)
<1>1. c \o d \in Seq(Instrs) /\ TypedThrough(p, fl, f, c \o d, Len(c), x, y, z)
  BY JoinTyped
<1> QED
  BY <1>1 DEF Typed, TypedThrough

LEMMA EachTyped ==
  ASSUME NEW p, NEW fl, NEW f, NEW op \in {"push", "pop"}, NEW rs \in Seq(Registers),
         NEW z \in [0 .. Len(rs) -> State],
         \A q \in 1 .. Len(rs) : Manages(Instr(op, rs[q]), z[q - 1], z[q])
  PROVE  Typed(p, fl, f, Each(op, rs), z[0], z[Len(rs)])
<1> DEFINE n == Len(rs)
           c == Each(op, rs)
           ann == [i \in 1 .. n + 1 |-> z[i - 1]]
<1>1. n \in Nat /\ Len(c) = n /\ \A i \in 1 .. n : c[i] = Instr(op, rs[i])
  BY EachIsASequence
<1>2. c \in Seq(Instrs)
  <2>1. { Instr(op, r) : r \in Registers } \subseteq Instrs
    BY DEF Instr, Instrs, Ops
  <2>2. c \in Seq({ Instr(op, r) : r \in Registers })
    BY EachIsASequence
  <2> HIDE DEF c
  <2> QED
    BY <2>1, <2>2, SeqMonotonic
<1> HIDE DEF c, n
<1>3. z \in [0 .. n -> State] /\ \A q \in 1 .. n : Manages(Instr(op, rs[q]), z[q - 1], z[q])
  BY DEF n
<1>4. ann \in [1 .. n + 1 -> State] /\ ann[1] = z[0] /\ ann[n + 1] = z[n]
  <2>1. \A i \in 1 .. n + 1 : i - 1 \in 0 .. n
    BY <1>1
  <2>2. \A i \in 1 .. n + 1 : z[i - 1] \in State
    BY <1>3, <2>1
  <2>3. 1 \in 1 .. n + 1 /\ n + 1 \in 1 .. n + 1 /\ (n + 1) - 1 = n /\ 1 - 1 = 0
    BY <1>1
  <2> QED
    BY <2>2, <2>3
<1>5. ASSUME NEW i \in 1 .. n PROVE Fits(p, fl, f, c[i], ann[i], ann[i + 1])
  <2>1. i \in 1 .. n + 1 /\ i + 1 \in 1 .. n + 1 /\ (i + 1) - 1 = i
    BY <1>1
  <2>2. ann[i] = z[i - 1] /\ ann[i + 1] = z[i]
    BY <2>1
  <2> HIDE DEF ann
  <2>3. Manages(c[i], ann[i], ann[i + 1])
    BY <1>1, <1>3, <2>2
  <2> QED
    BY <2>3 DEF Fits
<1> HIDE DEF ann
<1>6. Typed(p, fl, f, c, z[0], z[n])
  BY <1>1, <1>2, <1>4, <1>5 DEF Typed
<1> QED
  BY <1>6 DEF c, n

-----------------------------------------------------------------------------
(* Programs. *)

LEMMA ProgramFacts ==
  ASSUME NEW p \in Programs
  PROVE  /\ DOMAIN p \subseteq Nat \ {0} /\ DOMAIN p = 1 .. Len(p) /\ Len(p) \in Nat \ {0}
         /\ \A f \in DOMAIN p : /\ p[f].body \in Seq(Step) /\ p[f].locals \in Nat /\ p[f].params \in Nat
                                /\ DOMAIN p[f].body = 1 .. Len(p[f].body) /\ Len(p[f].body) \in Nat
                                /\ \A i \in DOMAIN p[f].body : p[f].body[i] \in Step
<1>1. p \in Seq(Function) /\ p # << >>
  BY ProgramsAssumption
<1>2. DOMAIN p = 1 .. Len(p) /\ Len(p) \in Nat \ {0} /\ \A f \in 1 .. Len(p) : p[f] \in Function
  BY <1>1, LenProperties, ElementOfSeq, EmptySeq
<1>3. ASSUME NEW f \in DOMAIN p
      PROVE  /\ p[f].body \in Seq(Step) /\ p[f].locals \in Nat /\ p[f].params \in Nat
             /\ DOMAIN p[f].body = 1 .. Len(p[f].body) /\ Len(p[f].body) \in Nat
             /\ \A i \in DOMAIN p[f].body : p[f].body[i] \in Step
  <2>1. p[f].body \in Seq(Step) /\ p[f].locals \in Nat /\ p[f].params \in Nat
    BY <1>2 DEF Function
  <2> QED
    BY <2>1, LenProperties, ElementOfSeq
<1> QED
  BY <1>2, <1>3

LEMMA StepFacts ==
  ASSUME NEW s \in Step
  PROVE  /\ s.op \in {"set", "use", "leave", "copy", "param", "call"}
         /\ s.op \in {"set", "use"} => s.reg \in Registers
         /\ s.op = "param" => s.k \in Nat
         /\ s.op = "call" => /\ s.callee \in Nat /\ s.dst \in CallerSaved \cup {0}
                             /\ s.indirect \in BOOLEAN
         /\ Reads(s) \subseteq Registers /\ Writes(s) \subseteq Registers
<1>1. CASE s \in [op : {"set", "use"}, reg : Registers]
  BY <1>1 DEF Reads, Writes
<1>2. CASE s \in [op : {"leave"}]
  BY <1>2 DEF Reads, Writes
<1>3. CASE s \in [op : {"copy"}, seen : {"parser", "cfg", "nobody"}]
  BY <1>3 DEF Reads, Writes
<1>4. CASE s \in [op : {"param"}, k : Nat]
  BY <1>4 DEF Reads, Writes
<1>5. CASE s \in [op : {"call"}, callee : Nat, dst : CallerSaved \cup {0}, indirect : BOOLEAN]
  BY <1>5 DEF Reads, Writes, CallerSaved
<1> QED
  BY <1>1, <1>2, <1>3, <1>4, <1>5 DEF Step

LEMMA ColouredFacts ==
  ASSUME NEW p \in Programs, NEW f \in DOMAIN p
  PROVE  /\ Coloured(p[f]) \subseteq Registers
         /\ \A i \in DOMAIN p[f].body :
              Reads(p[f].body[i]) \subseteq Coloured(p[f]) /\ Writes(p[f].body[i]) \subseteq Coloured(p[f])
<1>1. \A i \in DOMAIN p[f].body : p[f].body[i] \in Step
  BY ProgramFacts
<1>2. ToSet(p[f].body) = { p[f].body[i] : i \in DOMAIN p[f].body }
  BY DEF ToSet
<1>3. \A s \in ToSet(p[f].body) : Reads(s) \subseteq Registers /\ Writes(s) \subseteq Registers
  BY <1>1, <1>2, StepFacts
<1> QED
  BY <1>2, <1>3 DEF Coloured

(* What a callee may clobber, its caller may. *)
LEMMA ClobberedFacts ==
  ASSUME NEW p \in Programs, NEW f \in DOMAIN p
  PROVE  /\ Clobbered(p, f) \subseteq CallerSaved
         /\ CallerSaved \cap Coloured(p[f]) \subseteq Clobbered(p, f)
         /\ \A g \in Callees(p, f) : Clobbered(p, g) \subseteq Clobbered(p, f)
<1>1. f \in Reached(p, f)
  BY DEF Reached
<1>2. ASSUME NEW g \in Callees(p, f), NEW h \in Reached(p, g) PROVE h \in Reached(p, f)
  <2>1. ASSUME NEW S \in SUBSET DOMAIN p, f \in S, \A k \in S : Callees(p, k) \subseteq S PROVE h \in S
    <3>1. g \in S
      BY <2>1
    <3> QED
      BY <1>2, <2>1, <3>1 DEF Reached
  <2> QED
    BY <1>2, <2>1 DEF Reached
<1> QED
  BY <1>1, <1>2 DEF Clobbered

LEMMA PushesFacts ==
  ASSUME NEW p \in Programs, NEW f \in DOMAIN p
  PROVE  /\ Pushes(p, f) \in Seq(Registers)
         /\ Len(Pushes(p, f)) \in Nat /\ ~ Odd(Len(Pushes(p, f)))
         /\ \A i \in 1 .. Len(Pushes(p, f)) : Pushes(p, f)[i] \in Registers
         /\ \A r \in Coloured(p[f]) \cap CalleeSaved : \E i \in 1 .. Len(Pushes(p, f)) : Pushes(p, f)[i] = r
         /\ Coloured(p[f]) \cap CalleeSaved = {} => Pushes(p, f) = << >>
<1> DEFINE R == Coloured(p[f]) \cap CalleeSaved
           saved == Ascending(R)
           dummy == IF Odd(Len(saved)) THEN << DummyCallee >> ELSE << >>
<1>1. R \subseteq Registers /\ R \subseteq Nat /\ IsFiniteSet(R)
  BY ColouredFacts, RegistersAssumption, FS_Subset
<1>2. /\ saved \in Seq(R) /\ Len(saved) = Cardinality(R) /\ Cardinality(R) \in Nat
      /\ \A r \in R : \E i \in 1 .. Cardinality(R) : saved[i] = r
  <2> HIDE DEF R
  <2> QED
    BY <1>1, AscendingFacts
<1>3. R = {} => saved = << >>
  BY <1>2, FS_EmptySet, EmptySeq
<1>4. Pushes(p, f) = saved \o dummy
  BY DEF Pushes
<1> HIDE DEF R, saved
<1>5. saved \in Seq(Registers) /\ Len(saved) \in Nat
  BY <1>1, <1>2, SeqMonotonic
<1>6. DummyCallee \in Registers
  BY RegistersAssumption DEF CallerSaved
<1>7. dummy \in Seq(Registers) /\ Len(dummy) = IF Odd(Len(saved)) THEN 1 ELSE 0
  BY <1>6
<1>8. ~ Odd(Len(saved) + Len(dummy))
  <2>1. \A m \in Nat : ~ Odd(m + (IF Odd(m) THEN 1 ELSE 0))
    BY DEF Odd
  <2> HIDE DEF dummy
  <2> QED
    BY <1>5, <1>7, <2>1
<1>9. R = {} => dummy = << >>
  BY <1>3 DEF Odd
<1> HIDE DEF dummy
<1>10. /\ saved \o dummy \in Seq(Registers)
       /\ Len(saved \o dummy) = Len(saved) + Len(dummy) /\ Len(saved) + Len(dummy) \in Nat
       /\ \A i \in 1 .. Len(saved) + Len(dummy) : i <= Len(saved) => (saved \o dummy)[i] = saved[i]
  <2>1. Len(dummy) \in Nat
    BY <1>7
  <2> QED
    BY <1>5, <1>7, <2>1, ConcatProperties
<1>11. \A i \in 1 .. Len(saved \o dummy) : (saved \o dummy)[i] \in Registers
  BY <1>10, ElementOfSeq
<1>12. ASSUME NEW r \in R PROVE \E i \in 1 .. Len(saved \o dummy) : (saved \o dummy)[i] = r
  <2>1. PICK i \in 1 .. Len(saved) : saved[i] = r
    BY <1>2
  <2>2. i \in 1 .. Len(saved) + Len(dummy) /\ i <= Len(saved)
    BY <1>5, <1>7
  <2> QED
    BY <1>10, <2>1, <2>2
<1>13. R = {} => saved \o dummy = << >>
  BY <1>3, <1>9
<1> QED
  BY <1>4, <1>8, <1>10, <1>11, <1>12, <1>13 DEF R

LEMMA SizeFacts ==
  ASSUME NEW p \in Programs, NEW f \in DOMAIN p, NEW fl
  PROVE  /\ Locals(p, fl, f) \in Nat /\ Size(p, fl, f) \in Nat
         /\ Len(Pushes(p, f)) <= Size(p, fl, f)
         /\ f \in fl => Odd(Size(p, fl, f))
         /\ ParametersOffset(p) /\ p[f].params # 0 /\ Locals(p, fl, f) = 0 => Size(p, fl, f) = 0
<1>1. Len(Pushes(p, f)) \in Nat /\ ~ Odd(Len(Pushes(p, f)))
  BY PushesFacts
<1>2. p[f].locals \in Nat
  BY ProgramFacts
<1>3. Locals(p, fl, f) \in Nat /\ (f \in fl => Odd(Locals(p, fl, f)))
      /\ (Locals(p, fl, f) = 0 => p[f].locals = 0)
  BY <1>2 DEF Locals, RoundUp, Odd
<1>4. f \in fl => Odd(Len(Pushes(p, f)) + Locals(p, fl, f))
  BY <1>1, <1>3 DEF Odd
<1>5. ParametersOffset(p) /\ p[f].params # 0 /\ Locals(p, fl, f) = 0 => Len(Pushes(p, f)) = 0
  BY <1>3, PushesFacts, EmptySeq DEF ParametersOffset
<1> QED
  BY <1>1, <1>3, <1>4, <1>5 DEF Size

LEMMA FrameFacts ==
  ASSUME NEW p \in Programs, NEW f \in DOMAIN p
  PROVE  /\ Frame(p, f) \in Half /\ Frame(p, f).reg = Kept(p, f) /\ Kept(p, f) \in SUBSET Registers
         /\ \A j \in Nat : Frame(p, f).cell[j] =
              IF j \in 1 .. Len(Pushes(p, f)) THEN {Pushes(p, f)[j]} ELSE {}
<1>1. \A j \in Nat : (IF j \in 1 .. Len(Pushes(p, f)) THEN {Pushes(p, f)[j]} ELSE {}) \in SUBSET Registers
  BY PushesFacts
<1>2. Kept(p, f) \in SUBSET Registers
  BY DEF Kept, Safe
<1> QED
  BY <1>1, <1>2 DEF Frame, Half

LEMMA AboveTheFrame ==
  ASSUME NEW p \in Programs, NEW f \in DOMAIN p, NEW fl, NEW j \in Nat, j > Size(p, fl, f)
  PROVE  Frame(p, f).cell[j] = {}
<1>1. Len(Pushes(p, f)) \in Nat /\ Size(p, fl, f) \in Nat /\ Len(Pushes(p, f)) <= Size(p, fl, f)
  BY SizeFacts, PushesFacts
<1>2. j \notin 1 .. Len(Pushes(p, f))
  BY <1>1
<1> QED
  BY <1>2, FrameFacts

LEMMA WithinFacts ==
  ASSUME NEW p \in Programs, NEW f \in DOMAIN p, NEW h \in Nat, NEW L \in SUBSET Registers
  PROVE  /\ Within(p, f, h, L) \in State /\ Within(p, f, h, L).height = h
         /\ Within(p, f, h, L).entry = Frame(p, f) /\ Within(p, f, h, L).vals.reg = L
         /\ \A j \in Nat : Within(p, f, h, L).vals.cell[j] = {}
<1>1. Frame(p, f) \in Half
  BY FrameFacts
<1> QED
  BY <1>1 DEF Within, State, Half

-----------------------------------------------------------------------------
(* Around a call: q of the registers rs are on the stack above the frame,  *)
(* with n cells above them, L0 was live before the first push, L is now.   *)
Between(p, fl, f, rs, q, n, L0, L) ==
  LET size == Size(p, fl, f)
  IN [ height |-> size + q + n,
       entry |-> [ cell |-> [j \in Nat |-> IF j \in size + 1 .. size + q THEN {rs[j - size]} \cap Kept(p, f)
                                           ELSE Frame(p, f).cell[j]],
                   reg |-> Kept(p, f) ],
       vals |-> [ cell |-> [j \in Nat |-> IF j \in size + 1 .. size + q THEN {rs[j - size]} \cap L0
                                          ELSE {}],
                  reg |-> L ] ]

Saves(B, p, size, f, rs, q, n, L0, L) ==
  /\ B.height = size + q + n /\ B.entry.reg = Kept(p, f) /\ B.vals.reg = L
  /\ \A j \in Nat : B.entry.cell[j] =
       IF j \in size + 1 .. size + q THEN {rs[j - size]} \cap Kept(p, f) ELSE Frame(p, f).cell[j]
  /\ \A j \in Nat : B.vals.cell[j] =
       IF j \in size + 1 .. size + q THEN {rs[j - size]} \cap L0 ELSE {}

LEMMA BetweenFacts ==
  ASSUME NEW p \in Programs, NEW f \in DOMAIN p, NEW fl, NEW rs \in Seq(Registers),
         NEW q \in 0 .. Len(rs), NEW n \in Nat, NEW L0 \in SUBSET Registers, NEW L \in SUBSET Registers
  PROVE  /\ Between(p, fl, f, rs, q, n, L0, L) \in State
         /\ Saves(Between(p, fl, f, rs, q, n, L0, L), p, Size(p, fl, f), f, rs, q, n, L0, L)
<1> DEFINE B == Between(p, fl, f, rs, q, n, L0, L)
           size == Size(p, fl, f)
<1>1. size \in Nat /\ q \in Nat /\ Len(rs) \in Nat
  BY SizeFacts, LenProperties
<1>2. \A j \in Nat : Frame(p, f).cell[j] \in SUBSET Registers
  BY FrameFacts DEF Half
<1>3. Kept(p, f) \in SUBSET Registers
  BY FrameFacts
<1>4. /\ [j \in Nat |-> IF j \in size + 1 .. size + q THEN {rs[j - size]} \cap Kept(p, f)
                        ELSE Frame(p, f).cell[j]] \in [Nat -> SUBSET Registers]
      /\ [j \in Nat |-> IF j \in size + 1 .. size + q THEN {rs[j - size]} \cap L0 ELSE {}]
           \in [Nat -> SUBSET Registers]
  BY <1>2, <1>3
<1>5. B \in State
  BY <1>1, <1>3, <1>4 DEF Between, State, Half
<1>6. Saves(B, p, size, f, rs, q, n, L0, L)
  BY DEF Between, Saves
<1> QED
  BY <1>5, <1>6

LEMMA AboveTheSaved ==
  ASSUME NEW p \in Programs, NEW f \in DOMAIN p, NEW fl, NEW B, NEW rs, NEW q \in Nat, NEW n \in Nat,
         NEW L0, NEW L, Saves(B, p, Size(p, fl, f), f, rs, q, n, L0, L),
         NEW j \in Nat, j > Size(p, fl, f) + q
  PROVE  B.entry.cell[j] = {} /\ B.vals.cell[j] = {}
<1>1. Size(p, fl, f) \in Nat
  BY SizeFacts
<1>2. j \notin Size(p, fl, f) + 1 .. Size(p, fl, f) + q /\ j > Size(p, fl, f)
  BY <1>1
<1>3. Frame(p, f).cell[j] = {}
  BY <1>2, AboveTheFrame
<1> QED
  BY <1>2, <1>3 DEF Saves

LEMMA BetweenNothing ==
  ASSUME NEW p \in Programs, NEW f \in DOMAIN p, NEW fl, NEW rs \in Seq(Registers),
         NEW L0 \in SUBSET Registers, NEW L \in SUBSET Registers
  PROVE  Between(p, fl, f, rs, 0, 0, L0, L) = Within(p, f, Size(p, fl, f), L)
<1>1. Size(p, fl, f) \in Nat
  BY SizeFacts
<1>2. \A j \in Nat : j \notin Size(p, fl, f) + 1 .. Size(p, fl, f) + 0
  BY <1>1
<1>3. /\ [j \in Nat |-> IF j \in Size(p, fl, f) + 1 .. Size(p, fl, f) + 0
                        THEN {rs[j - Size(p, fl, f)]} \cap Kept(p, f) ELSE Frame(p, f).cell[j]]
           = [j \in Nat |-> IF j \in 1 .. Len(Pushes(p, f)) THEN {Pushes(p, f)[j]} ELSE {}]
      /\ [j \in Nat |-> IF j \in Size(p, fl, f) + 1 .. Size(p, fl, f) + 0
                        THEN {rs[j - Size(p, fl, f)]} \cap L0 ELSE {}] = [j \in Nat |-> {}]
  <2>1. \A j \in Nat : Frame(p, f).cell[j] = IF j \in 1 .. Len(Pushes(p, f)) THEN {Pushes(p, f)[j]} ELSE {}
    BY FrameFacts
  <2> QED
    BY <1>2, <2>1
<1>4. Size(p, fl, f) + 0 + 0 = Size(p, fl, f)
  BY <1>1
<1> QED
  BY <1>3, <1>4, Zenon DEF Between, Within, Frame

LEMMA SavingTyped ==
  ASSUME NEW p \in Programs, NEW f \in DOMAIN p, NEW fl, NEW rs \in Seq(Registers),
         NEW L0 \in SUBSET Registers
  PROVE  Typed(p, fl, f, Each("push", rs), Within(p, f, Size(p, fl, f), L0),
               Between(p, fl, f, rs, Len(rs), 0, L0, L0))
<1> DEFINE n == Len(rs)
           B(q) == Between(p, fl, f, rs, q, 0, L0, L0)
           z == [q \in 0 .. n |-> B(q)]
           size == Size(p, fl, f)
<1>1. n \in Nat /\ size \in Nat /\ \A q \in 1 .. n : rs[q] \in Registers
  BY LenProperties, SizeFacts, ElementOfSeq
<1>2. \A q \in 0 .. n : B(q) \in State
  BY BetweenFacts
<1>3. ASSUME NEW q \in 1 .. n PROVE Manages(Instr("push", rs[q]), z[q - 1], z[q])
  <2>1. q - 1 \in 0 .. n /\ q \in 0 .. n /\ q \in Nat
    BY <1>1
  <2>2. z[q - 1] = B(q - 1) /\ z[q] = B(q)
    BY <2>1
  <2> DEFINE a == B(q - 1)
             b == B(q)
             h == size + (q - 1)
  <2>3. Saves(a, p, size, f, rs, q - 1, 0, L0, L0)
    BY <2>1, BetweenFacts
  <2>4. Saves(b, p, size, f, rs, q, 0, L0, L0)
    BY <2>1, BetweenFacts
  <2> HIDE DEF a, b
  <2>5. a.height = h /\ b.height = h + 1 /\ h \in Nat /\ b.height = a.height + 1
    BY <1>1, <2>1, <2>3, <2>4 DEF Saves
  <2>6. ASSUME NEW j \in 1 .. h
        PROVE  b.entry.cell[j] = a.entry.cell[j] /\ b.vals.cell[j] = a.vals.cell[j]
    <3>1. j \in Nat /\ (j \in size + 1 .. size + (q - 1) <=> j \in size + 1 .. size + q)
      BY <1>1, <2>1, <2>6
    <3> QED
      BY <2>3, <2>4, <3>1 DEF Saves
  <2>7. b.entry.cell[h + 1] = {rs[q]} \cap Kept(p, f) /\ b.vals.cell[h + 1] = {rs[q]} \cap L0
    <3>1. h + 1 \in Nat /\ h + 1 \in size + 1 .. size + q /\ (h + 1) - size = q
      BY <1>1, <2>1
    <3> QED
      BY <2>4, <3>1 DEF Saves
  <2>8. Pushed(rs[q], h, a.entry, b.entry) /\ Pushed(rs[q], h, a.vals, b.vals)
    BY <2>3, <2>4, <2>6, <2>7 DEF Pushed, Weaker, Saves
  <2>9. Manages(Instr("push", rs[q]), a, b)
    BY <1>1, <2>5, <2>8 DEF Manages, Instr
  <2> QED
    BY <2>2, <2>9 DEF a, b
<1>4. z \in [0 .. n -> State]
  BY <1>2
<1>5. Typed(p, fl, f, Each("push", rs), z[0], z[n])
  <2> HIDE DEF z
  <2> QED
    BY <1>3, <1>4, EachTyped
<1>6. z[0] = B(0) /\ z[n] = B(n)
  BY <1>1
<1>7. B(0) = Within(p, f, size, L0)
  BY BetweenNothing
<1> QED
  BY <1>5, <1>6, <1>7

(* Popped in the opposite order, the registers have what they had before   *)
(* the pushes; those in L that are not popped yet still have to.           *)
Awaiting(rs, q, L) == L \ { rs[j] : j \in q + 1 .. Len(rs) }

LEMMA RestoringTyped ==
  ASSUME NEW p \in Programs, NEW f \in DOMAIN p, NEW fl, NEW rs \in Seq(Registers),
         NEW L0 \in SUBSET Registers, NEW L \in SUBSET Registers,
         \A q \in 1 .. Len(rs) : rs[q] \in L => rs[q] \in L0
  PROVE  Typed(p, fl, f, Each("pop", rs),
               Between(p, fl, f, Reverse(rs), Len(rs), 0, L0, Awaiting(rs, 0, L)),
               Within(p, f, Size(p, fl, f), L))
<1> DEFINE n == Len(rs)
           vs == Reverse(rs)
           M(q) == Awaiting(rs, q, L)
           B(q) == Between(p, fl, f, vs, n - q, 0, L0, M(q))
           z == [q \in 0 .. n |-> B(q)]
           size == Size(p, fl, f)
<1>1. n \in Nat /\ size \in Nat /\ \A q \in 1 .. n : rs[q] \in Registers
  BY LenProperties, SizeFacts, ElementOfSeq
<1>2. vs \in Seq(Registers) /\ Len(vs) = n /\ \A q \in 1 .. n : vs[q] = rs[n - q + 1]
  BY ReverseFacts
<1> HIDE DEF vs
<1>3. \A q \in Nat : M(q) \in SUBSET Registers
  BY DEF Awaiting
<1>4. \A q \in 0 .. n : B(q) \in State
  <2>1. \A q \in 0 .. n : n - q \in 0 .. n /\ q \in Nat
    BY <1>1
  <2> HIDE DEF M
  <2> QED
    BY <1>2, <1>3, <2>1, BetweenFacts
<1>5. ASSUME NEW q \in 1 .. n PROVE Manages(Instr("pop", rs[q]), z[q - 1], z[q])
  <2>1. q - 1 \in 0 .. n /\ q \in 0 .. n /\ q \in Nat /\ q - 1 \in Nat /\ n - (q - 1) \in 0 .. Len(vs) /\ n - q \in 0 .. Len(vs)
    BY <1>1, <1>2
  <2>2. z[q - 1] = B(q - 1) /\ z[q] = B(q)
    BY <2>1
  <2> DEFINE a == B(q - 1)
             b == B(q)
             h == size + (n - (q - 1))
             r == rs[q]
  <2>3. Saves(a, p, size, f, vs, n - (q - 1), 0, L0, M(q - 1))
    BY <1>2, <1>3, <2>1, BetweenFacts
  <2>4. Saves(b, p, size, f, vs, n - q, 0, L0, M(q))
    BY <1>2, <1>3, <2>1, BetweenFacts
  <2> HIDE DEF a, b
  <2>5. a.height = h /\ h \in Nat /\ h > 0 /\ b.height = h - 1
    BY <1>1, <2>1, <2>3, <2>4 DEF Saves
  <2>6. ASSUME NEW j \in 1 .. h - 1
        PROVE  b.entry.cell[j] = a.entry.cell[j] /\ b.vals.cell[j] = a.vals.cell[j]
    <3>1. j \in Nat /\ (j \in size + 1 .. size + (n - (q - 1)) <=> j \in size + 1 .. size + (n - q))
      BY <1>1, <2>1, <2>5, <2>6
    <3> QED
      BY <2>3, <2>4, <3>1 DEF Saves
  <2>7. a.entry.cell[h] = {r} \cap Kept(p, f) /\ a.vals.cell[h] = {r} \cap L0
    <3>1. h \in Nat /\ h \in size + 1 .. size + (n - (q - 1)) /\ h - size = n - (q - 1)
      BY <1>1, <2>1
    <3>2. n - (q - 1) \in 1 .. n /\ n - (n - (q - 1)) + 1 = q
      BY <1>1, <2>1
    <3>3. vs[h - size] = r
      BY <1>2, <3>1, <3>2
    <3> HIDE DEF h
    <3> QED
      BY <2>3, <3>1, <3>3 DEF Saves
  <2>8. M(q) \subseteq (M(q - 1) \ {r}) \cup ({r} \cap L0)
    <3>1. ASSUME NEW x \in M(q), x # r PROVE x \in M(q - 1)
      <4>1. ASSUME NEW j \in (q - 1) + 1 .. Len(rs) PROVE x # rs[j]
        <5>1. j = q \/ j \in q + 1 .. Len(rs)
          BY <1>1, <2>1, <4>1
        <5> QED
          BY <3>1, <5>1 DEF Awaiting
      <4> QED
        BY <3>1, <4>1 DEF Awaiting
    <3>2. r \in M(q) => r \in L0
      BY DEF Awaiting
    <3> HIDE DEF M, r
    <3> QED
      BY <3>1, <3>2
  <2>9. Popped(r, h, a.entry, b.entry)
    <3>1. b.entry.reg \subseteq (a.entry.reg \ {r}) \cup (a.entry.cell[h] \cap {r})
      BY <2>3, <2>4, <2>7 DEF Saves
    <3> QED
      BY <2>6, <3>1, Zenon DEF Popped
  <2>10. Popped(r, h, a.vals, b.vals)
    <3>1. b.vals.reg \subseteq (a.vals.reg \ {r}) \cup (a.vals.cell[h] \cap {r})
      BY <2>3, <2>4, <2>7, <2>8 DEF Saves
    <3> QED
      BY <2>6, <3>1, Zenon DEF Popped
  <2> HIDE DEF h
  <2>11. Manages(Instr("pop", r), a, b)
    BY <1>1, <2>5, <2>9, <2>10 DEF Manages, Instr
  <2> QED
    BY <2>2, <2>11 DEF a, b
<1>6. z \in [0 .. n -> State]
  BY <1>4
<1>7. Typed(p, fl, f, Each("pop", rs), z[0], z[n])
  <2> HIDE DEF z
  <2> QED
    BY <1>5, <1>6, EachTyped
<1>8. z[0] = Between(p, fl, f, vs, n, 0, L0, M(0)) /\ z[n] = Between(p, fl, f, vs, 0, 0, L0, M(n))
  <2>1. 0 \in 0 .. n /\ n \in 0 .. n /\ n - 0 = n /\ n - n = 0
    BY <1>1
  <2> HIDE DEF M
  <2> QED
    BY <2>1
<1>9. M(n) = L
  <2>1. n + 1 .. Len(rs) = {}
    BY <1>1
  <2> QED
    BY <2>1 DEF Awaiting
<1>10. Between(p, fl, f, vs, 0, 0, L0, L) = Within(p, f, size, L)
  BY <1>2, BetweenNothing
<1> QED
  BY <1>7, <1>8, <1>9, <1>10 DEF vs

LEMMA MovingTyped ==
  ASSUME NEW p \in Programs, NEW f \in DOMAIN p, NEW fl, NEW rs \in Seq(Registers),
         NEW q \in 0 .. Len(rs), NEW n \in Nat, NEW L0 \in SUBSET Registers, NEW L \in SUBSET Registers
  PROVE  /\ Typed(p, fl, f, Move("sub", n), Between(p, fl, f, rs, q, 0, L0, L), Between(p, fl, f, rs, q, n, L0, L))
         /\ Typed(p, fl, f, Move("add", n), Between(p, fl, f, rs, q, n, L0, L), Between(p, fl, f, rs, q, 0, L0, L))
<1> DEFINE low == Between(p, fl, f, rs, q, 0, L0, L)
           high == Between(p, fl, f, rs, q, n, L0, L)
           size == Size(p, fl, f)
<1>1. low \in State /\ high \in State
  BY BetweenFacts
<1>2. CASE n = 0
  <2>1. Move("sub", n) = << >> /\ Move("add", n) = << >> /\ high = low
    BY <1>2 DEF Move
  <2> QED
    BY <1>1, <2>1, NothingTyped
<1>3. CASE n # 0
  <2> DEFINE c(op) == [op |-> op, reg |-> 0, step |-> 0, n |-> n]
  <2>1. Move("sub", n) = << c("sub") >> /\ Move("add", n) = << c("add") >>
    BY <1>3 DEF Move
  <2>2. c("sub") \in Instrs /\ c("add") \in Instrs
    BY DEF Instrs, Ops
  <2>3. Saves(low, p, size, f, rs, q, 0, L0, L) /\ Saves(high, p, size, f, rs, q, n, L0, L)
    BY BetweenFacts
  <2>4. size \in Nat /\ q \in Nat
    BY SizeFacts, LenProperties
  <2>5. ASSUME NEW j \in Nat, j > size + q
        PROVE  high.entry.cell[j] = {} /\ high.vals.cell[j] = {}
    <3> HIDE DEF high
    <3> QED
      BY <2>3, <2>4, <2>5, AboveTheSaved
  <2> HIDE DEF low, high
  <2>6. low.height = size + q /\ high.height = low.height + n /\ low.height \in Nat /\ n <= high.height
        /\ low.height = high.height - n
    BY <2>3, <2>4 DEF Saves
  <2>7. /\ Weaker(low.height, low.entry, high.entry) /\ Weaker(low.height, high.entry, low.entry)
        /\ Weaker(low.height, low.vals, high.vals) /\ Weaker(low.height, high.vals, low.vals)
    <3>1. \A j \in 1 .. low.height : j \in Nat
      BY <2>6
    <3> QED
      BY <2>3, <3>1 DEF Saves, Weaker
  <2>8. \A j \in low.height + 1 .. low.height + n : high.entry.cell[j] = {} /\ high.vals.cell[j] = {}
    <3>1. \A j \in low.height + 1 .. low.height + n : j \in Nat /\ j > size + q
      BY <2>4, <2>6
    <3> QED
      BY <2>5, <3>1
  <2>9. Manages(c("sub"), low, high)
    BY <2>6, <2>7, <2>8 DEF Manages, Opened
  <2>10. Manages(c("add"), high, low)
    BY <2>6, <2>7 DEF Manages
  <2>11. Fits(p, fl, f, c("sub"), low, high) /\ Fits(p, fl, f, c("add"), high, low)
    BY <2>9, <2>10 DEF Fits
  <2>12. low \in State /\ high \in State
    BY <1>1 DEF low, high
  <2> HIDE DEF c
  <2>13. Typed(p, fl, f, << c("sub") >>, low, high) /\ Typed(p, fl, f, << c("add") >>, high, low)
    BY <2>2, <2>11, <2>12, OneTyped
  <2> QED
    BY <2>1, <2>13 DEF low, high
<1> QED
  BY <1>2, <1>3

LEMMA CallTyped ==
  ASSUME NEW p \in Programs, NEW f \in DOMAIN p, NEW fl, NEW rs \in Seq(Registers), NEW n \in Nat,
         NEW L0 \in SUBSET Registers, NEW L \in SUBSET Registers, NEW i \in DOMAIN p[f].body,
         p[f].body[i].op = "call", p[p[f].body[i].callee].params <= n, ~ Odd(n), ~ Odd(Len(rs)),
         \A q \in 1 .. Len(rs) : rs[q] # p[f].body[i].dst,
         L \subseteq (L0 \cap Safe(p, p[f].body[i].callee)) \cup ({p[f].body[i].dst} \ {0})
  PROVE  Typed(p, fl, f, << [op |-> p[f].body[i].op, reg |-> 0, step |-> i, n |-> 0] >>,
               Between(p, fl, f, rs, Len(rs), n, L0, L0), Between(p, fl, f, rs, Len(rs), n, L0, L))
<1> DEFINE a == Between(p, fl, f, rs, Len(rs), n, L0, L0)
           b == Between(p, fl, f, rs, Len(rs), n, L0, L)
           c == [op |-> p[f].body[i].op, reg |-> 0, step |-> i, n |-> 0]
           s == p[f].body[i]
           size == Size(p, fl, f)
           k == Len(rs)
           below == a.height - p[s.callee].params
<1>1. k \in Nat /\ k \in 0 .. Len(rs) /\ size \in Nat /\ (f \in fl => Odd(size))
  <2>1. k \in Nat
    BY LenProperties
  <2>2. size \in Nat /\ (f \in fl => Odd(size))
    BY SizeFacts
  <2> QED
    BY <2>1, <2>2
<1>2. a \in State /\ b \in State
  BY <1>1, BetweenFacts
<1>3. Saves(a, p, size, f, rs, k, n, L0, L0) /\ Saves(b, p, size, f, rs, k, n, L0, L)
  BY <1>1, BetweenFacts
<1>4. c \in Instrs /\ c.step = i /\ c.op = "call"
  <2>1. i \in Nat
    BY ProgramFacts
  <2> QED
    BY <2>1 DEF Instrs, Ops
<1>5. s.callee \in DOMAIN p /\ p[s.callee].params \in Nat
  BY ProgramsAssumption, ProgramFacts
<1>6. \A j \in Nat : j > size + k => a.entry.cell[j] = {} /\ a.vals.cell[j] = {}
                                     /\ b.entry.cell[j] = {} /\ b.vals.cell[j] = {}
  <2> HIDE DEF a, b
  <2> QED
    BY <1>1, <1>3, AboveTheSaved
<1> HIDE DEF a, b
<1>7. /\ a.height = size + k + n /\ b.height = a.height /\ below >= size + k
      /\ below >= 0 /\ below \in Int /\ a.height \in Nat
  <2>1. a.height = size + k + n /\ b.height = size + k + n
    BY <1>3 DEF Saves
  <2>2. p[s.callee].params <= n
    OBVIOUS
  <2> HIDE DEF k, size, s
  <2>3. k \in Nat /\ size \in Nat
    BY <1>1 DEF k
  <2> QED
    BY <1>5, <2>1, <2>2, <2>3
<1>8. f \in fl => Odd(a.height)
  <2>1. \A x, y, z \in Nat : Odd(x) /\ ~ Odd(y) /\ ~ Odd(z) => Odd(x + y + z)
    BY DEF Odd
  <2> HIDE DEF k, size
  <2>2. k \in Nat /\ n \in Nat /\ size \in Nat /\ ~ Odd(k) /\ ~ Odd(n)
    BY <1>1 DEF k
  <2>3. f \in fl => Odd(size + k + n)
    BY <1>1, <2>1, <2>2
  <2> QED
    BY <1>7, <2>3
<1>9. b.entry.reg \subseteq a.entry.reg \cap Safe(p, s.callee)
  <2>1. s.callee \in Callees(p, f)
    BY DEF Callees
  <2>2. Clobbered(p, s.callee) \subseteq Clobbered(p, f)
    BY <2>1, ClobberedFacts
  <2>3. Kept(p, f) \subseteq Safe(p, s.callee)
    BY <2>2 DEF Kept, Safe
  <2> QED
    BY <1>3, <2>3 DEF Saves
<1>10. b.vals.reg \subseteq (a.vals.reg \cap Safe(p, s.callee)) \cup ({s.dst} \ {0})
  BY <1>3 DEF Saves
<1>11. ASSUME NEW j \in 1 .. a.height
       PROVE  /\ b.entry.cell[j] \subseteq (IF j <= below THEN a.entry.cell[j] ELSE {})
              /\ b.vals.cell[j] \subseteq (IF j <= below THEN a.vals.cell[j] \ {s.dst} ELSE {})
  <2>0. j \in Nat
    BY <1>7
  <2>1. CASE j > size + k
    BY <1>6, <2>0, <2>1
  <2>2. CASE ~ (j > size + k)
    <3>1. j <= below
      BY <1>1, <1>7, <2>0, <2>2
    <3>2. b.entry.cell[j] = a.entry.cell[j] /\ b.vals.cell[j] = a.vals.cell[j]
      BY <1>3, <2>0 DEF Saves
    <3>3. s.dst \notin a.vals.cell[j]
      <4>1. CASE j \in size + 1 .. size + k
        <5>1. j - size \in 1 .. Len(rs)
          BY <1>1, <4>1
        <5>2. a.vals.cell[j] = {rs[j - size]} \cap L0
          BY <1>3, <2>0, <4>1 DEF Saves
        <5> QED
          BY <5>1, <5>2
      <4>2. CASE j \notin size + 1 .. size + k
        BY <1>3, <2>0, <4>2 DEF Saves
      <4> QED
        BY <4>1, <4>2
    <3> QED
      BY <3>1, <3>2, <3>3
  <2> QED
    BY <2>1, <2>2
<1> HIDE DEF k, size
<1>12. CallsOn(p, fl, f, s, a, b)
  BY <1>7, <1>8, <1>9, <1>10, <1>11 DEF CallsOn
<1>13. Steps(p, fl, f, s, a, b)
  BY <1>7, <1>12 DEF Steps
<1>14. Fits(p, fl, f, c, a, b)
  BY <1>4, <1>13 DEF Fits
<1> HIDE DEF c
<1>15. Typed(p, fl, f, << c >>, a, b)
  BY <1>2, <1>4, <1>14, OneTyped
<1> QED
  BY <1>15 DEF a, b, c, k

-----------------------------------------------------------------------------
(* The body of a function, when what it calls directly has been allocated. *)

Live(f, i) == IF KnownToCallers(program) THEN LiveAfter(f, i) ELSE {}

Allocated(f) ==
  /\ program \in Programs /\ f \in F /\ assigned \in [F -> SUBSET Registers]
  /\ \A g \in F : g <= f => assigned[g] = Colours(g)

LEMMA LiveFacts ==
  ASSUME NEW f, Allocated(f)
  PROVE  /\ \A i \in Nat : Live(f, i) \in SUBSET Registers
         /\ Live(f, Len(Body(f))) = {}
         /\ \A i \in DOMAIN Body(f) :
              /\ \A r \in Live(f, i) : r \notin Writes(Body(f)[i]) => r \in Live(f, i - 1)
              /\ KnownToCallers(program) => Reads(Body(f)[i]) \subseteq Live(f, i - 1)
<1>1. program \in Programs /\ f \in DOMAIN program
  BY DEF Allocated, F
<1>2. /\ DOMAIN Body(f) = 1 .. Len(Body(f)) /\ Len(Body(f)) \in Nat
      /\ \A i \in DOMAIN Body(f) : Reads(Body(f)[i]) \subseteq Registers
  BY <1>1, ProgramFacts, StepFacts DEF Body
<1>3. Live(f, Len(Body(f))) = {}
  BY <1>2 DEF Live, LiveAfter
<1>4. ASSUME NEW i \in DOMAIN Body(f), NEW r \in Live(f, i), r \notin Writes(Body(f)[i])
      PROVE  r \in Live(f, i - 1)
  <2>1. KnownToCallers(program) /\ r \in LiveAfter(f, i)
    BY <1>4 DEF Live
  <2>2. PICK j \in DOMAIN Body(f) : /\ j > i /\ r \in Reads(Body(f)[j])
                                    /\ \A m \in i + 1 .. j - 1 : r \notin Writes(Body(f)[m])
    BY <2>1 DEF LiveAfter
  <2>3. \A m \in (i - 1) + 1 .. j - 1 : m = i \/ m \in i + 1 .. j - 1
    BY <1>2
  <2>4. j > i - 1 /\ r \in Registers
    BY <1>2, <2>1, <2>2 DEF LiveAfter
  <2>5. r \in LiveAfter(f, i - 1)
    BY <1>4, <2>2, <2>3, <2>4 DEF LiveAfter
  <2> QED
    BY <2>1, <2>5 DEF Live
<1>5. ASSUME NEW i \in DOMAIN Body(f), KnownToCallers(program), NEW r \in Reads(Body(f)[i])
      PROVE  r \in Live(f, i - 1)
  <2>1. i > i - 1 /\ (i - 1) + 1 .. i - 1 = {} /\ r \in Registers
    BY <1>2, <1>5
  <2>2. r \in LiveAfter(f, i - 1)
    BY <1>5, <2>1 DEF LiveAfter
  <2> QED
    BY <1>5, <2>2 DEF Live
<1>6. \A i \in Nat : Live(f, i) \in SUBSET Registers
  BY DEF Live, LiveAfter
<1> QED
  BY <1>3, <1>4, <1>5, <1>6

Restored(f, i) ==
  LET saved == SavedAround(f, i)
  IN (IF Odd(Cardinality(saved)) THEN << DummyCaller >> ELSE << >>) \o Ascending(saved)

LEMMA PoppedFacts ==
  ASSUME NEW f, Allocated(f), NEW i \in DOMAIN Body(f), Calls(f, i)
  PROVE  /\ Restored(f, i) \in Seq(Registers) /\ ~ Odd(Len(Restored(f, i)))
         /\ \A q \in 1 .. Len(Restored(f, i)) : Restored(f, i)[q] # Body(f)[i].dst
         /\ \A r \in SavedAround(f, i) : \E q \in 1 .. Len(Restored(f, i)) : Restored(f, i)[q] = r
<1> DEFINE R == SavedAround(f, i)
           saved == Ascending(R)
           dummy == IF Odd(Cardinality(R)) THEN << DummyCaller >> ELSE << >>
           dst == Body(f)[i].dst
<1>1. R \subseteq Registers /\ R \subseteq Nat /\ IsFiniteSet(R) /\ dst \notin R
  <2>1. R \subseteq Registers /\ dst \notin R
    BY DEF SavedAround, CallerSaved
  <2> QED
    BY <2>1, RegistersAssumption, FS_Subset
<1>2. /\ saved \in Seq(R) /\ Len(saved) = Cardinality(R) /\ Cardinality(R) \in Nat
      /\ \A r \in R : \E q \in 1 .. Cardinality(R) : saved[q] = r
  <2> HIDE DEF R
  <2> QED
    BY <1>1, AscendingFacts
<1>3. Restored(f, i) = dummy \o saved
  BY DEF Restored
<1>4. dst \in CallerSaved \cup {0}
  <2>1. Body(f)[i] \in Step
    BY ProgramFacts DEF Allocated, F, Body
  <2> QED
    BY <2>1, StepFacts DEF Calls
<1>5. DummyCaller \in Registers \ {dst}
  BY <1>4, RegistersAssumption DEF CallerSaved
<1> HIDE DEF R, saved, dst
<1>6. saved \in Seq(Registers \ {dst}) /\ Len(saved) \in Nat
  <2>1. R \subseteq Registers \ {dst}
    BY <1>1
  <2> QED
    BY <1>2, <2>1, SeqMonotonic
<1>7. dummy \in Seq(Registers \ {dst}) /\ Len(dummy) = (IF Odd(Cardinality(R)) THEN 1 ELSE 0)
  <2>1. \A T : DummyCaller \in T =>
          dummy \in Seq(T) /\ Len(dummy) = (IF Odd(Cardinality(R)) THEN 1 ELSE 0)
    OBVIOUS
  <2> QED
    BY <1>5, <2>1
<1>8. ~ Odd(Len(dummy) + Len(saved)) /\ Len(dummy) \in Nat
  <2>1. \A m \in Nat : ~ Odd((IF Odd(m) THEN 1 ELSE 0) + m)
    BY DEF Odd
  <2>2. Len(dummy) \in Nat
    BY <1>7
  <2> HIDE DEF dummy
  <2> QED
    BY <1>2, <1>7, <2>1, <2>2
<1> HIDE DEF dummy
<1>9. /\ dummy \o saved \in Seq(Registers \ {dst}) /\ Len(dummy \o saved) = Len(dummy) + Len(saved)
      /\ \A q \in 1 .. Len(dummy) + Len(saved) :
           (dummy \o saved)[q] = IF q <= Len(dummy) THEN dummy[q] ELSE saved[q - Len(dummy)]
  BY <1>6, <1>7, ConcatProperties
<1>10. \A q \in 1 .. Len(dummy \o saved) : (dummy \o saved)[q] # dst
  BY <1>9, ElementOfSeq
<1>11. dummy \o saved \in Seq(Registers)
  <2>1. Registers \ {dst} \subseteq Registers
    OBVIOUS
  <2> QED
    BY <1>9, <2>1, SeqMonotonic
<1>12. ASSUME NEW r \in R PROVE \E q \in 1 .. Len(dummy \o saved) : (dummy \o saved)[q] = r
  <2>1. PICK k \in 1 .. Len(saved) : saved[k] = r
    BY <1>2
  <2>2. k + Len(dummy) \in 1 .. Len(dummy) + Len(saved) /\ ~ (k + Len(dummy) <= Len(dummy))
        /\ (k + Len(dummy)) - Len(dummy) = k
    BY <1>6, <1>8
  <2>3. (dummy \o saved)[k + Len(dummy)] = r
    BY <1>9, <2>1, <2>2
  <2> QED
    BY <1>9, <2>2, <2>3
<1> QED
  BY <1>3, <1>8, <1>9, <1>10, <1>11, <1>12 DEF R, dst

(* A register that is live after a call and holds neither its result nor a *)
(* saved value was live before it, and is safe from the callee.            *)
LEMMA UnsavedIsSafe ==
  ASSUME NEW f, Allocated(f), NEW i \in DOMAIN Body(f), Calls(f, i),
         NEW r \in Live(f, i), r # Body(f)[i].dst
  PROVE  r \in Live(f, i - 1) /\ (r \notin SavedAround(f, i) => r \in Safe(program, Body(f)[i].callee))
<1> DEFINE s == Body(f)[i]
<1>1. program \in Programs /\ f \in DOMAIN program /\ i \in DOMAIN program[f].body /\ s = program[f].body[i]
      /\ s.op = "call"
  BY DEF Allocated, F, Body, Calls
<1>2. s \in Step /\ s.callee \in DOMAIN program /\ s.indirect \in BOOLEAN /\ i \in Nat
  BY <1>1, ProgramFacts, ProgramsAssumption, StepFacts
<1>3. Writes(s) = {s.dst} \ {0}
  BY <1>1 DEF Writes
<1>4. r \in Live(f, i - 1)
  BY <1>3, LiveFacts
<1>5. KnownToCallers(program) /\ r \in LiveAfter(f, i) /\ r \in Registers
  BY DEF Live, LiveAfter
<1>6. ASSUME r \notin SavedAround(f, i), r \in Clobbered(program, s.callee) PROVE FALSE
  <2>1. r \in CallerSaved
    BY <1>6, <1>2, ClobberedFacts, <1>1
  <2>2. ~ s.indirect /\ r \notin assigned[s.callee]
    BY <1>5, <1>6, <2>1 DEF SavedAround
  <2>3. s.callee <= f /\ Clobbered(program, s.callee) \subseteq Coloured(program[s.callee])
    BY <1>1, <1>5, <2>2 DEF KnownToCallers
  <2>4. assigned[s.callee] = Coloured(program[s.callee])
    BY <1>2, <2>3 DEF Allocated, F, Colours
  <2> QED
    BY <1>6, <2>2, <2>3, <2>4
<1> QED
  BY <1>4, <1>5, <1>6 DEF Safe

LEMMA CallCodeTyped ==
  ASSUME NEW f, Allocated(f), NEW i \in DOMAIN Body(f), Calls(f, i)
  PROVE  Typed(program, flagged, f, CallCode(f, i),
               Within(program, f, Size(program, flagged, f), Live(f, i - 1)),
               Within(program, f, Size(program, flagged, f), Live(f, i)))
<1> DEFINE p == program
           fl == flagged
           s == Body(f)[i]
           popped == Restored(f, i)
           rs == Reverse(popped)
           k == Len(popped)
           L0 == Live(f, i - 1)
           L == Live(f, i)
           M == Awaiting(popped, 0, L)
           n == RoundUp(p[s.callee].params)
           size == Size(p, fl, f)
           B(d, v) == Between(p, fl, f, rs, k, d, L0, v)
<1>1. p \in Programs /\ f \in DOMAIN p /\ i \in DOMAIN p[f].body /\ s = p[f].body[i] /\ s.op = "call"
  BY DEF Allocated, F, Body, Calls
<1>2. s \in Step /\ s.callee \in DOMAIN p /\ i \in Nat /\ i - 1 \in Nat
  BY <1>1, ProgramFacts, ProgramsAssumption
<1>3. popped \in Seq(Registers) /\ ~ Odd(k) /\ \A q \in 1 .. k : popped[q] # s.dst
  BY PoppedFacts
<1>4. L0 \in SUBSET Registers /\ L \in SUBSET Registers /\ M \in SUBSET Registers
  BY <1>2, LiveFacts DEF Awaiting
<1>5. n \in Nat /\ ~ Odd(n) /\ p[s.callee].params <= n
  <2>1. p[s.callee].params \in Nat
    BY <1>1, <1>2, ProgramFacts
  <2>2. \A m \in Nat : RoundUp(m) \in Nat /\ ~ Odd(RoundUp(m)) /\ m <= RoundUp(m)
    BY DEF RoundUp, Odd
  <2> QED
    BY <2>1, <2>2
<1>6. CallCode(f, i) = Each("push", rs) \o Move("sub", n) \o << BodyInstr(f, i) >>
                       \o Move("add", n) \o Each("pop", popped)
  BY Zenon DEF CallCode, Restored
<1> HIDE DEF popped, n, L0, L
<1>7. rs \in Seq(Registers) /\ Len(rs) = k /\ k \in Nat /\ k \in 0 .. Len(rs)
      /\ \A q \in 1 .. k : k - q + 1 \in 1 .. k /\ rs[q] = popped[k - q + 1]
  BY <1>3, ReverseFacts
<1> HIDE DEF rs
<1>8. Typed(p, fl, f, Each("push", rs), Within(p, f, size, L0), B(0, L0))
  BY <1>1, <1>4, <1>7, SavingTyped
<1>9. Typed(p, fl, f, Move("sub", n), B(0, L0), B(n, L0))
  BY <1>1, <1>4, <1>5, <1>7, MovingTyped
<1>10. Typed(p, fl, f, << BodyInstr(f, i) >>, B(n, L0), B(n, M))
  <2>1. \A q \in 1 .. Len(rs) : rs[q] # s.dst
    BY <1>3, <1>7
  <2>2. ASSUME NEW r \in M, r # s.dst PROVE r \in L0 \cap Safe(p, s.callee)
    <3>1. r \in Live(f, i) /\ \A q \in 1 .. k : popped[q] # r
      BY <2>2 DEF Awaiting, L
    <3>2. r \notin SavedAround(f, i)
      BY <3>1, PoppedFacts DEF popped
    <3> QED
      BY <2>2, <3>1, <3>2, UnsavedIsSafe DEF L0
  <2>3. M \subseteq (L0 \cap Safe(p, s.callee)) \cup ({s.dst} \ {0})
    <3>1. 0 \notin M
      BY <1>4, RegistersAssumption
    <3> HIDE DEF M
    <3> QED
      BY <2>2, <3>1
  <2>4. BodyInstr(f, i) = [op |-> p[f].body[i].op, reg |-> 0, step |-> i, n |-> 0]
    BY DEF BodyInstr, Body
  <2>5. /\ p[f].body[i].op = "call" /\ p[p[f].body[i].callee].params <= n
        /\ ~ Odd(Len(rs))
        /\ \A q \in 1 .. Len(rs) : rs[q] # p[f].body[i].dst
        /\ M \subseteq (L0 \cap Safe(p, p[f].body[i].callee)) \cup ({p[f].body[i].dst} \ {0})
    BY <1>1, <1>3, <1>5, <1>7, <2>1, <2>3
  <2> HIDE DEF M
  <2>6. Typed(p, fl, f, << [op |-> p[f].body[i].op, reg |-> 0, step |-> i, n |-> 0] >>,
              Between(p, fl, f, rs, Len(rs), n, L0, L0), Between(p, fl, f, rs, Len(rs), n, L0, M))
    BY <1>1, <1>4, <1>5, <1>7, <2>5, CallTyped
  <2> QED
    BY <1>7, <2>4, <2>6
<1>11. Typed(p, fl, f, Move("add", n), B(n, M), B(0, M))
  <2> HIDE DEF M
  <2> QED
    BY <1>1, <1>4, <1>5, <1>7, MovingTyped
<1>12. Typed(p, fl, f, Each("pop", popped), B(0, M), Within(p, f, size, L))
  <2>1. ASSUME NEW q \in 1 .. Len(popped), popped[q] \in L PROVE popped[q] \in L0
    BY <1>3, <2>1, UnsavedIsSafe DEF L, L0
  <2> QED
    BY <1>1, <1>3, <1>4, <2>1, RestoringTyped DEF rs
<1> HIDE DEF M, B
<1>13. Typed(p, fl, f, Each("push", rs) \o Move("sub", n), Within(p, f, size, L0), B(n, L0))
  BY <1>8, <1>9, ConcatTyped
<1>14. Typed(p, fl, f, Each("push", rs) \o Move("sub", n) \o << BodyInstr(f, i) >>,
             Within(p, f, size, L0), B(n, M))
  BY <1>10, <1>13, ConcatTyped
<1>15. Typed(p, fl, f, Each("push", rs) \o Move("sub", n) \o << BodyInstr(f, i) >> \o Move("add", n),
             Within(p, f, size, L0), B(0, M))
  BY <1>11, <1>14, ConcatTyped
<1>16. Typed(p, fl, f, CallCode(f, i), Within(p, f, size, L0), Within(p, f, size, L))
  BY <1>6, <1>12, <1>15, ConcatTyped
<1> QED
  BY <1>16 DEF L0, L

LEMMA StepTyped ==
  ASSUME NEW f, Allocated(f), NEW i \in DOMAIN Body(f)
  PROVE  Typed(program, flagged, f, StepCode(f, i),
               Within(program, f, Size(program, flagged, f), Live(f, i - 1)),
               Within(program, f, Size(program, flagged, f), Live(f, i)))
<1> DEFINE p == program
           fl == flagged
           s == Body(f)[i]
           size == Size(p, fl, f)
           a == Within(p, f, size, Live(f, i - 1))
           b == Within(p, f, size, Live(f, i))
           c == BodyInstr(f, i)
<1>1. CASE Calls(f, i)
  BY <1>1, CallCodeTyped DEF StepCode
<1>2. CASE ~ Calls(f, i)
  <2>1. p \in Programs /\ f \in DOMAIN p /\ i \in DOMAIN p[f].body /\ s = p[f].body[i]
    BY DEF Allocated, F, Body
  <2>2. s \in Step /\ i \in Nat /\ i - 1 \in Nat /\ size \in Nat /\ (f \in fl => Odd(size))
    <3>1. s \in Step /\ i \in Nat /\ i - 1 \in Nat
      BY <2>1, ProgramFacts
    <3>2. size \in Nat /\ (f \in fl => Odd(size))
      BY <2>1, SizeFacts
    <3> QED
      BY <3>1, <3>2
  <2>3. s.op \in {"set", "use", "leave", "copy", "param"} /\ (s.op \in {"set", "use"} => s.reg \in Registers)
    BY <1>2, <2>2, StepFacts DEF Calls
  <2>4. c = [op |-> s.op, reg |-> 0, step |-> i, n |-> 0]
    BY DEF BodyInstr
  <2>5. c \in Instrs
    BY <2>2, <2>3, <2>4 DEF Instrs, Ops
  <2>6. Live(f, i - 1) \in SUBSET Registers /\ Live(f, i) \in SUBSET Registers
    BY <2>2, LiveFacts
  <2>7. /\ a \in State /\ b \in State /\ a.height = size /\ b.height = size
        /\ a.entry = Frame(p, f) /\ b.entry = Frame(p, f)
        /\ a.vals.reg = Live(f, i - 1) /\ b.vals.reg = Live(f, i)
        /\ \A j \in Nat : a.vals.cell[j] = {} /\ b.vals.cell[j] = {}
    BY <2>1, <2>2, <2>6, WithinFacts
  <2> HIDE DEF a, b
  <2>8. \A j \in 1 .. a.height : j \in Nat
    BY <2>2, <2>7
  <2>9. \A r \in Live(f, i) : r \notin Writes(s) => r \in Live(f, i - 1)
    BY LiveFacts
  <2>10. Steps(p, fl, f, s, a, b)
    <3>1. CASE s.op = "set"
      <4>1. Writes(s) = {s.reg} /\ s.reg \notin Kept(p, f)
        <5>1. Writes(s) = {s.reg}
          BY <3>1 DEF Writes
        <5> QED
          BY <2>1, <5>1, ColouredFacts DEF Kept
      <4>2. b.vals.reg \subseteq a.vals.reg \cup {s.reg}
        BY <2>7, <2>9, <4>1
      <4>3. b.entry.reg \subseteq a.entry.reg \ {s.reg}
        BY <2>1, <2>7, <4>1, FrameFacts
      <4>4. Sets(s, a, b)
        BY <2>7, <2>8, <4>2, <4>3 DEF Sets
      <4> QED
        BY <2>7, <3>1, <4>4 DEF Steps
    <3>2. CASE s.op # "set"
      <4>1. Writes(s) = {}
        BY <2>3, <3>2 DEF Writes
      <4>2. Weaker(a.height, a.entry, b.entry) /\ Weaker(a.height, a.vals, b.vals)
        BY <2>7, <2>8, <2>9, <4>1 DEF Weaker
      <4>3. Looks(p, fl, f, s, a)
        <5>1. CASE s.op = "use"
          <6>1. Reads(s) = {s.reg}
            BY <5>1 DEF Reads
          <6> QED
            BY <2>7, <5>1, <6>1, LiveFacts DEF Looks
        <5>2. CASE s.op = "leave"
          BY <2>7, <5>2 DEF Looks, Weaker
        <5>3. CASE s.op = "copy"
          BY <2>2, <2>7, <5>3 DEF Looks
        <5>4. CASE s.op = "param"
          BY <2>7, <5>4 DEF Looks
        <5> QED
          BY <2>3, <3>2, <5>1, <5>2, <5>3, <5>4
      <4> QED
        BY <2>7, <4>2, <4>3 DEF Steps
    <3> QED
      BY <3>1, <3>2
  <2>11. Fits(p, fl, f, c, a, b)
    BY <2>1, <2>4, <2>10 DEF Fits
  <2>12. Typed(p, fl, f, << c >>, a, b)
    BY <2>5, <2>7, <2>11, OneTyped
  <2> QED
    BY <1>2, <2>12 DEF StepCode, a, b
<1> QED
  BY <1>1, <1>2

LEMMA BodyTyped ==
  ASSUME NEW f, Allocated(f)
  PROVE  Typed(program, flagged, f, BodyCode(f),
               Within(program, f, Size(program, flagged, f), Live(f, 0)),
               Within(program, f, Size(program, flagged, f), {}))
<1> DEFINE n == Len(Body(f))
           Inside(i) == Within(program, f, Size(program, flagged, f), Live(f, i))
           OfStep(i) == StepCode(f, i)
           Solves(h) == h = [i \in 0 .. n |-> IF i = 0 THEN << >> ELSE h[i - 1] \o OfStep(i)]
           upTo == CHOOSE h : Solves(h)
           next == [e \in (1 .. n) \X Seq(Instrs) |-> e[2] \o OfStep(e[1])]
           T == { i \in Nat : i <= n => Typed(program, flagged, f, upTo[i], Inside(0), Inside(i)) }
<1>1. program \in Programs /\ f \in DOMAIN program /\ DOMAIN Body(f) = 1 .. n /\ n \in Nat
  BY ProgramFacts DEF Allocated, F, Body
<1>2. \A i \in 1 .. n : Typed(program, flagged, f, OfStep(i), Inside(i - 1), Inside(i))
  BY <1>1, StepTyped
<1>3. \A i \in 1 .. n : OfStep(i) \in Seq(Instrs)
  BY <1>2 DEF Typed
<1>4. BodyCode(f) = upTo[n]
  BY DEF BodyCode
<1>5. Inside(0) \in State
  <2>1. Live(f, 0) \in SUBSET Registers /\ Size(program, flagged, f) \in Nat
    BY <1>1, LiveFacts, SizeFacts
  <2> QED
    BY <1>1, <2>1, WithinFacts
<1>6. Inside(n) = Within(program, f, Size(program, flagged, f), {})
  BY LiveFacts
<1> HIDE DEF OfStep, Inside, n
<1>7. \E h : Solves(h)
  <2>1. << >> \in Seq(Instrs)
    BY EmptySeq
  <2>2. next \in [(1 .. n) \X Seq(Instrs) -> Seq(Instrs)]
    <3>1. ASSUME NEW e \in (1 .. n) \X Seq(Instrs) PROVE e[2] \o OfStep(e[1]) \in Seq(Instrs)
      <4>1. e[2] \in Seq(Instrs) /\ e[1] \in 1 .. n
        OBVIOUS
      <4> QED
        BY <1>3, <4>1, ConcatProperties
    <3> QED
      BY <3>1
  <2>3. \A i \in 1 .. n, x \in Seq(Instrs) : next[<< i, x >>] = x \o OfStep(i)
    OBVIOUS
  <2> DEFINE nothing == << >>
  <2> HIDE DEF next, nothing
  <2>4. PICK g \in [0 .. n -> Seq(Instrs)] : Recurs(g, n, nothing, next)
    <3>1. nothing \in Seq(Instrs)
      BY <2>1 DEF nothing
    <3> QED
      BY <1>1, <2>2, <3>1, RecursionExists
  <2>5. ASSUME NEW i \in 0 .. n PROVE g[i] = IF i = 0 THEN << >> ELSE g[i - 1] \o OfStep(i)
    <3>1. CASE i = 0
      BY <2>4, <3>1 DEF nothing, Recurs
    <3>2. CASE i # 0
      <4>1. i \in 1 .. n /\ i - 1 \in 0 .. n
        BY <1>1, <3>2
      <4>2. g[i - 1] \in Seq(Instrs)
        BY <4>1
      <4> QED
        BY <2>3, <2>4, <3>2, <4>1, <4>2 DEF Recurs
    <3> QED
      BY <3>1, <3>2
  <2>6. Solves(g)
    BY <2>5
  <2> QED
    BY <2>6
<1>8. Solves(upTo)
  <2> HIDE DEF Solves
  <2> QED
    BY <1>7
<1>9. upTo[0] = << >> /\ \A i \in 1 .. n : upTo[i] = upTo[i - 1] \o OfStep(i)
  <2> HIDE DEF upTo
  <2>1. 0 \in 0 .. n /\ \A i \in 1 .. n : i \in 0 .. n /\ i # 0
    BY <1>1
  <2> QED
    BY <1>8, <2>1
<1> HIDE DEF upTo, Solves
<1>10. 0 \in T
  BY <1>5, <1>9, NothingTyped
<1>11. ASSUME NEW i \in Nat, i \in T PROVE i + 1 \in T
  <2> SUFFICES ASSUME i + 1 <= n
               PROVE  Typed(program, flagged, f, upTo[i + 1], Inside(0), Inside(i + 1))
    OBVIOUS
  <2>1. i + 1 \in 1 .. n /\ (i + 1) - 1 = i /\ i <= n
    BY <1>1
  <2>2. Typed(program, flagged, f, upTo[i], Inside(0), Inside(i))
    BY <1>11, <2>1
  <2>3. Typed(program, flagged, f, OfStep(i + 1), Inside(i), Inside(i + 1))
    BY <1>2, <2>1
  <2>4. upTo[i + 1] = upTo[i] \o OfStep(i + 1)
    BY <1>9, <2>1
  <2> QED
    BY <2>2, <2>3, <2>4, ConcatTyped
<1>12. n \in T
  <2> HIDE DEF T
  <2> QED
    BY <1>1, <1>10, <1>11, Induction
<1> QED
  BY <1>1, <1>4, <1>6, <1>12 DEF Inside

-----------------------------------------------------------------------------
(* The local variables. *)

LEMMA LocalMoveTyped ==
  ASSUME NEW p \in Programs, NEW f \in DOMAIN p, NEW fl, NEW L \in SUBSET Registers
  PROVE  /\ Typed(p, fl, f, Move("sub", Locals(p, fl, f)), Within(p, f, Len(Pushes(p, f)), L),
                  Within(p, f, Size(p, fl, f), L))
         /\ Typed(p, fl, f, Move("add", Locals(p, fl, f)), Within(p, f, Size(p, fl, f), L),
                  Within(p, f, Len(Pushes(p, f)), L))
<1> DEFINE n == Locals(p, fl, f)
           low == Within(p, f, Len(Pushes(p, f)), L)
           high == Within(p, f, Size(p, fl, f), L)
<1>1. n \in Nat /\ Len(Pushes(p, f)) \in Nat /\ Size(p, fl, f) = Len(Pushes(p, f)) + n /\ Size(p, fl, f) \in Nat
  BY SizeFacts, PushesFacts DEF Size
<1>2. /\ low \in State /\ high \in State
      /\ low.height = Len(Pushes(p, f)) /\ high.height = low.height + n
      /\ low.entry = Frame(p, f) /\ high.entry = Frame(p, f)
      /\ low.vals.reg = L /\ high.vals.reg = L
      /\ \A j \in Nat : low.vals.cell[j] = {} /\ high.vals.cell[j] = {}
  BY <1>1, WithinFacts
<1>3. CASE n = 0
  <2>1. Move("sub", n) = << >> /\ Move("add", n) = << >> /\ high = low
    BY <1>1, <1>3 DEF Move
  <2> QED
    BY <1>2, <2>1, NothingTyped
<1>4. CASE n # 0
  <2> DEFINE c(op) == [op |-> op, reg |-> 0, step |-> 0, n |-> n]
  <2>1. Move("sub", n) = << c("sub") >> /\ Move("add", n) = << c("add") >>
    BY <1>4 DEF Move
  <2> HIDE DEF low, high, n
  <2>2. c("sub") \in Instrs /\ c("add") \in Instrs
    BY <1>1 DEF Instrs, Ops
  <2>3. \A j \in low.height + 1 .. low.height + n : j \in Nat /\ j \notin 1 .. Len(Pushes(p, f))
    BY <1>1, <1>2
  <2>4. \A j \in low.height + 1 .. low.height + n : high.entry.cell[j] = {} /\ high.vals.cell[j] = {}
    BY <1>2, <2>3, FrameFacts
  <2>5. \A j \in 1 .. low.height : j \in Nat
    BY <1>1, <1>2
  <2>6. /\ Weaker(low.height, low.entry, high.entry) /\ Weaker(low.height, high.entry, low.entry)
        /\ Weaker(low.height, low.vals, high.vals) /\ Weaker(low.height, high.vals, low.vals)
    BY <1>2, <2>5 DEF Weaker
  <2>7. low.height = high.height - n /\ n <= high.height
    BY <1>1, <1>2
  <2>8. Manages(c("sub"), low, high)
    BY <1>2, <2>4, <2>6 DEF Manages, Opened
  <2>9. Manages(c("add"), high, low)
    BY <2>6, <2>7 DEF Manages
  <2>10. Fits(p, fl, f, c("sub"), low, high) /\ Fits(p, fl, f, c("add"), high, low)
    BY <2>8, <2>9 DEF Fits
  <2> HIDE DEF c
  <2>11. Typed(p, fl, f, << c("sub") >>, low, high) /\ Typed(p, fl, f, << c("add") >>, high, low)
    BY <1>2, <2>2, <2>10, OneTyped
  <2> QED
    BY <2>1, <2>11 DEF low, high, n
<1> QED
  BY <1>3, <1>4

(* An instruction that only moves the stack fits as such. *)
LEMMA MoveFits ==
  ASSUME NEW p \in Programs, NEW f \in DOMAIN p, NEW fl, NEW c, NEW a, NEW b,
         Fits(p, fl, f, c, a, b)
  PROVE  /\ c.op = "sub" => /\ b.height = a.height + c.n
                            /\ Opened(c.n, a.height, a.entry, b.entry)
                            /\ Opened(c.n, a.height, a.vals, b.vals)
         /\ c.op = "add" => /\ c.n <= a.height /\ b.height = a.height - c.n
                            /\ Weaker(b.height, a.entry, b.entry) /\ Weaker(b.height, a.vals, b.vals)
<1>1. \A i \in DOMAIN p[f].body : p[f].body[i].op \notin {"sub", "add"}
  BY ProgramFacts, StepFacts
<1> QED
  BY <1>1 DEF Fits, Manages

LEMMA WithLocalsTyped ==
  ASSUME NEW p \in Programs, NEW f \in DOMAIN p, NEW fl, NEW c,
         NEW L0 \in SUBSET Registers, NEW L1 \in SUBSET Registers,
         Typed(p, fl, f, c, Within(p, f, Size(p, fl, f), L0), Within(p, f, Size(p, fl, f), L1))
  PROVE  Typed(p, fl, f, WithLocals(c, Locals(p, fl, f)),
               Within(p, f, Len(Pushes(p, f)), L0), Within(p, f, Len(Pushes(p, f)), L1))
<1> DEFINE k == Len(Pushes(p, f))
           size == Locals(p, fl, f)
           low(L) == Within(p, f, k, L)
           high(L) == Within(p, f, k + size, L)
           N == Len(c)
           first == c # << >> /\ c[1].op = "sub"
           last == c # << >> /\ c[N].op = "add"
           grown == [ j \in DOMAIN c |->
                        IF (j = 1 /\ first) \/ (j = N /\ last) THEN [c[j] EXCEPT !.n = @ + size]
                        ELSE c[j] ]
           a == IF first THEN low(L0) ELSE high(L0)
           b == IF last THEN low(L1) ELSE high(L1)
<1>1. k \in Nat /\ size \in Nat /\ Size(p, fl, f) = k + size /\ k + size \in Nat
  BY SizeFacts, PushesFacts DEF Size
<1>2. CASE size = 0
  BY <1>1, <1>2 DEF WithLocals
<1>3. CASE size # 0
  <2>1. WithLocals(c, size) = (IF first THEN << >> ELSE Move("sub", size)) \o grown
                              \o (IF last THEN << >> ELSE Move("add", size))
    BY <1>3 DEF WithLocals
  <2>2. Typed(p, fl, f, c, high(L0), high(L1)) /\ c \in Seq(Instrs)
    BY <1>1 DEF Typed
  <2>3. N \in Nat /\ DOMAIN c = 1 .. N /\ (c # << >> <=> N # 0) /\ \A j \in 1 .. N : c[j] \in Instrs
    <3>1. N \in Nat /\ DOMAIN c = 1 .. N /\ \A j \in 1 .. N : c[j] \in Instrs
      BY <2>2, LenProperties, ElementOfSeq
    <3>2. c # << >> <=> N # 0
      BY <2>2, EmptySeq
    <3> QED
      BY <3>1, <3>2
  <2>4. PICK ann \in [1 .. N + 1 -> State] :
          /\ ann[1] = high(L0) /\ ann[N + 1] = high(L1)
          /\ \A j \in 1 .. N : Fits(p, fl, f, c[j], ann[j], ann[j + 1])
    BY <2>2 DEF Typed
  <2>5. \A L \in SUBSET Registers :
          /\ low(L) \in State /\ high(L) \in State
          /\ low(L).height = k /\ high(L).height = k + size
          /\ low(L).entry = Frame(p, f) /\ high(L).entry = Frame(p, f)
          /\ low(L).vals.reg = L /\ high(L).vals.reg = L
          /\ \A j \in Nat : low(L).vals.cell[j] = {} /\ high(L).vals.cell[j] = {}
    BY <1>1, WithinFacts
  <2>6. \A j \in Nat : j > k => Frame(p, f).cell[j] = {}
    <3>1. \A j \in Nat : j > k => j \notin 1 .. k
      BY <1>1
    <3> QED
      BY <3>1, FrameFacts
  <2>7. /\ Typed(p, fl, f, Move("sub", size), low(L0), high(L0))
        /\ Typed(p, fl, f, Move("add", size), high(L1), low(L1))
    BY <1>1, LocalMoveTyped
  <2> HIDE DEF k, size, low, high, N
  <2>8. Typed(p, fl, f, IF first THEN << >> ELSE Move("sub", size), low(L0), a)
    BY <2>5, <2>7, NothingTyped
  <2>9. Typed(p, fl, f, IF last THEN << >> ELSE Move("add", size), b, low(L1))
    BY <2>5, <2>7, NothingTyped
  <2>10. ~ (first /\ last /\ N = 1)
    OBVIOUS
  <2>11. grown \in Seq(Instrs) /\ Len(grown) = N
    <3>1. ASSUME NEW j \in 1 .. N
          PROVE  (IF (j = 1 /\ first) \/ (j = N /\ last) THEN [c[j] EXCEPT !.n = @ + size] ELSE c[j]) \in Instrs
      <4>1. \A x \in Instrs : [x EXCEPT !.n = @ + size] \in Instrs
        BY <1>1 DEF Instrs
      <4> HIDE DEF first, last
      <4> QED
        BY <2>3, <4>1
    <3>2. grown \in [1 .. N -> Instrs]
      BY <2>3, <3>1
    <3> QED
      BY <2>3, <3>2, SeqDef
  <2>12. \A j \in 1 .. N : grown[j] =
           IF (j = 1 /\ first) \/ (j = N /\ last) THEN [c[j] EXCEPT !.n = @ + size] ELSE c[j]
    BY <2>3
  <2> DEFINE new == [j \in 1 .. N + 1 |-> IF j = 1 /\ first THEN low(L0)
                                          ELSE IF j = N + 1 /\ last THEN low(L1) ELSE ann[j]]
  <2>13. new \in [1 .. N + 1 -> State]
    BY <2>5
  <2>14. 1 \in 1 .. N + 1 /\ N + 1 \in 1 .. N + 1 /\ (N + 1 = 1 <=> c = << >>)
    BY <2>3
  <2>15. new[1] = a /\ new[N + 1] = b
    BY <2>3, <2>4, <2>14
  <2>16. \A j \in 1 .. N + 1 : new[j] = IF j = 1 /\ first THEN low(L0)
                                        ELSE IF j = N + 1 /\ last THEN low(L1) ELSE ann[j]
    OBVIOUS
  <2> HIDE DEF grown, new
  <2>17. ASSUME NEW j \in 1 .. N PROVE Fits(p, fl, f, grown[j], new[j], new[j + 1])
    <3>1. j \in 1 .. N + 1 /\ j + 1 \in 1 .. N + 1 /\ j + 1 # 1 /\ j # N + 1
      BY <2>3
    <3>2. Fits(p, fl, f, c[j], ann[j], ann[j + 1]) /\ c[j] \in Instrs
      BY <2>3, <2>4
    <3>3. ann[j] \in State /\ ann[j + 1] \in State /\ ann[j].height \in Nat /\ ann[j + 1].height \in Nat
          /\ c[j].n \in Nat
      BY <3>1, <3>2 DEF State, Instrs
    <3>4. CASE j = 1 /\ first
      <4>1. grown[j] = [c[j] EXCEPT !.n = @ + size] /\ c[j].op = "sub"
        BY <2>12, <3>4
      <4>2. grown[j].op = "sub" /\ grown[j].n = c[j].n + size
        BY <3>2, <4>1 DEF Instrs
      <4>3. new[j] = low(L0) /\ ann[j] = high(L0)
        BY <2>4, <2>16, <3>1, <3>4
      <4>4. new[j + 1] = ann[j + 1]
        <5>1. ~ (j + 1 = N + 1 /\ last)
          BY <2>3, <4>1
        <5> QED
          BY <2>16, <3>1, <5>1
      <4> DEFINE y == ann[j + 1]
      <4>5. /\ y.height = k + size + c[j].n
            /\ Opened(c[j].n, k + size, high(L0).entry, y.entry)
            /\ Opened(c[j].n, k + size, high(L0).vals, y.vals)
        BY <2>5, <3>2, <4>1, <4>3, MoveFits
      <4> HIDE DEF y
      <4>6. \A i \in 1 .. k : i \in Nat /\ i \in 1 .. k + size
        BY <1>1
      <4>7. Weaker(k, low(L0).entry, y.entry) /\ Weaker(k, low(L0).vals, y.vals)
        BY <2>5, <4>5, <4>6 DEF Opened, Weaker
      <4>8. ASSUME NEW i \in k + 1 .. k + (c[j].n + size)
            PROVE  y.entry.cell[i] = {} /\ y.vals.cell[i] = {}
        <5>1. i \in Nat /\ i > k /\ (i \in 1 .. k + size \/ i \in k + size + 1 .. k + size + c[j].n)
          BY <1>1, <3>3
        <5>2. CASE i \in 1 .. k + size
          BY <2>5, <2>6, <4>5, <5>1, <5>2 DEF Opened, Weaker
        <5>3. CASE i \in k + size + 1 .. k + size + c[j].n
          BY <4>5, <5>3 DEF Opened
        <5> QED
          BY <5>1, <5>2, <5>3
      <4>9. y.height = k + (c[j].n + size)
        BY <1>1, <3>3, <4>5
      <4>10. Manages(grown[j], low(L0), y)
        BY <2>5, <4>2, <4>7, <4>8, <4>9 DEF Manages, Opened
      <4> QED
        BY <4>3, <4>4, <4>10 DEF Fits, y
    <3>5. CASE j = N /\ last
      <4>1. grown[j] = [c[j] EXCEPT !.n = @ + size] /\ c[j].op = "add"
        BY <2>12, <3>5
      <4>2. grown[j].op = "add" /\ grown[j].n = c[j].n + size
        BY <3>2, <4>1 DEF Instrs
      <4>3. new[j + 1] = low(L1) /\ ann[j + 1] = high(L1)
        BY <2>4, <2>16, <3>1, <3>5
      <4>4. new[j] = ann[j]
        BY <2>16, <3>1, <3>5, <4>1
      <4> DEFINE y == ann[j]
      <4>5. /\ c[j].n <= y.height /\ k + size = y.height - c[j].n
            /\ Weaker(k + size, y.entry, high(L1).entry)
            /\ Weaker(k + size, y.vals, high(L1).vals)
        BY <2>5, <3>2, <4>1, <4>3, MoveFits
      <4>6. y.height \in Nat
        BY <3>3
      <4> HIDE DEF y
      <4>7. \A i \in 1 .. k : i \in Nat /\ i \in 1 .. k + size
        BY <1>1
      <4>8. Weaker(k, y.entry, low(L1).entry) /\ Weaker(k, y.vals, low(L1).vals)
        BY <2>5, <4>5, <4>7 DEF Weaker
      <4>9. c[j].n + size <= y.height /\ k = y.height - (c[j].n + size)
        BY <1>1, <3>3, <4>5, <4>6
      <4>10. Manages(grown[j], y, low(L1))
        BY <2>5, <4>2, <4>8, <4>9 DEF Manages
      <4> QED
        BY <4>3, <4>4, <4>10 DEF Fits, y
    <3>6. CASE ~ (j = 1 /\ first) /\ ~ (j = N /\ last)
      <4>1. grown[j] = c[j]
        BY <2>12, <3>6
      <4>2. new[j] = ann[j]
        BY <2>16, <3>1, <3>6
      <4>3. j + 1 = N + 1 => j = N
        BY <2>3
      <4>4. new[j + 1] = ann[j + 1]
        BY <2>16, <3>1, <3>6, <4>3
      <4> QED
        BY <3>2, <4>1, <4>2, <4>4
    <3> QED
      BY <3>4, <3>5, <3>6
  <2>18. Typed(p, fl, f, grown, a, b)
    BY <2>11, <2>13, <2>15, <2>17 DEF Typed
  <2> HIDE DEF a, b, first, last
  <2>19. Typed(p, fl, f, WithLocals(c, size), low(L0), low(L1))
    BY <2>1, <2>8, <2>9, <2>18, ConcatTyped
  <2> QED
    BY <2>19 DEF low, k, size
<1> QED
  BY <1>2, <1>3

-----------------------------------------------------------------------------
(* The entry and the exits of a function. *)

LEMMA EntryTyped ==
  ASSUME NEW p \in Programs, NEW f \in DOMAIN p, NEW fl, NEW L \in SUBSET Registers
  PROVE  \E a \in State : /\ a.height = 0
                          /\ Typed(p, fl, f, Each("push", Pushes(p, f)), a, Within(p, f, Len(Pushes(p, f)), L))
<1> DEFINE rs == Pushes(p, f)
           n == Len(rs)
           none == [j \in Nat |-> {}]
           B(q) == [ height |-> q,
                     entry |-> [cell |-> Frame(p, f).cell,
                                reg |-> IF q = n THEN Kept(p, f) ELSE Registers],
                     vals |-> [cell |-> none, reg |-> L] ]
           z == [q \in 0 .. n |-> B(q)]
<1>1. rs \in Seq(Registers) /\ n \in Nat /\ \A q \in 1 .. n : rs[q] \in Registers
  BY PushesFacts
<1>2. /\ Frame(p, f).cell \in [Nat -> SUBSET Registers] /\ Kept(p, f) \in SUBSET Registers
      /\ none \in [Nat -> SUBSET Registers]
      /\ \A q \in 1 .. n : q \in Nat /\ Frame(p, f).cell[q] = {rs[q]}
  <2>1. Frame(p, f) \in Half /\ Kept(p, f) \in SUBSET Registers
        /\ \A q \in Nat : Frame(p, f).cell[q] = IF q \in 1 .. Len(Pushes(p, f)) THEN {Pushes(p, f)[q]} ELSE {}
    BY FrameFacts
  <2>2. \A q \in 1 .. n : q \in Nat
    BY <1>1
  <2> QED
    BY <2>1, <2>2 DEF Half
<1>3. Within(p, f, n, L) = B(n)
  BY DEF Within, Frame
<1>4. \A q \in 0 .. n : B(q) \in State
  BY <1>1, <1>2 DEF State, Half
<1>5. z \in [0 .. n -> State]
  BY <1>4
<1> HIDE DEF rs, n, none
<1>6. ASSUME NEW q \in 1 .. n PROVE Manages(Instr("push", rs[q]), z[q - 1], z[q])
  <2>1. q \in 0 .. n /\ q - 1 \in 0 .. n /\ q - 1 # n /\ (q - 1) + 1 = q
    BY <1>1
  <2>2. z[q - 1] = B(q - 1) /\ z[q] = B(q)
    BY <2>1
  <2> DEFINE a == B(q - 1)
             b == B(q)
  <2>3. /\ a.height = q - 1 /\ b.height = q /\ b.height = a.height + 1
        /\ a.entry.cell = Frame(p, f).cell /\ b.entry.cell = Frame(p, f).cell
        /\ a.entry.reg = Registers /\ b.entry.reg \subseteq Registers
        /\ a.vals = b.vals /\ a.vals.cell = none
    BY <1>2, <2>1
  <2> HIDE DEF a, b, B
  <2>4. b.entry.cell[a.height + 1] = {rs[q]} /\ rs[q] \in Registers /\ b.vals.cell[a.height + 1] = {}
    BY <1>1, <1>2, <2>1, <2>3 DEF none
  <2>5. Pushed(rs[q], a.height, a.entry, b.entry) /\ Pushed(rs[q], a.height, a.vals, b.vals)
    BY <2>3, <2>4 DEF Pushed, Weaker
  <2>6. Manages(Instr("push", rs[q]), a, b)
    BY <2>3, <2>4, <2>5 DEF Manages, Instr
  <2> QED
    BY <2>2, <2>6 DEF a, b
<1>7. z[0] = B(0) /\ z[n] = B(n) /\ B(0) \in State /\ B(0).height = 0
  <2>1. 0 \in 0 .. n /\ n \in 0 .. n
    BY <1>1
  <2> QED
    BY <1>4, <2>1
<1> HIDE DEF z, B
<1>8. Typed(p, fl, f, Each("push", rs), z[0], z[n])
  BY <1>1, <1>5, <1>6, EachTyped DEF n
<1> QED
  BY <1>3, <1>7, <1>8 DEF rs, n

LEMMA ExitTyped ==
  ASSUME NEW p \in Programs, NEW f \in DOMAIN p, NEW fl, NEW after \in State
  PROVE  Typed(p, fl, f, Each("pop", Reverse(Pushes(p, f))) \o << Instr("ret", 0) >>,
               Within(p, f, Len(Pushes(p, f)), {}), after)
<1> DEFINE ps == Pushes(p, f)
           rs == Reverse(ps)
           n == Len(ps)
           none == [j \in Nat |-> {}]
           back(q) == { ps[j] : j \in n - q + 1 .. n }
           B(q) == [ height |-> n - q,
                     entry |-> [cell |-> Frame(p, f).cell, reg |-> Kept(p, f) \cup back(q)],
                     vals |-> [cell |-> none, reg |-> {}] ]
           z == [q \in 0 .. n |-> B(q)]
           ret == Instr("ret", 0)
<1>1. /\ ps \in Seq(Registers) /\ n \in Nat /\ \A q \in 1 .. n : ps[q] \in Registers
      /\ \A r \in Coloured(p[f]) \cap CalleeSaved : \E j \in 1 .. n : ps[j] = r
  BY PushesFacts
<1>2. rs \in Seq(Registers) /\ Len(rs) = n /\ \A q \in 1 .. n : rs[q] = ps[n - q + 1]
  BY <1>1, ReverseFacts
<1>3. /\ Frame(p, f).cell \in [Nat -> SUBSET Registers] /\ Kept(p, f) \in SUBSET Registers
      /\ none \in [Nat -> SUBSET Registers]
      /\ \A q \in 1 .. n : q \in Nat /\ Frame(p, f).cell[q] = {ps[q]}
  <2>1. Frame(p, f) \in Half /\ Kept(p, f) \in SUBSET Registers
        /\ \A q \in Nat : Frame(p, f).cell[q] = IF q \in 1 .. Len(Pushes(p, f)) THEN {Pushes(p, f)[q]} ELSE {}
    BY FrameFacts
  <2>2. \A q \in 1 .. n : q \in Nat
    BY <1>1
  <2> QED
    BY <2>1, <2>2 DEF Half
<1>4. \A q \in 0 .. n : back(q) \in SUBSET Registers /\ n - q \in Nat
  <2>1. \A q \in 0 .. n : n - q \in Nat /\ \A j \in n - q + 1 .. n : j \in 1 .. n
    BY <1>1
  <2> QED
    BY <1>1, <2>1
<1>5. B(0) = Within(p, f, n, {})
  <2>1. n - 0 + 1 .. n = {} /\ n - 0 = n
    BY <1>1
  <2>2. back(0) = {}
    BY <2>1
  <2>3. Frame(p, f) = [cell |-> Frame(p, f).cell, reg |-> Kept(p, f)]
    BY DEF Frame
  <2> HIDE DEF back
  <2> QED
    BY <2>1, <2>2, <2>3 DEF Within
<1>6. \A q \in 0 .. n : B(q) \in State
  <2> HIDE DEF back
  <2> QED
    BY <1>3, <1>4 DEF State, Half
<1>7. z \in [0 .. n -> State]
  BY <1>6
<1> HIDE DEF ps, rs, n, none
<1>8. ASSUME NEW q \in 1 .. n PROVE Manages(Instr("pop", rs[q]), z[q - 1], z[q])
  <2>1. q \in 0 .. n /\ q - 1 \in 0 .. n /\ q \in Nat /\ n - (q - 1) \in 1 .. n /\ n - (q - 1) = n - q + 1
        /\ n - q = (n - (q - 1)) - 1 /\ n - (q - 1) > 0
    BY <1>1
  <2>2. z[q - 1] = B(q - 1) /\ z[q] = B(q)
    BY <2>1
  <2>3. back(q) \subseteq back(q - 1) \cup {ps[n - q + 1]}
    <3>1. \A j \in n - q + 1 .. n : j = n - q + 1 \/ j \in n - (q - 1) + 1 .. n
      BY <1>1, <2>1
    <3> QED
      BY <3>1
  <2> DEFINE a == B(q - 1)
             b == B(q)
             r == ps[n - q + 1]
  <2>4. /\ a.height = n - (q - 1) /\ b.height = n - q
        /\ a.entry.cell = Frame(p, f).cell /\ b.entry.cell = Frame(p, f).cell
        /\ a.entry.reg = Kept(p, f) \cup back(q - 1) /\ b.entry.reg = Kept(p, f) \cup back(q)
        /\ a.vals = b.vals /\ a.vals.reg = {}
    OBVIOUS
  <2> HIDE DEF a, b, B, back
  <2>5. r \in Registers /\ a.entry.cell[a.height] = {r} /\ rs[q] = r
    BY <1>1, <1>2, <1>3, <2>1, <2>4
  <2>6. a.height > 0 /\ b.height = a.height - 1
    BY <2>1, <2>4
  <2>7. Popped(r, a.height, a.entry, b.entry) /\ Popped(r, a.height, a.vals, b.vals)
    BY <2>3, <2>4, <2>5 DEF Popped
  <2> HIDE DEF r
  <2>8. Manages(Instr("pop", rs[q]), a, b)
    BY <2>5, <2>6, <2>7 DEF Manages, Instr
  <2> QED
    BY <2>2, <2>8 DEF a, b
<1>9. z[0] = B(0) /\ z[n] = B(n) /\ B(n) \in State
  <2>1. 0 \in 0 .. n /\ n \in 0 .. n
    BY <1>1
  <2> QED
    BY <1>6, <2>1
<1>10. Typed(p, fl, f, Each("pop", rs), B(0), B(n))
  <2> HIDE DEF z, B
  <2> QED
    BY <1>2, <1>7, <1>8, <1>9, EachTyped
<1>11. Fits(p, fl, f, ret, B(n), after)
  <2>1. B(n).height = 0 /\ B(n).entry.reg = Kept(p, f) \cup back(n)
    BY <1>1
  <2>2. n - n + 1 = 1
    BY <1>1
  <2>3. ASSUME NEW r \in Safe(p, f) PROVE r \in Kept(p, f) \cup back(n)
    <3>1. CASE r \notin Coloured(p[f])
      BY <2>3, <3>1 DEF Kept
    <3>2. CASE r \in Coloured(p[f])
      <4>1. r \in CalleeSaved
        BY <2>3, <3>2, ClobberedFacts DEF Safe, CallerSaved
      <4>2. \E j \in 1 .. n : ps[j] = r
        BY <1>1, <3>2, <4>1
      <4> QED
        BY <2>2, <4>2
    <3> QED
      BY <3>1, <3>2
  <2> HIDE DEF B, back
  <2>4. ret.op = "ret"
    BY DEF Instr
  <2> QED
    BY <2>1, <2>3, <2>4 DEF Fits
<1>12. ret \in Instrs
  BY DEF Instr, Instrs, Ops
<1> HIDE DEF B, ret
<1>13. Typed(p, fl, f, << ret >>, B(n), after)
  BY <1>9, <1>11, <1>12, OneTyped
<1>14. Typed(p, fl, f, Each("pop", rs) \o << ret >>, B(0), after)
  BY <1>10, <1>13, ConcatTyped
<1> QED
  BY <1>5, <1>14 DEF rs, ps, n, ret

-----------------------------------------------------------------------------
(* All the code of a function. *)

ExitLength(p, fl, f) == (IF Locals(p, fl, f) = 0 THEN 0 ELSE 1) + Len(Pushes(p, f)) + 1

Annotates(p, fl, f, c, ann) ==
  /\ c \in Seq(Instrs) /\ c # << >> /\ c[Len(c)].op = "ret"
  /\ ann \in [1 .. Len(c) + 1 -> State] /\ ann[1].height = 0
  /\ \A i \in 1 .. Len(c) : Fits(p, fl, f, c[i], ann[i], ann[i + 1])
  /\ LET at == Len(c) - ExitLength(p, fl, f) + 1
     IN at \in 1 .. Len(c) /\ ann[at] = Within(p, f, Size(p, fl, f), {})

LEMMA AllocatedNames ==
  ASSUME NEW f, program \in Programs, f \in F, assigned[f] = Colours(f)
  PROVE  /\ CalleePushes(f) = Pushes(program, f) /\ LocalSize(f) = Locals(program, flagged, f)
         /\ TotalFrameSize(f) = IF Locals(program, flagged, f) = 0 THEN 0 ELSE Size(program, flagged, f)
         /\ Len(EarlyExit(f)) = ExitLength(program, flagged, f)
<1>1. CalleePushes(f) = Pushes(program, f) /\ LocalSize(f) = Locals(program, flagged, f)
  BY DEF CalleePushes, Pushes, LocalSize, Locals, Colours
<1>2. f \in DOMAIN program
  BY DEF F
<1>3. Locals(program, flagged, f) \in Nat /\ Len(Pushes(program, f)) \in Nat
      /\ Pushes(program, f) \in Seq(Registers)
  BY <1>2, SizeFacts, PushesFacts
<1>4. TotalFrameSize(f) = IF Locals(program, flagged, f) = 0 THEN 0 ELSE Size(program, flagged, f)
  BY <1>1, <1>3 DEF TotalFrameSize, Size
<1> DEFINE pops == Each("pop", Reverse(Pushes(program, f)))
           ret == Instr("ret", 0)
           move == Move("add", Locals(program, flagged, f))
           I == [op : {"pop", "ret", "add"}, reg : Registers \cup {0}, step : Nat, n : Nat]
<1>5. pops \in Seq(I) /\ Len(pops) = Len(Pushes(program, f))
  <2>1. Reverse(Pushes(program, f)) \in Seq(Registers)
        /\ Len(Reverse(Pushes(program, f))) = Len(Pushes(program, f))
    BY <1>3, ReverseFacts
  <2>2. { Instr("pop", r) : r \in Registers } \subseteq I
    BY DEF Instr
  <2>3. pops \in Seq({ Instr("pop", r) : r \in Registers }) /\ Len(pops) = Len(Pushes(program, f))
    BY <2>1, EachIsASequence
  <2> HIDE DEF pops, I
  <2> QED
    BY <2>2, <2>3, SeqMonotonic
<1>6. ret \in I
  BY DEF Instr
<1>7. move \in Seq(I) /\ Len(move) = IF Locals(program, flagged, f) = 0 THEN 0 ELSE 1
  <2> DEFINE n == Locals(program, flagged, f)
             c == [op |-> "add", reg |-> 0, step |-> 0, n |-> n]
  <2>1. c \in I
    BY <1>3
  <2>2. move = IF n = 0 THEN << >> ELSE << c >>
    BY DEF Move
  <2> HIDE DEF n, c, I, move
  <2>3. << c >> \in Seq(I) /\ Len(<< c >>) = 1 /\ << >> \in Seq(I) /\ Len(<< >>) = 0
    BY <2>1, EmptySeq
  <2> QED
    BY <2>2, <2>3 DEF n
<1> HIDE DEF pops, ret, move, I
<1>8. << ret >> \in Seq(I) /\ Len(<< ret >>) = 1
  BY <1>6
<1>9. pops \o << ret >> \in Seq(I) /\ Len(pops \o << ret >>) = Len(Pushes(program, f)) + 1
  BY <1>5, <1>8, ConcatProperties
<1>10. Len(move \o (pops \o << ret >>)) = Len(move) + (Len(Pushes(program, f)) + 1)
  <2>1. Len(move \o (pops \o << ret >>)) = Len(move) + Len(pops \o << ret >>)
    BY <1>7, <1>9, ConcatProperties
  <2> QED
    BY <1>9, <2>1
<1>11. EarlyExit(f) = move \o (pops \o << ret >>)
  BY <1>1 DEF EarlyExit, Exit, move, pops, ret
<1>12. Len(EarlyExit(f)) = ExitLength(program, flagged, f)
  BY <1>3, <1>7, <1>10, <1>11 DEF ExitLength
<1> QED
  BY <1>1, <1>4, <1>12

LEMMA CompleteTyped ==
  ASSUME NEW f, Allocated(f)
  PROVE  \E ann : Annotates(program, flagged, f, Complete(f), ann)
<1> DEFINE p == program
           fl == flagged
           k == Len(Pushes(p, f))
           size == Locals(p, fl, f)
           entry == Each("push", Pushes(p, f))
           inner == WithLocals(BodyCode(f), size)
           exit == Each("pop", Reverse(Pushes(p, f))) \o << Instr("ret", 0) >>
           early == Move("add", size) \o exit
           low(L) == Within(p, f, k, L)
           high == Within(p, f, Size(p, fl, f), {})
           L0 == Live(f, 0)
           c == entry \o inner \o exit \o early
<1>1. p \in Programs /\ f \in DOMAIN p /\ f \in F /\ f <= f
  <2>1. p \in Programs /\ f \in DOMAIN p /\ f \in F
    BY DEF Allocated, F
  <2> QED
    BY <2>1, ProgramFacts
<1>2. assigned[f] = Colours(f)
  BY <1>1 DEF Allocated
<1>3. /\ CalleePushes(f) = Pushes(p, f) /\ LocalSize(f) = size
      /\ Len(EarlyExit(f)) = ExitLength(p, fl, f)
  BY <1>1, <1>2, AllocatedNames
<1>4. Complete(f) = c /\ EarlyExit(f) = early
  BY <1>3 DEF Complete, EarlyExit, Exit
<1>5. L0 \in SUBSET Registers /\ {} \in SUBSET Registers
  BY LiveFacts
<1>6. high \in State
  <2>1. Size(p, fl, f) \in Nat
    BY <1>1, SizeFacts
  <2> QED
    BY <1>1, <1>5, <2>1, WithinFacts
<1>7. PICK a \in State : a.height = 0 /\ Typed(p, fl, f, entry, a, low(L0))
  BY <1>1, <1>5, EntryTyped
<1>8. Typed(p, fl, f, inner, low(L0), low({}))
  BY <1>1, <1>5, BodyTyped, WithLocalsTyped
<1>9. Typed(p, fl, f, exit, low({}), high)
  BY <1>1, <1>6, ExitTyped
<1>10. Typed(p, fl, f, early, high, high)
  <2>1. Typed(p, fl, f, Move("add", size), high, low({}))
    BY <1>1, <1>5, LocalMoveTyped
  <2> HIDE DEF exit, high, low, size
  <2> QED
    BY <1>9, <2>1, ConcatTyped
<1>11. exit # << >> /\ early # << >> /\ exit \in Seq(Instrs) /\ early \in Seq(Instrs)
       /\ early[Len(early)].op = "ret" /\ Len(early) \in Nat \ {0}
  <2> DEFINE pops == Each("pop", Reverse(Pushes(p, f)))
             ret == Instr("ret", 0)
             move == Move("add", size)
  <2>1. pops \in Seq(Instrs) /\ Len(pops) \in Nat
    <3>1. Reverse(Pushes(p, f)) \in Seq(Registers)
      BY <1>1, PushesFacts, ReverseFacts
    <3>2. { Instr("pop", r) : r \in Registers } \subseteq Instrs
      BY DEF Instr, Instrs, Ops
    <3>3. pops \in Seq({ Instr("pop", r) : r \in Registers })
      BY <3>1, EachIsASequence
    <3> HIDE DEF pops
    <3> QED
      BY <3>2, <3>3, SeqMonotonic, LenProperties
  <2>2. ret \in Instrs /\ ret.op = "ret"
    BY DEF Instr, Instrs, Ops
  <2>3. exit \in Seq(Instrs) /\ early \in Seq(Instrs)
    BY <1>9, <1>10 DEF Typed
  <2>4. move \in Seq(Instrs) /\ Len(move) \in Nat
    <3>1. Typed(p, fl, f, move, high, low({}))
      BY <1>1, <1>5, LocalMoveTyped
    <3>2. move \in Seq(Instrs)
      BY <3>1 DEF Typed
    <3> QED
      BY <3>2, LenProperties
  <2> HIDE DEF pops, ret, move
  <2>5. << ret >> \in Seq(Instrs) /\ Len(<< ret >>) = 1 /\ << ret >>[1] = ret
    BY <2>2
  <2>6. /\ Len(pops \o << ret >>) = Len(pops) + 1 /\ pops \o << ret >> \in Seq(Instrs)
        /\ (pops \o << ret >>)[Len(pops) + 1] = ret
    <3>1. /\ Len(pops \o << ret >>) = Len(pops) + Len(<< ret >>) /\ pops \o << ret >> \in Seq(Instrs)
          /\ \A i \in 1 .. Len(pops) + Len(<< ret >>) : (pops \o << ret >>)[i] =
               IF i <= Len(pops) THEN pops[i] ELSE << ret >>[i - Len(pops)]
      BY <2>1, <2>5, ConcatProperties
    <3>2. Len(pops) + 1 \in 1 .. Len(pops) + 1 /\ ~ (Len(pops) + 1 <= Len(pops)) /\ (Len(pops) + 1) - Len(pops) = 1
      BY <2>1
    <3> QED
      BY <2>5, <3>1, <3>2
  <2>7. exit = pops \o << ret >> /\ early = move \o exit
    BY DEF pops, ret, move
  <2> HIDE DEF exit, early
  <2>8. Len(exit) = Len(pops) + 1 /\ exit[Len(exit)] = ret /\ exit # << >> /\ Len(exit) \in Nat
    BY <2>1, <2>6, <2>7, EmptySeq
  <2>9. /\ Len(early) = Len(move) + Len(exit)
        /\ \A i \in 1 .. Len(move) + Len(exit) : early[i] = IF i <= Len(move) THEN move[i] ELSE exit[i - Len(move)]
    BY <2>3, <2>4, <2>7, ConcatProperties
  <2>10. early[Len(early)] = ret /\ Len(early) \in Nat \ {0}
    <3>1. /\ Len(move) + Len(exit) \in 1 .. Len(move) + Len(exit) /\ ~ (Len(move) + Len(exit) <= Len(move))
          /\ (Len(move) + Len(exit)) - Len(move) = Len(exit)
      BY <2>1, <2>4, <2>8
    <3>2. early[Len(move) + Len(exit)] = exit[Len(exit)]
      BY <2>9, <3>1
    <3>3. Len(move) + Len(exit) \in Nat \ {0}
      BY <2>1, <2>4, <2>8
    <3> QED
      BY <2>8, <2>9, <3>2, <3>3
  <2>11. early # << >>
    BY <2>10, EmptySeq
  <2> QED
    BY <2>2, <2>3, <2>8, <2>10, <2>11
<1> HIDE DEF entry, inner, exit, early, low, high, k, size, L0
<1> DEFINE body == entry \o inner \o exit
<1>12. Typed(p, fl, f, body, a, high)
  <2>1. Typed(p, fl, f, entry \o inner, a, low({}))
    BY <1>7, <1>8, ConcatTyped
  <2> QED
    BY <1>9, <2>1, ConcatTyped
<1>13. body \in Seq(Instrs) /\ Len(body) \in Nat
  <2>1. body \in Seq(Instrs)
    BY <1>12 DEF Typed
  <2> QED
    BY <2>1, LenProperties
<1>14. c = body \o early
  OBVIOUS
<1> HIDE DEF body, c
<1>15. /\ c \in Seq(Instrs) /\ Len(c) = Len(body) + Len(early)
       /\ \E ann \in [1 .. Len(c) + 1 -> State] :
            /\ ann[1] = a /\ ann[Len(body) + 1] = high
            /\ \A i \in 1 .. Len(c) : Fits(p, fl, f, c[i], ann[i], ann[i + 1])
  <2>1. /\ body \o early \in Seq(Instrs) /\ Len(body \o early) = Len(body) + Len(early)
        /\ TypedThrough(p, fl, f, body \o early, Len(body), a, high, high)
    BY <1>10, <1>12, JoinTyped
  <2>2. TypedThrough(p, fl, f, c, Len(body), a, high, high)
    BY <1>14, <2>1
  <2> QED
    BY <1>14, <2>1, <2>2 DEF TypedThrough
<1>16. PICK ann \in [1 .. Len(c) + 1 -> State] :
         /\ ann[1] = a /\ ann[Len(body) + 1] = high
         /\ \A i \in 1 .. Len(c) : Fits(p, fl, f, c[i], ann[i], ann[i + 1])
  BY <1>15
<1>17. c[Len(c)].op = "ret" /\ Len(c) \in Nat \ {0}
  <2>1. \A i \in 1 .. Len(body) + Len(early) : c[i] = IF i <= Len(body) THEN body[i] ELSE early[i - Len(body)]
    BY <1>11, <1>13, <1>14, ConcatProperties
  <2>2. /\ Len(c) \in 1 .. Len(body) + Len(early) /\ ~ (Len(c) <= Len(body))
        /\ Len(c) - Len(body) = Len(early) /\ Len(c) \in Nat \ {0}
    BY <1>11, <1>13, <1>15
  <2> QED
    BY <1>11, <2>1, <2>2
<1>18. c # << >>
  BY <1>17, EmptySeq
<1>19. Len(early) = ExitLength(p, fl, f)
  BY <1>3, <1>4
<1>20. Len(c) - ExitLength(p, fl, f) + 1 = Len(body) + 1 /\ Len(body) + 1 \in 1 .. Len(c)
  BY <1>11, <1>13, <1>15, <1>19
<1>21. Annotates(p, fl, f, c, ann)
  BY <1>7, <1>15, <1>16, <1>17, <1>18, <1>20 DEF Annotates, high
<1> QED
  BY <1>4, <1>21 DEF c

-----------------------------------------------------------------------------
(* Callers(S) has grown as far as it can: a step that adds nothing ends    *)
(* it, and there are no more steps than functions.                         *)
Up(X) == { f \in F : f \in X \/ \E g \in X : << f, g >> \in CallGraph }

LEMMA CallersFacts ==
  ASSUME program \in Programs, NEW S \in SUBSET F
  PROVE  /\ S \subseteq Callers(S) /\ Callers(S) \subseteq F
         /\ \A f, g \in F : << f, g >> \in CallGraph /\ g \in Callers(S) => f \in Callers(S)
<1> DEFINE N == Cardinality(F)
           Solves(h) == h = [n \in 0 .. N |-> IF n = 0 THEN S
              ELSE { f \in F : f \in h[n-1] \/ \E g \in h[n-1] : << f, g >> \in CallGraph }]
           grow == CHOOSE h : Solves(h)
           next == [e \in (1 .. N) \X SUBSET F |-> Up(e[2])]
<1>1. IsFiniteSet(F) /\ N \in Nat
  <2>1. F = 1 .. Len(program) /\ Len(program) \in Nat
    BY ProgramFacts DEF F
  <2> QED
    BY <2>1, FS_Interval, FS_CardinalityType
<1>2. Callers(S) = grow[N]
  BY DEF Callers
<1>3. \A X \in SUBSET F : Up(X) \in SUBSET F /\ X \subseteq Up(X)
  BY DEF Up
<1> HIDE DEF N
<1>4. \E h : Solves(h)
  <2>1. next \in [(1 .. N) \X SUBSET F -> SUBSET F]
    BY <1>3
  <2>2. \A i \in 1 .. N, X \in SUBSET F : next[<< i, X >>] = Up(X)
    OBVIOUS
  <2> HIDE DEF next
  <2>3. PICK g \in [0 .. N -> SUBSET F] : Recurs(g, N, S, next)
    BY <1>1, <2>1, RecursionExists
  <2>4. ASSUME NEW n \in 0 .. N
        PROVE  g[n] = IF n = 0 THEN S
                      ELSE { f \in F : f \in g[n-1] \/ \E x \in g[n-1] : << f, x >> \in CallGraph }
    <3>1. CASE n = 0
      BY <2>3, <3>1 DEF Recurs
    <3>2. CASE n # 0
      <4>1. n \in 1 .. N /\ n - 1 \in 0 .. N
        BY <1>1, <3>2
      <4>2. g[n] = Up(g[n - 1])
        BY <2>2, <2>3, <4>1 DEF Recurs
      <4> QED
        BY <3>2, <4>2 DEF Up
    <3> QED
      BY <3>1, <3>2
  <2>5. Solves(g)
    BY <2>4
  <2> QED
    BY <2>5
<1>5. Solves(grow)
  <2> HIDE DEF Solves
  <2> QED
    BY <1>4
<1>6. grow[0] = S /\ \A n \in 1 .. N : grow[n] = Up(grow[n - 1])
  <2> HIDE DEF grow
  <2>1. 0 \in 0 .. N /\ \A n \in 1 .. N : n \in 0 .. N /\ n # 0
    BY <1>1
  <2> QED
    BY <1>5, <2>1 DEF Up
<1> HIDE DEF grow, Solves
<1> DEFINE T == { n \in Nat : n <= N =>
                    /\ grow[n] \in SUBSET F /\ S \subseteq grow[n]
                    /\ Up(grow[n]) = grow[n] \/ Cardinality(grow[n]) >= n }
<1>7. 0 \in T
  <2>1. IsFiniteSet(S)
    BY <1>1, FS_Subset
  <2>2. Cardinality(S) >= 0
    BY <2>1, FS_CardinalityType
  <2> QED
    BY <1>6, <2>2
<1>8. ASSUME NEW n \in Nat, n \in T PROVE n + 1 \in T
  <2> SUFFICES ASSUME n + 1 <= N
               PROVE  /\ grow[n + 1] \in SUBSET F /\ S \subseteq grow[n + 1]
                      /\ Up(grow[n + 1]) = grow[n + 1] \/ Cardinality(grow[n + 1]) >= n + 1
    OBVIOUS
  <2> DEFINE X == grow[n]
             Y == grow[n + 1]
  <2>1. X \in SUBSET F /\ S \subseteq X /\ (Up(X) = X \/ Cardinality(X) >= n)
    BY <1>1, <1>8
  <2>2. Y = Up(X)
    <3>1. n + 1 \in 1 .. N /\ (n + 1) - 1 = n
      BY <1>1
    <3> QED
      BY <1>6, <3>1
  <2> HIDE DEF X, Y
  <2>3. Y \in SUBSET F /\ S \subseteq Y /\ X \subseteq Y
    BY <1>3, <2>1, <2>2
  <2>4. CASE Up(X) = X
    BY <2>2, <2>3, <2>4 DEF Y
  <2>5. CASE Up(X) # X
    <3>1. PICK x \in Y : x \notin X
      BY <1>3, <2>1, <2>2, <2>5
    <3>2. IsFiniteSet(X) /\ IsFiniteSet(Y) /\ Cardinality(X) \in Nat /\ Cardinality(Y) \in Nat
      BY <1>1, <2>1, <2>3, FS_Subset, FS_CardinalityType
    <3>3. Cardinality(X \cup {x}) = Cardinality(X) + 1
      BY <3>1, <3>2, FS_AddElement
    <3>4. X \cup {x} \in SUBSET Y
      BY <2>3, <3>1
    <3>5. Cardinality(X \cup {x}) <= Cardinality(Y)
      BY <3>2, <3>4, FS_Subset
    <3>6. Cardinality(Y) >= n + 1
      BY <2>1, <2>5, <3>2, <3>3, <3>5
    <3> QED
      BY <2>3, <3>6 DEF Y
  <2> QED
    BY <2>4, <2>5
<1>9. N \in T
  <2> HIDE DEF T
  <2> QED
    BY <1>1, <1>7, <1>8, Induction
<1>10. grow[N] \in SUBSET F /\ S \subseteq grow[N] /\ (Up(grow[N]) = grow[N] \/ Cardinality(grow[N]) >= N)
  BY <1>1, <1>9
<1>11. Up(grow[N]) = grow[N]
  <2>1. CASE Cardinality(grow[N]) >= N
    <3>1. Cardinality(grow[N]) <= N /\ (Cardinality(F) = Cardinality(grow[N]) => F = grow[N])
      BY <1>1, <1>10, FS_Subset DEF N
    <3>2. IsFiniteSet(grow[N]) /\ Cardinality(grow[N]) \in Nat
      BY <1>1, <1>10, FS_Subset, FS_CardinalityType
    <3>3. Cardinality(grow[N]) = N
      BY <1>1, <2>1, <3>1, <3>2
    <3>4. F = grow[N]
      BY <3>1, <3>3 DEF N
    <3>5. Up(F) = F
      BY <1>3
    <3> QED
      BY <3>4, <3>5
  <2> QED
    BY <1>10, <2>1
<1> QED
  BY <1>2, <1>10, <1>11 DEF Up

(* The functions in S can rely on an aligned stack: S is closed under      *)
(* calls, and only a copy that the parser has not seen is outside.         *)
Aligns(p, fl, S) ==
  /\ S \subseteq fl
  /\ \A f \in DOMAIN p : \A i \in DOMAIN p[f].body :
       /\ p[f].body[i].op = "call" => (p[f].body[i].indirect \/ p[f].body[i].callee \in S => f \in S)
       /\ p[f].body[i].op = "copy" /\ p[f].body[i].seen = "parser" => f \in S

LEMMA ParserAligns ==
  ASSUME program \in Programs
  PROVE  Callers(FlaggedByParser) \subseteq F /\ Aligns(program, Callers(FlaggedByParser), Callers(FlaggedByParser))
<1> DEFINE S == Callers(FlaggedByParser)
<1>1. FlaggedByParser \in SUBSET F
  BY DEF FlaggedByParser
<1>2. /\ FlaggedByParser \subseteq S /\ S \subseteq F
      /\ \A f, g \in F : << f, g >> \in CallGraph /\ g \in S => f \in S
  BY <1>1, CallersFacts
<1> HIDE DEF S
<1>3. ASSUME NEW f \in F, NEW i \in DOMAIN Body(f)
      PROVE  /\ Body(f)[i].op = "call" => (Body(f)[i].indirect \/ Body(f)[i].callee \in S => f \in S)
             /\ Body(f)[i].op = "copy" /\ Body(f)[i].seen = "parser" => f \in S
  <2>1. CASE f \in FlaggedByParser
    BY <1>2, <2>1
  <2>2. CASE f \notin FlaggedByParser
    <3>1. Body(f)[i].op = "call" => ~ Body(f)[i].indirect
      BY <2>2 DEF FlaggedByParser, Calls
    <3>2. ~ (Body(f)[i].op = "copy" /\ Body(f)[i].seen = "parser")
      BY <2>2 DEF FlaggedByParser
    <3>3. ASSUME Body(f)[i].op = "call", Body(f)[i].callee \in S PROVE f \in S
      <4>1. << f, Body(f)[i].callee >> \in CallGraph
        BY <1>2, <3>1, <3>3 DEF CallGraph, Calls
      <4> QED
        BY <1>2, <3>3, <4>1
    <3> QED
      BY <3>1, <3>2, <3>3
  <2> QED
    BY <2>1, <2>2
<1>4. Aligns(program, S, S)
  BY <1>3 DEF Aligns, F, Body
<1> QED
  BY <1>2, <1>4 DEF S
-----------------------------------------------------------------------------
(* The compilation. *)

(* What is assigned to a function, its code and its frame size are final.  *)
Finished(p, fl, f, registers, c, size) ==
  /\ registers = Coloured(p[f])
  /\ size = IF Locals(p, fl, f) = 0 THEN 0 ELSE Size(p, fl, f)
  /\ \E ann : Annotates(p, fl, f, c, ann)

(* Copies that the cfg has seen are in flagged functions. *)
CfgCopiesFlagged(p, fl) ==
  \A f \in DOMAIN p : \A i \in DOMAIN p[f].body :
    p[f].body[i].op = "copy" /\ p[f].body[i].seen = "cfg" => f \in fl

(* f is the next function to be allocated. *)
IsNext(f) == code[f] = << >> /\ \A g \in F : g < f => code[g] # << >>

(* The functions are finished in their order, one while pc is "save". *)
CodeInv ==
  /\ program \in Programs
  /\ pc \in {"parse", "cfg", "allocate", "save", "run"}
  /\ flagged \subseteq F /\ assigned \in [F -> SUBSET Registers]
  /\ code \in [F -> Seq(Instrs)] /\ frameSize \in [F -> Nat]
  /\ pc # "parse" => \E S : Aligns(program, flagged, S)
  /\ pc \in {"parse", "cfg"} => \A f \in F : code[f] = << >>
  /\ pc \notin {"parse", "cfg"} => CfgCopiesFlagged(program, flagged)
  /\ \A f \in F : code[f] # << >> => Finished(program, flagged, f, assigned[f], code[f], frameSize[f])
  /\ \A f, g \in F : code[f] # << >> /\ g < f => code[g] # << >>
  /\ pc = "save" => \E f \in F : IsNext(f) /\ assigned[f] = Colours(f)
  /\ pc = "run" => \A f \in F : code[f] # << >>

LEMMA CurrentFacts ==
  ASSUME program \in Programs, \E f \in F : code[f] = << >>
  PROVE  /\ Current \in F /\ IsNext(Current)
         /\ \A f \in F : IsNext(f) => f = Current
<1> DEFINE E == { f \in F : code[f] = << >> }
<1>1. F \subseteq Nat
  BY ProgramFacts DEF F
<1>2. PICK f \in E : \A g \in E : f <= g
  <2>1. E \subseteq Nat /\ E # {}
    BY <1>1
  <2> HIDE DEF E
  <2> QED
    BY <2>1, SmallestExists
<1>3. f \in F /\ IsNext(f)
  <2> SUFFICES ASSUME NEW g \in F, g < f PROVE code[g] # << >>
    BY DEF IsNext
  <2>1. ~ (f <= g)
    BY <1>1
  <2> QED
    BY <1>2, <2>1
<1>4. Current \in F /\ IsNext(Current)
  BY <1>3 DEF Current, IsNext
<1>5. ASSUME NEW g \in F, IsNext(g) PROVE g = Current
  <2>1. ~ (g < Current) /\ ~ (Current < g)
    BY <1>4, <1>5 DEF IsNext
  <2>2. g \in Nat /\ Current \in Nat
    BY <1>1, <1>4
  <2> QED
    BY <2>1, <2>2
<1> QED
  BY <1>4, <1>5

LEMMA CodeInitially == Init => CodeInv
<1> SUFFICES ASSUME Init PROVE CodeInv
  OBVIOUS
<1>1. F = DOMAIN program /\ \A f \in F : code[f] = << >>
  BY DEF Init, F
<1>2. /\ assigned \in [F -> SUBSET Registers] /\ code \in [F -> Seq(Instrs)]
      /\ frameSize \in [F -> Nat]
  <2>1. << >> \in Seq(Instrs)
    OBVIOUS
  <2> QED
    BY <1>1, <2>1 DEF Init
<1> QED
  BY <1>1, <1>2 DEF Init, CodeInv

LEMMA CodeAfterParse == CodeInv /\ Parse => CodeInv'
<1> SUFFICES ASSUME CodeInv, Parse PROVE CodeInv'
  OBVIOUS
<1>1. flagged' \subseteq F /\ Aligns(program, flagged', flagged')
  <2>1. program \in Programs /\ flagged' = Callers(FlaggedByParser)
    BY DEF CodeInv, Parse
  <2> QED
    BY <2>1, ParserAligns
<1>2. program' = program /\ pc = "parse" /\ pc' = "cfg" /\ UNCHANGED compiled
  BY DEF Parse
<1> QED
  BY <1>1, <1>2 DEF CodeInv, compiled, F, IsNext

LEMMA CodeAfterCfg == CodeInv /\ BuildCfg => CodeInv'
<1> SUFFICES ASSUME CodeInv, BuildCfg PROVE CodeInv'
  OBVIOUS
<1>1. PICK S : Aligns(program, flagged, S)
  BY DEF CodeInv, BuildCfg
<1>2. Aligns(program, flagged', S) /\ CfgCopiesFlagged(program, flagged') /\ flagged' \subseteq F
  <2>1. flagged' = flagged \cup FlaggedByCfg /\ flagged \subseteq F
    BY DEF CodeInv, BuildCfg
  <2>2. Aligns(program, flagged', S)
    BY <1>1, <2>1 DEF Aligns
  <2> QED
    BY <2>1, <2>2 DEF CfgCopiesFlagged, FlaggedByCfg, F, Body
<1>3. program' = program /\ pc = "cfg" /\ pc' = "allocate" /\ UNCHANGED compiled
  BY DEF BuildCfg
<1> QED
  BY <1>2, <1>3 DEF CodeInv, compiled, F, IsNext

LEMMA CodeAfterColor == CodeInv /\ Color => CodeInv'
<1> SUFFICES ASSUME CodeInv, Color PROVE CodeInv'
  OBVIOUS
<1>1. /\ program' = program /\ flagged' = flagged /\ code' = code /\ frameSize' = frameSize
      /\ pc = "allocate" /\ pc' = "save"
  BY DEF Color
<1>2. PICK f \in F : f = Current /\ IsNext(f)
  <2>1. program \in Programs /\ \E g \in F : code[g] = << >>
    BY DEF CodeInv, Color
  <2> QED
    BY <2>1, CurrentFacts
<1>3. assigned' = [assigned EXCEPT ![f] = Colours(f)]
  BY <1>2 DEF Color
<1>4. /\ assigned' \in [F -> SUBSET Registers] /\ assigned'[f] = Colours(f)
      /\ \A g \in F : g # f => assigned'[g] = assigned[g]
  <2>1. Colours(f) \in SUBSET Registers
    BY <1>2, ColouredFacts DEF CodeInv, F, Colours
  <2> QED
    BY <1>2, <1>3, <2>1 DEF CodeInv
<1>5. IsNext(f)' /\ assigned'[f] = Colours(f)'
  BY <1>1, <1>2, <1>4 DEF IsNext, Colours, F
<1>6. \A g \in F : code[g] # << >> => assigned'[g] = assigned[g]
  BY <1>2, <1>4 DEF IsNext
<1> QED
  BY <1>1, <1>2, <1>4, <1>5, <1>6 DEF CodeInv, F

LEMMA CodeAfterSaving == CodeInv /\ InsertSavingLogic => CodeInv'
<1> SUFFICES ASSUME CodeInv, InsertSavingLogic PROVE CodeInv'
  OBVIOUS
<1> DEFINE f == Current
<1>1. /\ program' = program /\ flagged' = flagged /\ assigned' = assigned
      /\ pc = "save" /\ pc' = "allocate"
  BY DEF InsertSavingLogic
<1>2. f \in F /\ IsNext(f) /\ assigned[f] = Colours(f)
  <2>1. PICK g \in F : IsNext(g) /\ assigned[g] = Colours(g)
    BY <1>1 DEF CodeInv
  <2>2. program \in Programs /\ \E h \in F : code[h] = << >>
    BY <2>1 DEF CodeInv, IsNext
  <2> QED
    BY <2>1, <2>2, CurrentFacts
<1>3. code' = [code EXCEPT ![f] = Complete(f)] /\ frameSize' = [frameSize EXCEPT ![f] = TotalFrameSize(f)]
  BY DEF InsertSavingLogic
<1> HIDE DEF f
<1>4. F \subseteq Nat /\ program \in Programs
  BY ProgramFacts DEF F, CodeInv
<1>5. Allocated(f)
  <2> SUFFICES ASSUME NEW g \in F, g <= f PROVE assigned[g] = Colours(g)
    BY <1>2, <1>4 DEF Allocated, CodeInv
  <2>1. CASE g = f
    BY <2>1, <1>2
  <2>2. CASE g # f
    <3>1. g < f
      BY <2>2, <1>2, <1>4
    <3> QED
      BY <3>1, <1>2 DEF IsNext, CodeInv, Finished, Colours
  <2> QED
    BY <2>1, <2>2
<1>6. PICK ann : Annotates(program, flagged, f, Complete(f), ann)
  BY <1>5, CompleteTyped
<1>7. Complete(f) \in Seq(Instrs) /\ Complete(f) # << >>
  BY <1>6 DEF Annotates
<1>8. /\ TotalFrameSize(f) = IF Locals(program, flagged, f) = 0 THEN 0 ELSE Size(program, flagged, f)
      /\ TotalFrameSize(f) \in Nat
  <2>1. Size(program, flagged, f) \in Nat
    BY <1>2, <1>4, SizeFacts DEF F
  <2> QED
    BY <1>2, <1>4, <2>1, AllocatedNames
<1>9. Finished(program, flagged, f, assigned[f], Complete(f), TotalFrameSize(f))
  BY <1>2, <1>6, <1>8 DEF Finished, Colours
<1>10. /\ code' \in [F -> Seq(Instrs)] /\ frameSize' \in [F -> Nat]
       /\ code'[f] = Complete(f) /\ frameSize'[f] = TotalFrameSize(f)
       /\ \A g \in F : g # f => code'[g] = code[g] /\ frameSize'[g] = frameSize[g]
  <2>1. code \in [F -> Seq(Instrs)] /\ frameSize \in [F -> Nat]
    BY DEF CodeInv
  <2> QED
    BY <1>2, <1>3, <1>7, <1>8, <2>1
<1>11. \A g \in F : code'[g] # << >> =>
         Finished(program, flagged, g, assigned[g], code'[g], frameSize'[g])
  <2> SUFFICES ASSUME NEW g \in F, code'[g] # << >>
               PROVE  Finished(program, flagged, g, assigned[g], code'[g], frameSize'[g])
    OBVIOUS
  <2>1. CASE g = f
    BY <2>1, <1>9, <1>10
  <2>2. CASE g # f
    BY <2>2, <1>10 DEF CodeInv
  <2> QED
    BY <2>1, <2>2
<1>12. \A g, h \in F : code'[g] # << >> /\ h < g => code'[h] # << >>
  <2> SUFFICES ASSUME NEW g \in F, NEW h \in F, code'[g] # << >>, h < g PROVE code'[h] # << >>
    OBVIOUS
  <2>1. CASE h = f
    BY <2>1, <1>7, <1>10
  <2>2. CASE h # f
    <3>1. code[h] # << >>
      BY <2>2, <1>2, <1>10 DEF IsNext, CodeInv
    <3> QED
      BY <2>2, <3>1, <1>10
  <2> QED
    BY <2>1, <2>2
<1>13. (\E S : Aligns(program, flagged, S)) /\ CfgCopiesFlagged(program, flagged) /\ flagged \subseteq F
  BY <1>1 DEF CodeInv
<1>14. assigned \in [F -> SUBSET Registers]
  BY DEF CodeInv
<1> QED
  BY <1>1, <1>4, <1>10, <1>11, <1>12, <1>13, <1>14 DEF CodeInv, F

(* The run changes nothing that was compiled. *)
LEMMA CodeAfterStart == ASSUME CodeInv, NEW f \in F, Start(f) PROVE CodeInv' /\ UNCHANGED program
<1>1. UNCHANGED << program, flagged, assigned, code, frameSize >> /\ pc = "allocate" /\ pc' = "run"
  BY DEF Start, compiled
<1>2. \A g \in F : code[g] # << >>
  BY DEF Start
<1> QED
  BY <1>1, <1>2 DEF CodeInv, F

LEMMA CodeInTheRun ==
  ASSUME CodeInv, Set \/ Look \/ Leave \/ Push \/ Pop \/ Sub \/ Add \/ Call \/ Return
  PROVE  CodeInv' /\ UNCHANGED << program, pc, flagged, compiled >>
<1>1. UNCHANGED << program, pc, flagged, compiled >>
  BY DEF Set, Look, Leave, Push, Pop, Sub, Add, Call, Return, Ran
<1> QED
  BY <1>1 DEF CodeInv, F, compiled, IsNext, Colours

LEMMA CodeStep == CodeInv /\ [Next]_vars => CodeInv' /\ UNCHANGED program
<1> SUFFICES ASSUME CodeInv, [Next]_vars PROVE CodeInv' /\ UNCHANGED program
  OBVIOUS
<1>1. CASE Parse
  BY <1>1, CodeAfterParse DEF Parse
<1>2. CASE BuildCfg
  BY <1>2, CodeAfterCfg DEF BuildCfg
<1>3. CASE Color
  BY <1>3, CodeAfterColor DEF Color
<1>4. CASE InsertSavingLogic
  BY <1>4, CodeAfterSaving DEF InsertSavingLogic
<1>5. ASSUME NEW f \in F, Start(f) PROVE CodeInv' /\ UNCHANGED program
  BY <1>5, CodeAfterStart
<1>6. CASE Set \/ Look \/ Leave \/ Push \/ Pop \/ Sub \/ Add \/ Call \/ Return
  BY <1>6, CodeInTheRun
<1>7. CASE UNCHANGED vars
  BY <1>7 DEF CodeInv, F, vars, compiled, IsNext, Colours
<1> QED
  BY <1>1, <1>2, <1>3, <1>4, <1>5, <1>6, <1>7 DEF Next

(* Whatever the program, every function is given code that fits together,  *)
(* when its turn comes, and is told nothing that is known later only.      *)
THEOREM CodeIsAnnotated == Spec => []CodeInv
<1>1. Init => CodeInv
  BY CodeInitially
<1>2. CodeInv /\ [Next]_vars => CodeInv'
  BY CodeStep
<1> QED
  BY <1>1, <1>2, PTL DEF Spec

-----------------------------------------------------------------------------
(* What an annotation says of the machine, of the values at the entry of a *)
(* function or of those that a call must not lose (then): the registers    *)
(* (now) and the h cells of the stack above the return address (at base)   *)
(* hold what they are said to.                                             *)
Holds(h, half, base, stk, now, then) ==
  /\ \A j \in 1 .. h : \A r \in half.cell[j] : stk[base + j] = then[r]
  /\ \A r \in half.reg : now[r] = then[r]

(* The stacks are the same up to cell k. *)
Agree(k, stk, stk2) == \A j \in 1 .. k : stk2[j] = stk[j]

(* The registers are, but for r. *)
SetOnly(r, now, now2) == \A q \in Registers \ {r} : now2[q] = now[q]

LEMMA HalfFacts ==
  ASSUME NEW x \in Half
  PROVE  x.reg \subseteq Registers /\ \A j \in Nat : x.cell[j] \subseteq Registers
  BY DEF Half

(* Claiming less, or of a stack that is the same so far. *)
LEMMA HoldsWeaker ==
  ASSUME NEW h \in Nat, NEW k \in Nat, k <= h, NEW x \in Half, NEW y \in Half, Weaker(k, x, y),
         NEW base \in Nat, NEW stk, NEW stk2, NEW now, NEW then,
         Agree(base + k, stk, stk2), Holds(h, x, base, stk, now, then)
  PROVE  Holds(k, y, base, stk2, now, then)
<1>0. \A j \in 1 .. k : stk2[base + j] = stk[base + j]
  BY DEF Agree
<1>1. ASSUME NEW j \in 1 .. k, NEW r \in y.cell[j] PROVE stk2[base + j] = then[r]
  <2>1. j \in 1 .. h /\ r \in x.cell[j]
    BY DEF Weaker
  <2> QED
    BY <1>0, <2>1 DEF Holds
<1>2. ASSUME NEW r \in y.reg PROVE now[r] = then[r]
  BY DEF Weaker, Holds
<1> QED
  BY <1>1, <1>2 DEF Holds

LEMMA HoldsPushed ==
  ASSUME NEW h \in Nat, NEW x \in Half, NEW y \in Half, NEW r, Pushed(r, h, x, y),
         NEW base \in Nat, NEW stk, NEW stk2, NEW now, NEW then,
         Agree(base + h, stk, stk2), stk2[base + h + 1] = now[r],
         Holds(h, x, base, stk, now, then)
  PROVE  Holds(h + 1, y, base, stk2, now, then)
<1>0. \A j \in 1 .. h : stk2[base + j] = stk[base + j]
  BY DEF Agree
<1>1. ASSUME NEW j \in 1 .. h + 1, NEW q \in y.cell[j] PROVE stk2[base + j] = then[q]
  <2>1. CASE j = h + 1
    <3>1. q = r /\ q \in x.reg
      BY <2>1 DEF Pushed
    <3>2. base + j = base + h + 1
      BY <2>1
    <3> QED
      BY <1>0, <3>1, <3>2 DEF Holds
  <2>2. CASE j # h + 1
    <3>1. j \in 1 .. h
      BY <2>2
    <3> QED
      BY <1>0, <3>1 DEF Pushed, Weaker, Holds
  <2> QED
    BY <2>1, <2>2
<1>2. ASSUME NEW q \in y.reg PROVE now[q] = then[q]
  BY DEF Pushed, Weaker, Holds
<1> QED
  BY <1>1, <1>2 DEF Holds

LEMMA HoldsPopped ==
  ASSUME NEW h \in Nat, h > 0, NEW x \in Half, NEW y \in Half, NEW r, Popped(r, h, x, y),
         NEW base \in Nat, NEW stk, NEW stk2, NEW now, NEW now2, NEW then,
         Agree(base + h - 1, stk, stk2),
         now2[r] = stk[base + h], SetOnly(r, now, now2),
         Holds(h, x, base, stk, now, then)
  PROVE  Holds(h - 1, y, base, stk2, now2, then)
<1>0. \A j \in 1 .. h - 1 : stk2[base + j] = stk[base + j]
  BY DEF Agree
<1>1. ASSUME NEW j \in 1 .. h - 1, NEW q \in y.cell[j] PROVE stk2[base + j] = then[q]
  <2>1. j \in 1 .. h /\ q \in x.cell[j]
    BY DEF Popped
  <2> QED
    BY <1>0, <2>1 DEF Holds
<1>2. ASSUME NEW q \in y.reg PROVE now2[q] = then[q]
  <2>1. CASE q = r
    <3>1. q \in x.cell[h] /\ h \in 1 .. h
      BY <2>1 DEF Popped
    <3> QED
      BY <2>1, <3>1 DEF Holds
  <2>2. CASE q # r
    <3>1. q \in x.reg /\ q \in Registers \ {r}
      BY <2>2, HalfFacts DEF Popped
    <3> QED
      BY <3>1 DEF Holds, SetOnly
  <2> QED
    BY <2>1, <2>2
<1> QED
  BY <1>1, <1>2 DEF Holds

LEMMA HoldsOpened ==
  ASSUME NEW h \in Nat, NEW n \in Nat, NEW x \in Half, NEW y \in Half, Opened(n, h, x, y),
         NEW base \in Nat, NEW stk, NEW stk2, NEW now, NEW then,
         Agree(base + h, stk, stk2), Holds(h, x, base, stk, now, then)
  PROVE  Holds(h + n, y, base, stk2, now, then)
<1>0. \A j \in 1 .. h : stk2[base + j] = stk[base + j]
  BY DEF Agree
<1>1. ASSUME NEW j \in 1 .. h + n, NEW q \in y.cell[j] PROVE stk2[base + j] = then[q]
  <2>1. j \in 1 .. h
    <3>1. j \notin h + 1 .. h + n
      BY DEF Opened
    <3> QED
      BY <3>1
  <2> QED
    BY <1>0, <2>1 DEF Opened, Weaker, Holds
<1>2. ASSUME NEW q \in y.reg PROVE now[q] = then[q]
  BY DEF Opened, Weaker, Holds
<1> QED
  BY <1>1, <1>2 DEF Holds

(* A register is set: its value at the entry is no longer there, and it is *)
(* the new one that calls must not lose.                                   *)
LEMMA HoldsSet ==
  ASSUME NEW h \in Nat, NEW a \in State, NEW b \in State, NEW s, Sets(s, a, b), h = a.height,
         NEW base \in Nat, NEW stk, NEW now, NEW now2, NEW entry, NEW vals, NEW vals2, NEW v,
         now2[s.reg] = v, vals2[s.reg] = v,
         SetOnly(s.reg, now, now2), SetOnly(s.reg, vals, vals2),
         Holds(h, a.entry, base, stk, now, entry), Holds(h, a.vals, base, stk, now, vals)
  PROVE  Holds(h, b.entry, base, stk, now2, entry) /\ Holds(h, b.vals, base, stk, now2, vals2)
<1>1. a.entry \in Half /\ a.vals \in Half /\ b.entry \in Half /\ b.vals \in Half
  BY DEF State
<1>2. Holds(h, b.entry, base, stk, now2, entry)
  <2>1. ASSUME NEW j \in 1 .. h, NEW r \in b.entry.cell[j] PROVE stk[base + j] = entry[r]
    BY DEF Sets, Holds
  <2>2. ASSUME NEW r \in b.entry.reg PROVE now2[r] = entry[r]
    <3>1. r \in a.entry.reg /\ r \in Registers \ {s.reg}
      BY <1>1, HalfFacts DEF Sets
    <3> QED
      BY <3>1 DEF Holds, SetOnly
  <2> QED
    BY <2>1, <2>2 DEF Holds
<1>3. Holds(h, b.vals, base, stk, now2, vals2)
  <2>1. ASSUME NEW j \in 1 .. h, NEW r \in b.vals.cell[j] PROVE stk[base + j] = vals2[r]
    <3>1. r \in a.vals.cell[j] /\ r \in Registers \ {s.reg}
      <4>1. b.vals.cell[j] \subseteq a.vals.cell[j] \ {s.reg}
        BY DEF Sets
      <4>2. b.vals.cell[j] \subseteq Registers
        BY <1>1, HalfFacts
      <4> QED
        BY <4>1, <4>2
    <3> QED
      BY <3>1 DEF Holds, SetOnly
  <2>2. ASSUME NEW r \in b.vals.reg PROVE now2[r] = vals2[r]
    <3>1. CASE r = s.reg
      BY <3>1
    <3>2. CASE r # s.reg
      <4>1. r \in a.vals.reg /\ r \in Registers \ {s.reg}
        BY <1>1, <3>2, HalfFacts DEF Sets
      <4> QED
        BY <4>1 DEF Holds, SetOnly
    <3> QED
      BY <3>1, <3>2
  <2> QED
    BY <2>1, <2>2 DEF Holds
<1> QED
  BY <1>2, <1>3

-----------------------------------------------------------------------------
(* The activations. *)

Activations == [fn : Nat, at : Nat, entry : [Registers -> Value], vals : [Registers -> Value]]

Annotated(p, fl, c, ann) == \A f \in DOMAIN p : Annotates(p, fl, f, c[f], ann[f])
Point(ann, fr) == ann[fr.fn][fr.at]

(* The d-th activation, fr, has its return address at base: its arguments  *)
(* are below, and the address is odd where an aligned copy relies on it.   *)
Entered(p, S, fr, base, d, stk) ==
  /\ \A k \in Nat : k < p[fr.fn].params => k + 1 < base /\ stk[base - 1 - k] = Argument(k, d)
  /\ fr.fn \in S \/ d = 1 => Odd(base)

(* It waits for the next one, which has found the registers as they were   *)
(* at the call and has its arguments in the highest cells.                 *)
Waits(p, c, ann, fr, next, base, base2, d, stk) ==
  LET a == Point(ann, fr)
      instr == c[fr.fn][fr.at]
      below == a.height - p[next.fn].params
  IN /\ instr.op = "call" /\ p[fr.fn].body[instr.step].callee = next.fn
     /\ base2 = base + a.height + 1 /\ stk[base2] = << "address", fr.fn, fr.at, d >>
     /\ Holds(below, a.entry, base, stk, next.entry, fr.entry)
     /\ Holds(below, a.vals, base, stk, next.entry, fr.vals)

Stacked(p, S, c, ann, frs, base, stk) ==
  /\ base \in [1 .. Len(frs) -> Nat \ {0}]
  /\ \A d, e \in 1 .. Len(frs) : d < e => base[d] < base[e]
  /\ Len(frs) > 0 => base[1] = 1 /\ stk[1] = << "address", 0, 0, 0 >>
  /\ \A d \in 1 .. Len(frs) : Entered(p, S, frs[d], base[d], d, stk)
  /\ \A d \in 1 .. Len(frs) - 1 :
       Waits(p, c, ann, frs[d], frs[d + 1], base[d], base[d + 1], d, stk)

(* The last activation runs. *)
Runs(ann, fr, base, stk, now) ==
  LET a == Point(ann, fr)
  IN /\ Len(stk) = base + a.height
     /\ Holds(a.height, a.entry, base, stk, now, fr.entry)
     /\ Holds(a.height, a.vals, base, stk, now, fr.vals)

Located(p, c, frs) ==
  \A d \in 1 .. Len(frs) : frs[d].fn \in DOMAIN p /\ frs[d].at \in 1 .. Len(c[frs[d].fn])

Describes(p, S, c, ann, base, stk, now, frs) ==
  /\ stk \in Seq(Value) /\ now \in [Registers -> Value] /\ frs \in Seq(Activations)
  /\ Len(frs) <= MaxDepth /\ Located(p, c, frs)
  /\ Stacked(p, S, c, ann, frs, base, stk)
  /\ Len(frs) > 0 => Runs(ann, frs[Len(frs)], base[Len(frs)], stk, now)

(* The first m activations are the same, but for where the m-th is. *)
Continues(m, frs, frs2) ==
  /\ Len(frs2) = m /\ \A d \in 1 .. m - 1 : frs2[d] = frs[d]
  /\ frs2[m].fn = frs[m].fn /\ frs2[m].entry = frs[m].entry

LEMMA PointFacts ==
  ASSUME NEW p \in Programs, NEW fl, NEW c, NEW ann, Annotated(p, fl, c, ann),
         NEW fr, fr.fn \in DOMAIN p, fr.at \in 1 .. Len(c[fr.fn])
  PROVE  /\ Len(c[fr.fn]) \in Nat /\ c[fr.fn][fr.at] \in Instrs
         /\ Point(ann, fr) \in State /\ ann[fr.fn][fr.at + 1] \in State
         /\ Fits(p, fl, fr.fn, c[fr.fn][fr.at], Point(ann, fr), ann[fr.fn][fr.at + 1])
         /\ c[fr.fn][fr.at].op # "ret" => fr.at + 1 \in 1 .. Len(c[fr.fn])
<1> DEFINE f == fr.fn
           at == fr.at
<1>1. Annotates(p, fl, f, c[f], ann[f])
  BY DEF Annotated
<1> HIDE DEF f
<1>2. /\ c[f] \in Seq(Instrs) /\ c[f][Len(c[f])].op = "ret" /\ ann[f] \in [1 .. Len(c[f]) + 1 -> State]
      /\ \A i \in 1 .. Len(c[f]) : Fits(p, fl, f, c[f][i], ann[f][i], ann[f][i + 1])
  BY <1>1 DEF Annotates
<1>3. at \in 1 .. Len(c[f])
  BY DEF f
<1> HIDE DEF at
<1>4. /\ Len(c[f]) \in Nat /\ c[f][at] \in Instrs /\ ann[f][at] \in State /\ ann[f][at + 1] \in State
      /\ Fits(p, fl, f, c[f][at], ann[f][at], ann[f][at + 1])
  <2>1. Len(c[f]) \in Nat /\ c[f][at] \in Instrs
    BY <1>2, <1>3
  <2>2. at \in 1 .. Len(c[f]) + 1 /\ at + 1 \in 1 .. Len(c[f]) + 1
    BY <1>3, <2>1
  <2> QED
    BY <1>2, <1>3, <2>1, <2>2
<1>5. c[f][at].op # "ret" => at + 1 \in 1 .. Len(c[f])
  <2>1. c[f][at].op # "ret" => at # Len(c[f])
    BY <1>2
  <2> QED
    BY <1>3, <1>4, <2>1
<1> QED
  BY <1>4, <1>5 DEF Point, f, at

LEMMA EnteredSame ==
  ASSUME NEW p \in Programs, NEW S, NEW fr, NEW fr2, fr2.fn = fr.fn, fr.fn \in DOMAIN p,
         NEW base \in Nat, NEW d, NEW stk, NEW stk2, Agree(base, stk, stk2),
         Entered(p, S, fr, base, d, stk)
  PROVE  Entered(p, S, fr2, base, d, stk2)
<1>1. ASSUME NEW k \in Nat, k < p[fr.fn].params
      PROVE  k + 1 < base /\ stk2[base - 1 - k] = Argument(k, d)
  <2>1. k + 1 < base /\ stk[base - 1 - k] = Argument(k, d)
    BY <1>1 DEF Entered
  <2>2. base - 1 - k \in 1 .. base
    BY <2>1
  <2> QED
    BY <2>1, <2>2 DEF Agree
<1>2. fr.fn \in S \/ d = 1 => Odd(base)
  BY DEF Entered
<1> QED
  BY <1>1, <1>2 DEF Entered

LEMMA WaitsSame ==
  ASSUME NEW p \in Programs, NEW c, NEW ann, NEW fr, NEW next, NEW next2,
         next2.fn = next.fn, next2.entry = next.entry, next.fn \in DOMAIN p,
         Point(ann, fr) \in State, NEW base \in Nat \ {0}, NEW base2 \in Nat, NEW d, NEW stk, NEW stk2,
         Agree(base2, stk, stk2), Waits(p, c, ann, fr, next, base, base2, d, stk)
  PROVE  Waits(p, c, ann, fr, next2, base, base2, d, stk2)
<1> DEFINE a == Point(ann, fr)
           below == a.height - p[next.fn].params
<1>1. a.height \in Nat /\ p[next.fn].params \in Nat
  BY ProgramFacts DEF State
<1>2. base2 = base + a.height + 1
  BY DEF Waits
<1>3. \A j \in 1 .. below : stk2[base + j] = stk[base + j]
  <2> SUFFICES ASSUME NEW j \in 1 .. below PROVE base + j \in 1 .. base2
    BY DEF Agree
  <2> QED
    BY <1>1, <1>2
<1>4. /\ Holds(below, a.entry, base, stk, next.entry, fr.entry)
      /\ Holds(below, a.vals, base, stk, next.entry, fr.vals)
  BY DEF Waits
<1>5. /\ Holds(below, a.entry, base, stk2, next2.entry, fr.entry)
      /\ Holds(below, a.vals, base, stk2, next2.entry, fr.vals)
  <2> HIDE DEF a, below
  <2> QED
    BY <1>3, <1>4 DEF Holds
<1>6. stk2[base2] = stk[base2]
  BY <1>1, <1>2 DEF Agree
<1> QED
  BY <1>5, <1>6 DEF Waits

Restricted(base, m) == [d \in 1 .. m |-> base[d]]

(* What is above the return address of the m-th activation, and where that *)
(* one is, is of no concern to the activations below it.                   *)
LEMMA StackedBelow ==
  ASSUME NEW p \in Programs, NEW S, NEW fl, NEW c, NEW ann, Annotated(p, fl, c, ann),
         NEW frs \in Seq(Activations), NEW frs2 \in Seq(Activations), Located(p, c, frs),
         NEW base, NEW stk, NEW stk2, Stacked(p, S, c, ann, frs, base, stk),
         NEW m \in 1 .. Len(frs), Continues(m, frs, frs2), Agree(base[m], stk, stk2)
  PROVE  Stacked(p, S, c, ann, frs2, Restricted(base, m), stk2)
<1> DEFINE base2 == Restricted(base, m)
<1>1. Len(frs) \in Nat /\ m \in Nat /\ 1 .. m \subseteq 1 .. Len(frs)
  OBVIOUS
<1>2. /\ base \in [1 .. Len(frs) -> Nat \ {0}] /\ base[1] = 1 /\ stk[1] = << "address", 0, 0, 0 >>
      /\ \A d, e \in 1 .. Len(frs) : d < e => base[d] < base[e]
  BY <1>1 DEF Stacked
<1>3. \A d \in 1 .. m : base[d] \in Nat \ {0} /\ base2[d] = base[d]
  BY <1>1, <1>2 DEF Restricted
<1>11. base2 \in [1 .. m -> Nat \ {0}]
  BY <1>3 DEF Restricted
<1> HIDE DEF base2
<1>4. ASSUME NEW d \in 1 .. m PROVE Agree(base[d], stk, stk2)
  <2>1. base[d] <= base[m]
    <3>1. CASE d = m
      BY <3>1, <1>3
    <3>2. CASE d # m
      <4>1. base[d] < base[m]
        BY <1>1, <1>2, <3>2
      <4> QED
        BY <4>1, <1>3
    <3> QED
      BY <3>1, <3>2
  <2>2. 1 .. base[d] \subseteq 1 .. base[m]
    BY <2>1, <1>3
  <2> QED
    BY <2>2 DEF Agree
<1>5. \A d \in 1 .. m : frs2[d].fn = frs[d].fn /\ frs2[d].entry = frs[d].entry
  BY DEF Continues
<1>6. \A d \in 1 .. Len(frs) : frs[d].fn \in DOMAIN p /\ frs[d].at \in 1 .. Len(c[frs[d].fn])
  BY DEF Located
<1>7. ASSUME NEW d \in 1 .. m PROVE Entered(p, S, frs2[d], base2[d], d, stk2)
  <2>1. Entered(p, S, frs[d], base[d], d, stk)
    BY <1>1 DEF Stacked
  <2>2. /\ frs2[d].fn = frs[d].fn /\ frs[d].fn \in DOMAIN p
        /\ base[d] \in Nat /\ base2[d] = base[d] /\ Agree(base[d], stk, stk2)
    BY <1>1, <1>3, <1>4, <1>5, <1>6
  <2>3. Entered(p, S, frs2[d], base[d], d, stk2)
    BY <2>1, <2>2, EnteredSame
  <2> QED
    BY <2>2, <2>3
<1>8. ASSUME NEW d \in 1 .. m - 1
      PROVE  Waits(p, c, ann, frs2[d], frs2[d + 1], base2[d], base2[d + 1], d, stk2)
  <2>1. d \in 1 .. Len(frs) - 1 /\ d \in 1 .. m /\ d + 1 \in 1 .. m /\ d \in 1 .. Len(frs) /\ d + 1 \in 1 .. Len(frs)
    BY <1>1
  <2>2. Waits(p, c, ann, frs[d], frs[d + 1], base[d], base[d + 1], d, stk)
    BY <2>1 DEF Stacked
  <2>3. Point(ann, frs[d]) \in State
    BY <1>6, <2>1, PointFacts
  <2>4. frs2[d] = frs[d] /\ frs[d + 1].fn \in DOMAIN p
    BY <1>6, <2>1 DEF Continues
  <2>5. frs2[d + 1].fn = frs[d + 1].fn /\ frs2[d + 1].entry = frs[d + 1].entry
    BY <1>5, <2>1
  <2>6. Agree(base[d + 1], stk, stk2)
    BY <1>4, <2>1
  <2>7. base[d] \in Nat \ {0} /\ base[d + 1] \in Nat /\ base2[d] = base[d] /\ base2[d + 1] = base[d + 1]
    BY <1>3, <2>1
  <2>8. Waits(p, c, ann, frs[d], frs2[d + 1], base[d], base[d + 1], d, stk2)
    BY <2>2, <2>3, <2>4, <2>5, <2>6, <2>7, WaitsSame
  <2> QED
    BY <2>4, <2>7, <2>8
<1>9. \A d, e \in 1 .. m : d < e => base2[d] < base2[e]
  BY <1>1, <1>2, <1>3
<1>10. base2[1] = 1 /\ stk2[1] = << "address", 0, 0, 0 >>
  <2>1. 1 \in 1 .. m
    BY <1>1
  <2>2. stk2[1] = stk[1]
    <3>1. Agree(base[1], stk, stk2) /\ 1 \in 1 .. base[1]
      BY <1>2, <1>4, <2>1
    <3> QED
      BY <3>1 DEF Agree
  <2> QED
    BY <1>2, <1>3, <2>1, <2>2
<1>12. Stacked(p, S, c, ann, frs2, base2, stk2)
  <2>1. Len(frs2) = m
    BY DEF Continues
  <2> QED
    BY <1>7, <1>8, <1>9, <1>10, <1>11, <2>1 DEF Stacked
<1> QED
  BY <1>12 DEF base2

-----------------------------------------------------------------------------
(* The running activation. *)

(* What an instruction claims, by its operation. *)
ByOp(p, fl, f, c, a, b) ==
  /\ c.op = "push" => /\ c.reg \in Registers /\ b.height = a.height + 1
                      /\ Pushed(c.reg, a.height, a.entry, b.entry)
                      /\ Pushed(c.reg, a.height, a.vals, b.vals)
  /\ c.op = "pop" => /\ c.reg \in Registers /\ a.height > 0 /\ b.height = a.height - 1
                     /\ Popped(c.reg, a.height, a.entry, b.entry)
                     /\ Popped(c.reg, a.height, a.vals, b.vals)
  /\ c.op = "sub" => /\ b.height = a.height + c.n
                     /\ Opened(c.n, a.height, a.entry, b.entry)
                     /\ Opened(c.n, a.height, a.vals, b.vals)
  /\ c.op = "add" => /\ c.n <= a.height /\ b.height = a.height - c.n
                     /\ Weaker(b.height, a.entry, b.entry) /\ Weaker(b.height, a.vals, b.vals)
  /\ c.op = "ret" => a.height = 0 /\ Safe(p, f) \subseteq a.entry.reg
  /\ c.op \in {"set", "use", "leave", "copy", "param", "call"} =>
       LET s == p[f].body[c.step]
       IN /\ c.step \in DOMAIN p[f].body /\ s \in Step /\ s.op = c.op /\ b.height = a.height
          /\ c.op = "set" => s.reg \in Registers /\ Sets(s, a, b)
          /\ c.op \in {"use", "leave", "copy", "param"} =>
               /\ Looks(p, fl, f, s, a)
               /\ Weaker(a.height, a.entry, b.entry) /\ Weaker(a.height, a.vals, b.vals)
          /\ c.op = "call" => CallsOn(p, fl, f, s, a, b)

LEMMA FitsByOp ==
  ASSUME NEW p \in Programs, NEW fl, NEW f \in DOMAIN p, NEW c \in Instrs, NEW a, NEW b,
         Fits(p, fl, f, c, a, b)
  PROVE  ByOp(p, fl, f, c, a, b)
<1>1. CASE Manages(c, a, b)
  BY <1>1 DEF Manages, ByOp
<1>2. CASE /\ c.step \in DOMAIN p[f].body /\ p[f].body[c.step].op = c.op
           /\ Steps(p, fl, f, p[f].body[c.step], a, b)
  <2> DEFINE s == p[f].body[c.step]
  <2>1. /\ s \in Step /\ s.op \in {"set", "use", "leave", "copy", "param", "call"}
        /\ s.op = "set" => s.reg \in Registers
    BY <1>2, ProgramFacts, StepFacts
  <2>2. Steps(p, fl, f, s, a, b) /\ s.op = c.op
    BY <1>2
  <2> HIDE DEF s
  <2>3. /\ b.height = a.height
        /\ c.op = "set" => Sets(s, a, b)
        /\ c.op \in {"use", "leave", "copy", "param"} =>
             /\ Looks(p, fl, f, s, a)
             /\ Weaker(a.height, a.entry, b.entry) /\ Weaker(a.height, a.vals, b.vals)
        /\ c.op = "call" => CallsOn(p, fl, f, s, a, b)
    <3>1. s.op = "set" => ~ Looks(p, fl, f, s, a)
      BY DEF Looks
    <3>2. s.op = "call" => ~ Looks(p, fl, f, s, a)
      BY DEF Looks
    <3> QED
      BY <2>1, <2>2, <3>1, <3>2 DEF Steps
  <2> QED
    BY <1>2, <2>1, <2>2, <2>3 DEF s, ByOp
<1>3. CASE c.op = "ret" /\ a.height = 0 /\ Safe(p, f) \subseteq a.entry.reg
  BY <1>3 DEF ByOp
<1> QED
  BY <1>1, <1>2, <1>3 DEF Fits

(* What is known when an activation runs, with the point a where it is and *)
(* b that follows in the code.                                             *)
AtPoint(ann, base, a, b) ==
  /\ Len(frames) \in Nat \ {0} /\ Len(frames) \in DOMAIN frames
  /\ Top \in Activations /\ Top.fn \in F
  /\ Top.at \in 1 .. Len(code[Top.fn]) /\ Here \in Instrs
  /\ a \in State /\ b \in State /\ a = Point(ann, Top) /\ b = ann[Top.fn][Top.at + 1]
  /\ a.height \in Nat /\ a.entry \in Half /\ a.vals \in Half
  /\ b.height \in Nat /\ b.entry \in Half /\ b.vals \in Half
  /\ ByOp(program, flagged, Top.fn, Here, a, b)
  /\ Here.op # "ret" => Top.at + 1 \in 1 .. Len(code[Top.fn])
  /\ base \in Nat \ {0} /\ Len(stack) = base + a.height
  /\ Holds(a.height, a.entry, base, stack, regs, Top.entry)
  /\ Holds(a.height, a.vals, base, stack, regs, Top.vals)
  /\ stack \in Seq(Value) /\ regs \in [Registers -> Value] /\ frames \in Seq(Activations)

LEMMA TopFacts ==
  ASSUME program \in Programs, NEW S, NEW ann, Annotated(program, flagged, code, ann), NEW base,
         Describes(program, S, code, ann, base, stack, regs, frames), frames # << >>
  PROVE  AtPoint(ann, base[Len(frames)], Point(ann, Top), ann[Top.fn][Top.at + 1])
<1> DEFINE n == Len(frames)
<1>1. /\ frames \in Seq(Activations) /\ Located(program, code, frames)
      /\ stack \in Seq(Value) /\ regs \in [Registers -> Value]
      /\ Stacked(program, S, code, ann, frames, base, stack)
      /\ n > 0 => Runs(ann, frames[n], base[n], stack, regs)
  BY DEF Describes
<1>2. n \in Nat \ {0} /\ n \in 1 .. n /\ n \in DOMAIN frames /\ Top \in Activations
  BY <1>1 DEF Top
<1>3. Top.fn \in DOMAIN program /\ Top.at \in 1 .. Len(code[Top.fn])
  BY <1>1, <1>2 DEF Located, Top
<1>4. /\ Here \in Instrs /\ Point(ann, Top) \in State /\ ann[Top.fn][Top.at + 1] \in State
      /\ ByOp(program, flagged, Top.fn, Here, Point(ann, Top), ann[Top.fn][Top.at + 1])
      /\ Here.op # "ret" => Top.at + 1 \in 1 .. Len(code[Top.fn])
  <2> DEFINE fr == Top
  <2>1. fr.fn \in DOMAIN program /\ fr.at \in 1 .. Len(code[fr.fn])
    BY <1>3
  <2> HIDE DEF fr
  <2>2. /\ code[fr.fn][fr.at] \in Instrs /\ Point(ann, fr) \in State /\ ann[fr.fn][fr.at + 1] \in State
        /\ Fits(program, flagged, fr.fn, code[fr.fn][fr.at], Point(ann, fr), ann[fr.fn][fr.at + 1])
        /\ code[fr.fn][fr.at].op # "ret" => fr.at + 1 \in 1 .. Len(code[fr.fn])
    BY <2>1, PointFacts
  <2>3. ByOp(program, flagged, fr.fn, code[fr.fn][fr.at], Point(ann, fr), ann[fr.fn][fr.at + 1])
    BY <2>1, <2>2, FitsByOp
  <2> QED
    BY <2>2, <2>3 DEF fr, Here
<1>5. base[n] \in Nat \ {0}
  BY <1>1, <1>2 DEF Stacked
<1>6. Runs(ann, Top, base[n], stack, regs)
  BY <1>1, <1>2 DEF Top
<1>7. ASSUME NEW x \in State PROVE x.height \in Nat /\ x.entry \in Half /\ x.vals \in Half
  BY DEF State
<1> HIDE DEF n
<1> QED
  BY <1>1, <1>2, <1>3, <1>4, <1>5, <1>6, <1>7 DEF AtPoint, F, Runs, n

(* A step within the last activation keeps it all when it keeps what runs. *)
LEMMA TopStep ==
  ASSUME NEW p \in Programs, NEW S, NEW fl, NEW c, NEW ann, Annotated(p, fl, c, ann),
         NEW base, NEW stk, NEW now, NEW frs, Describes(p, S, c, ann, base, stk, now, frs),
         NEW n \in Nat \ {0}, n = Len(frs),
         NEW stk2 \in Seq(Value), NEW now2 \in [Registers -> Value], NEW frs2 \in Seq(Activations),
         Continues(n, frs, frs2), frs2[n].at \in 1 .. Len(c[frs[n].fn]),
         Agree(base[n], stk, stk2), Runs(ann, frs2[n], base[n], stk2, now2)
  PROVE  \E base2 : Describes(p, S, c, ann, base2, stk2, now2, frs2)
<1> DEFINE base2 == Restricted(base, n)
<1>1. /\ frs \in Seq(Activations) /\ Located(p, c, frs) /\ Stacked(p, S, c, ann, frs, base, stk)
      /\ Len(frs) <= MaxDepth
  BY DEF Describes
<1>2. n \in 1 .. Len(frs)
  OBVIOUS
<1>3. Stacked(p, S, c, ann, frs2, base2, stk2)
  BY <1>1, <1>2, StackedBelow
<1>4. Located(p, c, frs2)
  <2> USE DEF Continues
  <2> SUFFICES ASSUME NEW d \in 1 .. n
               PROVE  frs2[d].fn \in DOMAIN p /\ frs2[d].at \in 1 .. Len(c[frs2[d].fn])
    BY DEF Located
  <2>1. \A e \in 1 .. n : frs[e].fn \in DOMAIN p /\ frs[e].at \in 1 .. Len(c[frs[e].fn])
    BY <1>1 DEF Located
  <2>2. CASE d = n
    BY <2>1, <2>2
  <2>3. CASE d # n
    <3>1. d \in 1 .. n - 1
      BY <2>3
    <3> QED
      BY <2>1, <3>1
  <2> QED
    BY <2>2, <2>3
<1>5. base2[n] = base[n]
  BY <1>2 DEF Restricted
<1> HIDE DEF base2
<1>6. Describes(p, S, c, ann, base2, stk2, now2, frs2)
  BY <1>1, <1>3, <1>4, <1>5 DEF Describes, Continues
<1> QED
  BY <1>6

LEMMA Jumped ==
  ASSUME NEW frs \in Seq(Activations), Len(frs) > 0, NEW k \in Nat, NEW frs2,
         frs2 = [frs EXCEPT ![Len(frs)].at = k]
  PROVE  /\ frs2 \in Seq(Activations) /\ Continues(Len(frs), frs, frs2)
         /\ frs2[Len(frs)].vals = frs[Len(frs)].vals /\ frs2[Len(frs)].at = k
<1> DEFINE n == Len(frs)
           new == [frs[n] EXCEPT !.at = k]
<1>1. n \in Nat \ {0} /\ n \in DOMAIN frs /\ frs[n] \in Activations
  OBVIOUS
<1>2. /\ new \in Activations /\ new.fn = frs[n].fn /\ new.entry = frs[n].entry
      /\ new.vals = frs[n].vals /\ new.at = k
  BY <1>1 DEF Activations
<1>3. frs2 = [frs EXCEPT ![n] = new]
  OBVIOUS
<1> HIDE DEF new
<1>4. frs2 \in Seq(Activations) /\ Len(frs2) = n /\ frs2[n] = new
      /\ \A d \in 1 .. n - 1 : frs2[d] = frs[d]
  BY <1>1, <1>2, <1>3
<1> QED
  BY <1>2, <1>4 DEF Continues

(* The machine is as the annotations ann and the bases say, and after a    *)
(* step there are bases for which it is again.                             *)
Ready(S, ann, base) ==
  /\ program \in Programs /\ Annotated(program, flagged, code, ann)
  /\ Describes(program, S, code, ann, base, stack, regs, frames)
StillReady(S, ann) ==
  \E base : Describes(program, S, code, ann, base, stack', regs', frames')

LEMMA ReadyFacts ==
  ASSUME NEW S, NEW ann, NEW base, Ready(S, ann, base), frames # << >>
  PROVE  \E a, b, bottom : bottom = base[Len(frames)] /\ AtPoint(ann, bottom, a, b)
  BY TopFacts DEF Ready

(* A step to the k-th instruction of the same activation. *)
LEMMA StepKeeps ==
  ASSUME NEW S, NEW ann, NEW base, Ready(S, ann, base), frames # << >>,
         NEW bottom, bottom = base[Len(frames)], NEW k, k \in 1 .. Len(code[Top.fn]),
         NEW b, b = ann[Top.fn][k],
         stack' \in Seq(Value), regs' \in [Registers -> Value], frames' \in Seq(Activations),
         Continues(Len(frames), frames, frames'), frames'[Len(frames)].at = k,
         Agree(bottom, stack, stack'), Len(stack') = bottom + b.height,
         Holds(b.height, b.entry, bottom, stack', regs', Top.entry),
         Holds(b.height, b.vals, bottom, stack', regs', frames'[Len(frames)].vals)
  PROVE  StillReady(S, ann)
<1> DEFINE n == Len(frames)
<1>1. n \in Nat \ {0}
  BY DEF Ready, Describes
<1>2. frames'[n].fn = Top.fn /\ frames'[n].entry = Top.entry
  BY DEF Continues, Top
<1>3. Point(ann, frames'[n]) = b
  BY <1>2 DEF Point
<1>4. Runs(ann, frames'[n], bottom, stack', regs')
  <2> HIDE DEF n
  <2> QED
    BY <1>2, <1>3 DEF Runs, n
<1>5. frames'[n].at \in 1 .. Len(code[frames[n].fn])
  BY DEF Top
<1>6. /\ Annotated(program, flagged, code, ann) /\ program \in Programs
      /\ Describes(program, S, code, ann, base, stack, regs, frames)
  BY DEF Ready
<1> HIDE DEF n
<1>7. n = Len(frames)
  BY DEF n
<1>8. Continues(n, frames, frames') /\ Agree(base[n], stack, stack') /\ Runs(ann, frames'[n], base[n], stack', regs')
  BY <1>4, <1>7
<1>9. \E base2 : Describes(program, S, code, ann, base2, stack', regs', frames')
  BY <1>1, <1>5, <1>6, <1>7, <1>8, TopStep
<1> QED
  BY <1>9 DEF StillReady

LEMMA JumpFacts ==
  ASSUME NEW ann, NEW a, NEW b, NEW bottom, AtPoint(ann, bottom, a, b),
         NEW k, k \in 1 .. Len(code[Top.fn]), NEW frames2, frames2 = Jump(k)
  PROVE  /\ frames2 \in Seq(Activations) /\ Continues(Len(frames), frames, frames2)
         /\ frames2[Len(frames)].at = k /\ frames2[Len(frames)].vals = Top.vals
<1>1. frames \in Seq(Activations) /\ Len(frames) > 0 /\ k \in Nat
  BY DEF AtPoint
<1>2. frames2 = [frames EXCEPT ![Len(frames)].at = k]
  BY DEF Jump
<1>3. frames2 \in Seq(Activations) /\ Continues(Len(frames), frames, frames2)
      /\ frames2[Len(frames)].at = k /\ frames2[Len(frames)].vals = frames[Len(frames)].vals
  BY <1>1, <1>2, Jumped
<1> QED
  BY <1>3 DEF Top

(* The stack shrinks to k cells, or grows. *)
LEMMA ShrinkFacts ==
  ASSUME NEW stk \in Seq(Value), NEW k \in 0 .. Len(stk), NEW stk2, stk2 = SubSeq(stk, 1, k)
  PROVE  /\ stk2 \in Seq(Value) /\ Len(stk2) = k
         /\ \A m \in Nat : m <= k => Agree(m, stk, stk2)
<1>1. stk2 \in Seq(Value) /\ Len(stk2) = k /\ \A j \in 1 .. k : stk2[j] = stk[j]
  OBVIOUS
<1>2. ASSUME NEW m \in Nat, m <= k PROVE Agree(m, stk, stk2)
  <2>1. 1 .. m \subseteq 1 .. k
    BY <1>2
  <2> QED
    BY <1>1, <2>1 DEF Agree
<1> QED
  BY <1>1, <1>2

LEMMA GrowFacts ==
  ASSUME NEW stk \in Seq(Value), NEW more \in Seq(Value), NEW stk2, stk2 = stk \o more
  PROVE  /\ stk2 \in Seq(Value) /\ Len(stk2) = Len(stk) + Len(more)
         /\ \A m \in Nat : m <= Len(stk) => Agree(m, stk, stk2)
<1>1. /\ stk2 \in Seq(Value) /\ Len(stk2) = Len(stk) + Len(more)
      /\ \A j \in 1 .. Len(stk) : stk2[j] = stk[j]
  OBVIOUS
<1>2. ASSUME NEW m \in Nat, m <= Len(stk) PROVE Agree(m, stk, stk2)
  <2>1. 1 .. m \subseteq 1 .. Len(stk)
    BY <1>2
  <2> QED
    BY <1>1, <2>1 DEF Agree
<1> QED
  BY <1>1, <1>2

LEMMA PushKeeps ==
  ASSUME NEW S, NEW ann, NEW base, Ready(S, ann, base), Push
  PROVE  StillReady(S, ann)
<1>1. frames # << >> /\ Here.op = "push" /\ stack' = Append(stack, regs[Here.reg])
      /\ frames' = Jump(Top.at + 1) /\ regs' = regs
  BY DEF Push, Running, Advance
<1>2. PICK a, b, bottom : bottom = base[Len(frames)] /\ AtPoint(ann, bottom, a, b)
  BY <1>1, ReadyFacts
<1>3. /\ Here.reg \in Registers /\ b.height = a.height + 1
      /\ Pushed(Here.reg, a.height, a.entry, b.entry) /\ Pushed(Here.reg, a.height, a.vals, b.vals)
  BY <1>1, <1>2 DEF AtPoint, ByOp
<1>4. stack' \in Seq(Value) /\ Len(stack') = bottom + b.height /\ Agree(bottom, stack, stack')
      /\ stack'[bottom + a.height + 1] = regs[Here.reg]
      /\ Agree(bottom + a.height, stack, stack')
  <2>1. stack \in Seq(Value) /\ regs[Here.reg] \in Value /\ Len(stack) = bottom + a.height
        /\ a.height \in Nat /\ bottom \in Nat
    BY <1>2, <1>3 DEF AtPoint
  <2> QED
    BY <1>1, <1>3, <2>1 DEF Agree
<1>5. /\ Holds(b.height, b.entry, bottom, stack', regs, Top.entry)
      /\ Holds(b.height, b.vals, bottom, stack', regs, Top.vals)
  <2>1. /\ a.height \in Nat /\ a.entry \in Half /\ a.vals \in Half /\ b.entry \in Half /\ b.vals \in Half
        /\ bottom \in Nat /\ Holds(a.height, a.entry, bottom, stack, regs, Top.entry)
        /\ Holds(a.height, a.vals, bottom, stack, regs, Top.vals)
    BY <1>2 DEF AtPoint
  <2> QED
    BY <1>3, <1>4, <2>1, HoldsPushed
<1>6. Top.at + 1 \in 1 .. Len(code[Top.fn]) /\ b = ann[Top.fn][Top.at + 1] /\ regs \in [Registers -> Value]
  BY <1>1, <1>2 DEF AtPoint
<1>7. /\ frames' \in Seq(Activations) /\ Continues(Len(frames), frames, frames')
      /\ frames'[Len(frames)].at = Top.at + 1 /\ frames'[Len(frames)].vals = Top.vals
  BY <1>1, <1>2, <1>6, JumpFacts
<1> QED
  BY <1>1, <1>2, <1>4, <1>5, <1>6, <1>7, StepKeeps

LEMMA PopKeeps ==
  ASSUME NEW S, NEW ann, NEW base, Ready(S, ann, base), Pop
  PROVE  StillReady(S, ann)
<1>1. frames # << >> /\ Here.op = "pop" /\ regs' = [regs EXCEPT ![Here.reg] = Cell(0)]
      /\ stack' = Drop(1) /\ frames' = Jump(Top.at + 1)
  BY DEF Pop, Running, Advance
<1>2. PICK a, b, bottom : bottom = base[Len(frames)] /\ AtPoint(ann, bottom, a, b)
  BY <1>1, ReadyFacts
<1>3. /\ Here.reg \in Registers /\ a.height > 0 /\ b.height = a.height - 1
      /\ Popped(Here.reg, a.height, a.entry, b.entry) /\ Popped(Here.reg, a.height, a.vals, b.vals)
  BY <1>1, <1>2 DEF AtPoint, ByOp
<1>4. stack' \in Seq(Value) /\ Len(stack') = bottom + b.height /\ Agree(bottom, stack, stack')
      /\ Agree(bottom + a.height - 1, stack, stack')
      /\ stack[bottom + a.height] \in Value /\ Cell(0) = stack[bottom + a.height]
  <2>1. stack \in Seq(Value) /\ Len(stack) = bottom + a.height /\ a.height \in Nat /\ bottom \in Nat
    BY <1>2 DEF AtPoint
  <2>2. stack' = SubSeq(stack, 1, bottom + a.height - 1)
    BY <1>1, <2>1 DEF Drop
  <2>3. bottom + a.height - 1 \in 0 .. Len(stack) /\ bottom + b.height = bottom + a.height - 1
        /\ bottom <= bottom + a.height - 1 /\ bottom + a.height - 1 \in Nat
    BY <1>3, <2>1
  <2>4. stack' \in Seq(Value) /\ Len(stack') = bottom + a.height - 1 /\ Agree(bottom, stack, stack')
        /\ Agree(bottom + a.height - 1, stack, stack')
    <3> DEFINE k == bottom + a.height - 1
    <3>1. /\ stack \in Seq(Value) /\ stack' = SubSeq(stack, 1, k) /\ k \in 0 .. Len(stack)
          /\ bottom \in Nat /\ k \in Nat /\ bottom <= k /\ k <= k
      BY <2>1, <2>2, <2>3
    <3> HIDE DEF k
    <3>2. stack' \in Seq(Value) /\ Len(stack') = k /\ Agree(bottom, stack, stack') /\ Agree(k, stack, stack')
      BY <3>1, ShrinkFacts
    <3> QED
      BY <3>2 DEF k
  <2>5. stack[bottom + a.height] \in Value /\ Cell(0) = stack[bottom + a.height]
    BY <1>3, <2>1 DEF Cell
  <2> QED
    BY <2>3, <2>4, <2>5
<1>5. /\ regs' \in [Registers -> Value] /\ regs'[Here.reg] = stack[bottom + a.height]
      /\ SetOnly(Here.reg, regs, regs')
  <2>1. regs \in [Registers -> Value]
    BY <1>2 DEF AtPoint
  <2> QED
    BY <1>1, <1>3, <1>4, <2>1 DEF SetOnly
<1>6. /\ Holds(b.height, b.entry, bottom, stack', regs', Top.entry)
      /\ Holds(b.height, b.vals, bottom, stack', regs', Top.vals)
  <2>1. /\ a.height \in Nat /\ a.entry \in Half /\ a.vals \in Half /\ b.entry \in Half /\ b.vals \in Half
        /\ bottom \in Nat /\ Holds(a.height, a.entry, bottom, stack, regs, Top.entry)
        /\ Holds(a.height, a.vals, bottom, stack, regs, Top.vals)
    BY <1>2 DEF AtPoint
  <2> QED
    BY <1>3, <1>4, <1>5, <2>1, HoldsPopped
<1>7. Top.at + 1 \in 1 .. Len(code[Top.fn]) /\ b = ann[Top.fn][Top.at + 1]
  BY <1>1, <1>2 DEF AtPoint
<1>8. /\ frames' \in Seq(Activations) /\ Continues(Len(frames), frames, frames')
      /\ frames'[Len(frames)].at = Top.at + 1 /\ frames'[Len(frames)].vals = Top.vals
  BY <1>1, <1>2, <1>7, JumpFacts
<1> QED
  BY <1>1, <1>2, <1>4, <1>5, <1>6, <1>7, <1>8, StepKeeps

LEMMA SubKeeps ==
  ASSUME NEW S, NEW ann, NEW base, Ready(S, ann, base), Sub
  PROVE  StillReady(S, ann)
<1>1. frames # << >> /\ Here.op = "sub" /\ stack' = stack \o [i \in 1 .. Here.n |-> Junk]
      /\ frames' = Jump(Top.at + 1) /\ regs' = regs
  BY DEF Sub, Running, Advance
<1>2. PICK a, b, bottom : bottom = base[Len(frames)] /\ AtPoint(ann, bottom, a, b)
  BY <1>1, ReadyFacts
<1>3. /\ Here.n \in Nat /\ b.height = a.height + Here.n
      /\ Opened(Here.n, a.height, a.entry, b.entry) /\ Opened(Here.n, a.height, a.vals, b.vals)
  BY <1>1, <1>2 DEF AtPoint, ByOp, Instrs
<1>4. stack' \in Seq(Value) /\ Len(stack') = bottom + b.height /\ Agree(bottom, stack, stack')
      /\ Agree(bottom + a.height, stack, stack')
  <2>1. stack \in Seq(Value) /\ Len(stack) = bottom + a.height /\ a.height \in Nat /\ bottom \in Nat
    BY <1>2 DEF AtPoint
  <2>2. Junk \in Value
    BY DEF Junk, Value
  <2> DEFINE junk == [i \in 1 .. Here.n |-> Junk]
  <2>3. junk \in Seq(Value) /\ Len(junk) = Here.n
    BY <1>3, <2>2
  <2>4. stack' = stack \o junk
    BY <1>1
  <2> HIDE DEF junk
  <2>5. bottom <= Len(stack) /\ bottom + a.height <= Len(stack) /\ bottom + a.height \in Nat
        /\ bottom + b.height = Len(stack) + Len(junk)
    BY <1>3, <2>1, <2>3
  <2> QED
    BY <2>1, <2>3, <2>4, <2>5, GrowFacts
<1>5. /\ Holds(b.height, b.entry, bottom, stack', regs, Top.entry)
      /\ Holds(b.height, b.vals, bottom, stack', regs, Top.vals)
  <2>1. /\ a.height \in Nat /\ a.entry \in Half /\ a.vals \in Half /\ b.entry \in Half /\ b.vals \in Half
        /\ bottom \in Nat /\ Holds(a.height, a.entry, bottom, stack, regs, Top.entry)
        /\ Holds(a.height, a.vals, bottom, stack, regs, Top.vals)
    BY <1>2 DEF AtPoint
  <2> QED
    BY <1>3, <1>4, <2>1, HoldsOpened
<1>6. Top.at + 1 \in 1 .. Len(code[Top.fn]) /\ b = ann[Top.fn][Top.at + 1] /\ regs \in [Registers -> Value]
  BY <1>1, <1>2 DEF AtPoint
<1>7. /\ frames' \in Seq(Activations) /\ Continues(Len(frames), frames, frames')
      /\ frames'[Len(frames)].at = Top.at + 1 /\ frames'[Len(frames)].vals = Top.vals
  BY <1>1, <1>2, <1>6, JumpFacts
<1> QED
  BY <1>1, <1>2, <1>4, <1>5, <1>6, <1>7, StepKeeps

LEMMA AddKeeps ==
  ASSUME NEW S, NEW ann, NEW base, Ready(S, ann, base), Add
  PROVE  StillReady(S, ann)
<1>1. frames # << >> /\ Here.op = "add" /\ stack' = Drop(Here.n)
      /\ frames' = Jump(Top.at + 1) /\ regs' = regs
  BY DEF Add, Running, Advance
<1>2. PICK a, b, bottom : bottom = base[Len(frames)] /\ AtPoint(ann, bottom, a, b)
  BY <1>1, ReadyFacts
<1>3. /\ Here.n \in Nat /\ Here.n <= a.height /\ b.height = a.height - Here.n
      /\ Weaker(b.height, a.entry, b.entry) /\ Weaker(b.height, a.vals, b.vals)
  BY <1>1, <1>2 DEF AtPoint, ByOp, Instrs
<1>4. stack' \in Seq(Value) /\ Len(stack') = bottom + b.height /\ Agree(bottom, stack, stack')
      /\ Agree(bottom + b.height, stack, stack') /\ b.height \in Nat /\ b.height <= a.height
  <2>1. stack \in Seq(Value) /\ Len(stack) = bottom + a.height /\ a.height \in Nat /\ bottom \in Nat
    BY <1>2 DEF AtPoint
  <2>2. stack' = SubSeq(stack, 1, bottom + b.height) /\ b.height \in Nat /\ b.height <= a.height
    BY <1>1, <1>3, <2>1 DEF Drop
  <2>3. bottom + b.height \in 0 .. Len(stack) /\ bottom <= bottom + b.height /\ bottom + b.height \in Nat
    BY <2>1, <2>2
  <2> DEFINE k == bottom + b.height
  <2>4. /\ stack \in Seq(Value) /\ stack' = SubSeq(stack, 1, k) /\ k \in 0 .. Len(stack)
        /\ bottom \in Nat /\ k \in Nat /\ bottom <= k /\ k <= k
    BY <2>1, <2>2, <2>3
  <2> HIDE DEF k
  <2>5. stack' \in Seq(Value) /\ Len(stack') = k /\ Agree(bottom, stack, stack') /\ Agree(k, stack, stack')
    BY <2>4, ShrinkFacts
  <2> QED
    BY <2>2, <2>5 DEF k
<1>5. /\ Holds(b.height, b.entry, bottom, stack', regs, Top.entry)
      /\ Holds(b.height, b.vals, bottom, stack', regs, Top.vals)
  <2>1. /\ a.height \in Nat /\ a.entry \in Half /\ a.vals \in Half /\ b.entry \in Half /\ b.vals \in Half
        /\ bottom \in Nat /\ Holds(a.height, a.entry, bottom, stack, regs, Top.entry)
        /\ Holds(a.height, a.vals, bottom, stack, regs, Top.vals)
    BY <1>2 DEF AtPoint
  <2> QED
    BY <1>3, <1>4, <2>1, HoldsWeaker
<1>6. Top.at + 1 \in 1 .. Len(code[Top.fn]) /\ b = ann[Top.fn][Top.at + 1] /\ regs \in [Registers -> Value]
  BY <1>1, <1>2 DEF AtPoint
<1>7. /\ frames' \in Seq(Activations) /\ Continues(Len(frames), frames, frames')
      /\ frames'[Len(frames)].at = Top.at + 1 /\ frames'[Len(frames)].vals = Top.vals
  BY <1>1, <1>2, <1>6, JumpFacts
<1> QED
  BY <1>1, <1>2, <1>4, <1>5, <1>6, <1>7, StepKeeps

LEMMA SetKeeps ==
  ASSUME NEW S, NEW ann, NEW base, Ready(S, ann, base), Set
  PROVE  StillReady(S, ann)
<1> DEFINE r == HereStep.reg
           v == Computed(Top.fn, Here.step)
           n == Len(frames)
<1>1. frames # << >> /\ Here.op = "set" /\ regs' = [regs EXCEPT ![r] = v]
      /\ frames' = [Jump(Top.at + 1) EXCEPT ![n].vals[r] = v] /\ stack' = stack
  BY DEF Set, Running, Advance
<1>2. PICK a, b, bottom : bottom = base[n] /\ AtPoint(ann, bottom, a, b)
  BY <1>1, ReadyFacts
<1>3. r \in Registers /\ Sets(HereStep, a, b) /\ b.height = a.height /\ Here.step \in DOMAIN Body(Top.fn)
  BY <1>1, <1>2 DEF AtPoint, ByOp, HereStep, Body
<1>4. v \in Value
  <2>1. n \in Nat /\ Top.fn \in Nat /\ Here.step \in Nat
    BY <1>2 DEF AtPoint, Activations, Instrs
  <2> QED
    BY <2>1 DEF Computed, Value
<1>5. regs' \in [Registers -> Value] /\ regs'[r] = v /\ SetOnly(r, regs, regs')
  <2>1. regs \in [Registers -> Value]
    BY <1>2 DEF AtPoint
  <2> HIDE DEF r, v
  <2> QED
    BY <1>1, <1>3, <1>4, <2>1 DEF SetOnly
<1>6. Top.at + 1 \in 1 .. Len(code[Top.fn]) /\ b = ann[Top.fn][Top.at + 1]
  BY <1>1, <1>2 DEF AtPoint
<1> DEFINE jumped == Jump(Top.at + 1)
           vals2 == [Top.vals EXCEPT ![r] = v]
<1>7. /\ jumped \in Seq(Activations) /\ Continues(n, frames, jumped)
      /\ jumped[n].at = Top.at + 1 /\ jumped[n].vals = Top.vals
  BY <1>2, <1>6, JumpFacts
<1>8. /\ vals2 \in [Registers -> Value] /\ vals2[r] = v /\ SetOnly(r, Top.vals, vals2)
  <2>1. Top.vals \in [Registers -> Value]
    BY <1>2 DEF AtPoint, Activations
  <2> HIDE DEF r, v
  <2> QED
    BY <1>3, <1>4, <2>1 DEF SetOnly
<1>9. /\ frames' \in Seq(Activations) /\ Continues(n, frames, frames')
      /\ frames'[n].at = Top.at + 1 /\ frames'[n].vals = vals2
  <2> DEFINE new == [jumped[n] EXCEPT !.vals = vals2]
  <2>1. Len(jumped) = n /\ n \in Nat \ {0} /\ jumped[n] \in Activations
    BY <1>2, <1>7 DEF AtPoint, Continues
  <2>2. /\ new \in Activations /\ new.fn = jumped[n].fn /\ new.entry = jumped[n].entry
        /\ new.vals = vals2 /\ new.at = jumped[n].at
    <3> HIDE DEF vals2, jumped, n
    <3> QED
      BY <1>8, <2>1 DEF Activations
  <2>3. frames' = [jumped EXCEPT ![n] = new]
    BY <1>1, <1>7
  <2> HIDE DEF new, jumped, n
  <2>4. /\ frames' \in Seq(Activations) /\ Len(frames') = n /\ frames'[n] = new
        /\ \A d \in 1 .. n - 1 : frames'[d] = jumped[d]
    BY <1>7, <2>1, <2>2, <2>3
  <2> QED
    BY <1>7, <2>2, <2>4 DEF Continues
<1>10. /\ Holds(b.height, b.entry, bottom, stack, regs', Top.entry)
       /\ Holds(b.height, b.vals, bottom, stack, regs', vals2)
  <2>1. /\ a.height \in Nat /\ a \in State /\ b \in State
        /\ bottom \in Nat /\ Holds(a.height, a.entry, bottom, stack, regs, Top.entry)
        /\ Holds(a.height, a.vals, bottom, stack, regs, Top.vals)
    BY <1>2 DEF AtPoint
  <2> HIDE DEF vals2, v
  <2>2. regs'[HereStep.reg] = v /\ vals2[HereStep.reg] = v
        /\ SetOnly(HereStep.reg, regs, regs') /\ SetOnly(HereStep.reg, Top.vals, vals2)
    BY <1>5, <1>8
  <2> QED
    BY <1>3, <2>1, <2>2, HoldsSet
<1>11. stack \in Seq(Value) /\ Len(stack) = bottom + b.height /\ Agree(bottom, stack, stack)
  BY <1>2, <1>3 DEF AtPoint, Agree
<1> HIDE DEF jumped, vals2, r, v, n
<1>12. n = Len(frames)
  BY DEF n
<1> QED
  BY <1>1, <1>2, <1>5, <1>6, <1>9, <1>10, <1>11, <1>12, StepKeeps

LEMMA AgreeItself == ASSUME NEW k, NEW stk PROVE Agree(k, stk, stk)
  BY DEF Agree

(* Looking around, and a "leave" that does not jump. *)
LEMMA PassingKeeps ==
  ASSUME NEW S, NEW ann, NEW base, Ready(S, ann, base), frames # << >>,
         Here.op \in {"use", "leave", "copy", "param"}, frames' = Advance, stack' = stack, regs' = regs
  PROVE  StillReady(S, ann)
<1>1. frames' = Jump(Top.at + 1)
  BY DEF Advance
<1>2. PICK a, b, bottom : bottom = base[Len(frames)] /\ AtPoint(ann, bottom, a, b)
  BY ReadyFacts
<1>3. /\ b.height = a.height /\ Weaker(a.height, a.entry, b.entry) /\ Weaker(a.height, a.vals, b.vals)
  BY <1>2 DEF AtPoint, ByOp
<1>4. stack \in Seq(Value) /\ Len(stack) = bottom + b.height /\ Agree(bottom, stack, stack)
  BY <1>2, <1>3, AgreeItself DEF AtPoint
<1>5. /\ Holds(b.height, b.entry, bottom, stack, regs, Top.entry)
      /\ Holds(b.height, b.vals, bottom, stack, regs, Top.vals)
  <2>1. /\ a.height \in Nat /\ a.entry \in Half /\ a.vals \in Half /\ b.entry \in Half /\ b.vals \in Half
        /\ bottom \in Nat /\ Holds(a.height, a.entry, bottom, stack, regs, Top.entry)
        /\ Holds(a.height, a.vals, bottom, stack, regs, Top.vals)
    BY <1>2 DEF AtPoint
  <2> QED
    BY <1>3, <2>1, HoldsWeaker, AgreeItself
<1>6. Top.at + 1 \in 1 .. Len(code[Top.fn]) /\ b = ann[Top.fn][Top.at + 1] /\ regs \in [Registers -> Value]
  BY <1>2 DEF AtPoint
<1>7. /\ frames' \in Seq(Activations) /\ Continues(Len(frames), frames, frames')
      /\ frames'[Len(frames)].at = Top.at + 1 /\ frames'[Len(frames)].vals = Top.vals
  BY <1>1, <1>2, <1>6, JumpFacts
<1> QED
  BY <1>2, <1>4, <1>5, <1>6, <1>7, StepKeeps

LEMMA LookKeeps ==
  ASSUME NEW S, NEW ann, NEW base, Ready(S, ann, base), Look
  PROVE  StillReady(S, ann)
  BY PassingKeeps DEF Look, Running

(* The exit that a "leave" jumps to takes the frame as the body has it. *)
LEMMA LeaveKeeps ==
  ASSUME NEW S, NEW ann, NEW base, Ready(S, ann, base), Leave,
         \A f \in F : assigned[f] = Colours(f)
  PROVE  StillReady(S, ann)
<1> DEFINE f == Top.fn
           k == Len(code[f]) - Len(EarlyExit(f)) + 1
<1>1. frames # << >> /\ Here.op = "leave" /\ stack' = stack /\ regs' = regs
      /\ (frames' = Advance \/ frames' = Jump(k))
  BY DEF Leave, Running
<1>2. PICK a, b, bottom : bottom = base[Len(frames)] /\ AtPoint(ann, bottom, a, b)
  BY <1>1, ReadyFacts
<1>3. CASE frames' = Advance
  BY <1>1, <1>3, PassingKeeps
<1>4. CASE frames' = Jump(k)
  <2>1. f \in F /\ program \in Programs /\ f \in DOMAIN program
    BY <1>2 DEF AtPoint, Ready, F
  <2> DEFINE size == Size(program, flagged, f)
             exit == Within(program, f, size, {})
  <2>2. a.height = size /\ Weaker(a.height, a.entry, Frame(program, f))
    <3> DEFINE s == program[f].body[Here.step]
    <3>1. s.op = "leave" /\ Looks(program, flagged, f, s, a)
      BY <1>1, <1>2 DEF AtPoint, ByOp
    <3> HIDE DEF s, f
    <3> QED
      BY <3>1 DEF Looks
  <2>3. k \in 1 .. Len(code[f]) /\ ann[f][k] = exit
    <3>1. Len(EarlyExit(f)) = ExitLength(program, flagged, f)
      BY <2>1, AllocatedNames
    <3>2. Annotates(program, flagged, f, code[f], ann[f])
      BY <2>1 DEF Ready, Annotated
    <3> HIDE DEF f
    <3> QED
      BY <3>1, <3>2 DEF Annotates
  <2>4. size \in Nat
    BY <2>1, SizeFacts
  <2>5. /\ exit.height = size /\ exit.entry = Frame(program, f) /\ exit.vals.reg = {} /\ exit \in State
        /\ \A j \in Nat : exit.vals.cell[j] = {}
    <3> HIDE DEF size, f
    <3> QED
      BY <2>1, <2>4, WithinFacts
  <2> HIDE DEF exit, k
  <2>6. stack \in Seq(Value) /\ Len(stack) = bottom + exit.height /\ Agree(bottom, stack, stack)
    BY <1>2, <2>2, <2>5, AgreeItself DEF AtPoint
  <2>7. Holds(exit.height, exit.entry, bottom, stack, regs, Top.entry)
    <3>1. /\ a.height \in Nat /\ a.entry \in Half /\ exit.entry \in Half /\ bottom \in Nat
          /\ Holds(a.height, a.entry, bottom, stack, regs, Top.entry)
      BY <1>2, <2>5 DEF AtPoint, State
    <3>2. Weaker(a.height, a.entry, exit.entry) /\ exit.height = a.height
      BY <2>2, <2>5
    <3> QED
      BY <3>1, <3>2, HoldsWeaker, AgreeItself
  <2>8. Holds(exit.height, exit.vals, bottom, stack, regs, Top.vals)
    BY <2>5 DEF Holds
  <2>9. /\ frames' \in Seq(Activations) /\ Continues(Len(frames), frames, frames')
        /\ frames'[Len(frames)].at = k /\ frames'[Len(frames)].vals = Top.vals
    BY <1>2, <1>4, <2>3, JumpFacts
  <2>10. regs \in [Registers -> Value]
    BY <1>2 DEF AtPoint
  <2> QED
    BY <1>1, <1>2, <2>3, <2>6, <2>7, <2>8, <2>9, <2>10, StepKeeps
<1> QED
  BY <1>1, <1>3, <1>4

-----------------------------------------------------------------------------
(* A call and a return. *)

Extended(base, n, top) == [d \in 1 .. n + 1 |-> IF d = n + 1 THEN top ELSE base[d]]

LEMMA StackedAbove ==
  ASSUME NEW p, NEW S, NEW c, NEW ann, NEW base, NEW stk, NEW frs \in Seq(Activations),
         Stacked(p, S, c, ann, frs, base, stk), NEW n \in Nat \ {0}, n = Len(frs),
         NEW act, NEW frs2, frs2 = Append(frs, act), NEW top \in Nat, top > base[n],
         Entered(p, S, act, top, n + 1, stk), Waits(p, c, ann, frs[n], act, base[n], top, n, stk)
  PROVE  Stacked(p, S, c, ann, frs2, Extended(base, n, top), stk)
<1> DEFINE base2 == Extended(base, n, top)
<1>1. /\ base \in [1 .. n -> Nat \ {0}] /\ base[1] = 1 /\ stk[1] = << "address", 0, 0, 0 >>
      /\ \A d, e \in 1 .. n : d < e => base[d] < base[e]
      /\ \A d \in 1 .. n : Entered(p, S, frs[d], base[d], d, stk)
      /\ \A d \in 1 .. n - 1 :
           Waits(p, c, ann, frs[d], frs[d + 1], base[d], base[d + 1], d, stk)
  BY DEF Stacked
<1>2. Len(frs2) = n + 1 /\ frs2[n + 1] = act /\ \A d \in 1 .. n : frs2[d] = frs[d]
  OBVIOUS
<1>3. base2[n + 1] = top /\ \A d \in 1 .. n : base2[d] = base[d]
  BY DEF Extended
<1>4. base2 \in [1 .. n + 1 -> Nat \ {0}]
  <2> SUFFICES ASSUME NEW d \in 1 .. n + 1 PROVE (IF d = n + 1 THEN top ELSE base[d]) \in Nat \ {0}
    BY DEF Extended
  <2>1. base[n] \in Nat
    BY <1>1
  <2>2. d # n + 1 => d \in 1 .. n
    OBVIOUS
  <2> QED
    BY <1>1, <2>1, <2>2
<1>5. ASSUME NEW d \in 1 .. n + 1, NEW e \in 1 .. n + 1, d < e PROVE base2[d] < base2[e]
  <2>1. d \in 1 .. n
    BY <1>5
  <2>2. CASE e = n + 1
    <3>1. base[d] \in Nat /\ base[n] \in Nat
      <4>1. n \in 1 .. n
        OBVIOUS
      <4> QED
        BY <1>1, <2>1, <4>1
    <3>2. base[d] <= base[n]
      <4>1. CASE d = n
        BY <3>1, <4>1
      <4>2. CASE d # n
        <5>1. base[d] < base[n]
          BY <1>1, <2>1, <4>2
        <5> QED
          BY <3>1, <5>1
      <4> QED
        BY <4>1, <4>2
    <3>3. base2[d] = base[d] /\ base2[e] = top
      BY <1>3, <2>1, <2>2
    <3> QED
      BY <3>1, <3>2, <3>3
  <2>3. CASE e # n + 1
    BY <1>1, <1>3, <1>5, <2>1, <2>3
  <2> QED
    BY <2>2, <2>3
<1>6. ASSUME NEW d \in 1 .. n + 1 PROVE Entered(p, S, frs2[d], base2[d], d, stk)
  <2>1. CASE d = n + 1
    BY <1>2, <1>3, <2>1
  <2>2. CASE d # n + 1
    BY <1>1, <1>2, <1>3, <2>2
  <2> QED
    BY <2>1, <2>2
<1>7. ASSUME NEW d \in 1 .. n
      PROVE  Waits(p, c, ann, frs2[d], frs2[d + 1], base2[d], base2[d + 1], d, stk)
  <2>1. frs2[d] = frs[d] /\ base2[d] = base[d]
    BY <1>2, <1>3
  <2>2. CASE d = n
    BY <1>2, <1>3, <2>1, <2>2
  <2>3. CASE d # n
    <3>1. d \in 1 .. n - 1 /\ d + 1 \in 1 .. n
      BY <2>3
    <3>2. frs2[d + 1] = frs[d + 1] /\ base2[d + 1] = base[d + 1]
      BY <1>2, <1>3, <3>1
    <3> QED
      BY <1>1, <2>1, <3>1, <3>2
  <2> QED
    BY <2>2, <2>3
<1>8. 1 \in 1 .. n /\ base2[1] = 1
  BY <1>1, <1>3
<1> HIDE DEF base2
<1>9. n + 1 - 1 = n
  OBVIOUS
<1>10. Stacked(p, S, c, ann, frs2, base2, stk)
  BY <1>1, <1>2, <1>4, <1>5, <1>6, <1>7, <1>8, <1>9 DEF Stacked
<1> QED
  BY <1>10 DEF base2

LEMMA OddSum ==
  ASSUME NEW x \in Nat, NEW y \in Nat, Odd(x), Odd(y)
  PROVE  Odd(x + y + 1) /\ ~ Odd(x + y)
  BY DEF Odd

LEMMA FunctionIsSequence ==
  ASSUME NEW T, NEW m \in Nat, NEW s \in [1 .. m -> T]
  PROVE  s \in Seq(T) /\ Len(s) = m
  OBVIOUS

(* The cells of the arguments, for a callee that is passed so many. *)
LEMMA ArgumentCells ==
  ASSUME NEW bottom \in Nat, NEW height \in Nat, NEW passed \in Nat, passed <= height,
         NEW m, m = bottom + height
  PROVE  /\ \A c \in 1 .. bottom + (height - passed) : c \in 1 .. m /\ ~ (m - c < passed)
         /\ \A k \in Nat : k < passed =>
              /\ m - k \in 1 .. m /\ m - (m - k) = k /\ (m + 1) - 1 - k = m - k
              /\ bottom > 0 => k + 1 < m + 1
  OBVIOUS

LEMMA CallKeeps ==
  ASSUME NEW S, NEW ann, NEW base, Ready(S, ann, base), Aligns(program, flagged, S), Call
  PROVE  StillReady(S, ann)
<1> DEFINE n == Len(frames)
           f == Top.fn
           g == HereStep.callee
           passed == program[g].params
           m == Len(stack)
           stored == [c \in DOMAIN stack |->
                        IF Len(stack) - c < program[g].params
                        THEN Argument(Len(stack) - c, Len(frames) + 1) ELSE stack[c]]
           act == Activation(g)
           top == m + 1
           base2 == Extended(base, n, top)
<1>1. /\ frames # << >> /\ Here.op = "call" /\ n < MaxDepth /\ regs' = regs
      /\ stack' = Append(stored, Address(f, Top.at)) /\ frames' = Append(frames, act)
  BY DEF Call, Running
<1>2. PICK a, b, bottom : bottom = base[n] /\ AtPoint(ann, bottom, a, b)
  BY <1>1, ReadyFacts
<1> DEFINE below == a.height - passed
<1>3. /\ n \in Nat \ {0} /\ frames \in Seq(Activations) /\ f \in F /\ stack \in Seq(Value)
      /\ m = bottom + a.height /\ m \in Nat /\ a.height \in Nat /\ bottom \in Nat \ {0}
      /\ regs \in [Registers -> Value] /\ Top.at \in Nat /\ a = Point(ann, Top)
      /\ f \in Nat /\ a.entry \in Half /\ a.vals \in Half
  BY <1>2 DEF AtPoint, Activations
<1>4. program \in Programs /\ F = DOMAIN program
  BY DEF Ready, F
<1>5. /\ Here.step \in DOMAIN Body(f) /\ HereStep \in Step /\ HereStep.op = "call"
      /\ CallsOn(program, flagged, f, HereStep, a, b)
  BY <1>1, <1>2 DEF AtPoint, ByOp, HereStep, Body
<1>6. g \in F /\ passed \in Nat /\ g \in Nat
  <2>1. g \in DOMAIN program
    BY <1>3, <1>4, <1>5, ProgramsAssumption DEF HereStep, Body
  <2> QED
    BY <1>4, <2>1, ProgramFacts
<1>7. below \in Nat /\ passed <= a.height
  <2>1. below >= 0
    BY <1>5 DEF CallsOn
  <2> QED
    BY <1>3, <1>6, <2>1
<1>8. /\ stack' \in Seq(Value) /\ Len(stack') = top /\ stack'[top] = << "address", f, Top.at, n >>
      /\ \A c \in 1 .. m : stack'[c] = IF m - c < passed THEN Argument(m - c, n + 1) ELSE stack[c]
  <2> DEFINE address == << "address", f, Top.at, n >>
  <2>1. ASSUME NEW c \in 1 .. m
        PROVE  (IF m - c < passed THEN Argument(m - c, n + 1) ELSE stack[c]) \in Value
    <3>1. m - c \in Nat /\ n + 1 \in Nat /\ stack[c] \in Value
      BY <1>3
    <3> QED
      BY <3>1 DEF Argument, Value
  <2>2. stored = [c \in 1 .. m |-> IF m - c < passed THEN Argument(m - c, n + 1) ELSE stack[c]]
    BY <1>3
  <2>3. stored \in [1 .. m -> Value]
    BY <2>1, <2>2
  <2>4. stored \in Seq(Value) /\ Len(stored) = m
    <3> HIDE DEF stored, m
    <3> QED
      BY <1>3, <2>3, FunctionIsSequence
  <2>5. address \in Value
    BY <1>3 DEF Value
  <2>6. Address(f, Top.at) = address
    BY DEF Address
  <2> HIDE DEF stored, address
  <2>7. stack' = Append(stored, address)
    BY <1>1, <2>6
  <2>8. /\ stack' \in Seq(Value) /\ Len(stack') = m + 1 /\ stack'[m + 1] = address
        /\ \A c \in 1 .. m : stack'[c] = stored[c]
    BY <1>3, <2>4, <2>5, <2>7
  <2> QED
    BY <2>2, <2>8 DEF address
<1>9. Agree(bottom + below, stack, stack') /\ Agree(bottom, stack, stack')
  <2>1. ASSUME NEW c \in 1 .. bottom + below PROVE stack'[c] = stack[c]
    <3>1. c \in 1 .. m /\ ~ (m - c < passed)
      <4> HIDE DEF m, passed
      <4> QED
        BY <1>3, <1>6, <1>7, ArgumentCells
    <3> QED
      BY <1>8, <3>1
  <2>2. 1 .. bottom \subseteq 1 .. bottom + below
    BY <1>3, <1>7
  <2> QED
    BY <2>1, <2>2 DEF Agree
<1>10. /\ act \in Activations /\ act.fn = g /\ act.at = 1 /\ act.entry = regs /\ act.vals = regs
  BY <1>3, <1>6 DEF Activation, Activations
<1> HIDE DEF n, f, g, m, stored, act
<1>11. /\ Annotated(program, flagged, code, ann) /\ Located(program, code, frames)
       /\ Stacked(program, S, code, ann, frames, base, stack)
       /\ base \in [1 .. n -> Nat] /\ \A d \in 1 .. n : Entered(program, S, frames[d], base[d], d, stack)
  BY DEF Ready, Describes, Stacked, n
<1>12. Stacked(program, S, code, ann, frames, base, stack')
  <2>1. n \in 1 .. Len(frames) /\ Continues(n, frames, frames) /\ Agree(base[n], stack, stack')
    BY <1>2, <1>3, <1>9 DEF Continues, n
  <2>2. Stacked(program, S, code, ann, frames, Restricted(base, n), stack')
    BY <1>3, <1>4, <1>11, <2>1, StackedBelow
  <2>3. Restricted(base, n) = base
    BY <1>11 DEF Restricted
  <2> QED
    BY <2>2, <2>3
<1>13. Entered(program, S, act, top, n + 1, stack')
  <2>1. ASSUME NEW k \in Nat, k < program[act.fn].params
        PROVE  k + 1 < top /\ stack'[top - 1 - k] = Argument(k, n + 1)
    <3>1. k < passed
      BY <1>10, <2>1 DEF g
    <3>2. m - k \in 1 .. m /\ m - (m - k) = k /\ top - 1 - k = m - k /\ k + 1 < top
      <4>1. bottom > 0 /\ bottom \in Nat /\ a.height \in Nat /\ m = bottom + a.height
        BY <1>3
      <4>2. passed \in Nat /\ passed <= a.height
        BY <1>6, <1>7
      <4> HIDE DEF passed, base2, below
      <4>3. m - k \in 1 .. m /\ m - (m - k) = k /\ (m + 1) - 1 - k = m - k /\ k + 1 < m + 1
        BY <3>1, <4>1, <4>2, ArgumentCells
      <4> QED
        BY <4>3
    <3>3. stack'[m - k] = Argument(m - (m - k), n + 1)
      BY <1>8, <3>1, <3>2
    <3> QED
      BY <3>1, <3>2, <3>3
  <2>2. n + 1 # 1
    BY <1>3
  <2>3. ASSUME act.fn \in S PROVE Odd(top)
    <3>1. f \in S
      <4>1. HereStep = program[f].body[Here.step] /\ Here.step \in DOMAIN program[f].body
        BY <1>5 DEF HereStep, Body, f
      <4>2. HereStep.callee \in S /\ HereStep.op = "call"
        BY <1>5, <1>10, <2>3 DEF g
      <4> QED
        BY <1>3, <1>4, <4>1, <4>2 DEF Aligns
    <3>2. Odd(a.height)
      BY <1>5, <3>1 DEF CallsOn, Aligns
    <3>3. Odd(bottom)
      <4>1. Entered(program, S, frames[n], base[n], n, stack) /\ frames[n].fn = f
        BY <1>3, <1>11 DEF Top, n, f
      <4> QED
        BY <1>2, <3>1, <4>1 DEF Entered
    <3> QED
      BY <1>3, <3>2, <3>3, OddSum
  <2> QED
    BY <2>1, <2>2, <2>3 DEF Entered
<1>14. Waits(program, code, ann, frames[n], act, base[n], top, n, stack')
  <2>1. frames[n] = Top
    BY DEF Top, n
  <2>2. /\ Holds(a.height, a.entry, bottom, stack, regs, Top.entry)
        /\ Holds(a.height, a.vals, bottom, stack, regs, Top.vals)
    BY <1>2 DEF AtPoint
  <2>3. Weaker(below, a.entry, a.entry) /\ Weaker(below, a.vals, a.vals) /\ below <= a.height
    BY <1>3, <1>6, <1>7 DEF Weaker
  <2>4. /\ Holds(below, a.entry, bottom, stack', regs, Top.entry)
        /\ Holds(below, a.vals, bottom, stack', regs, Top.vals)
    <3> HIDE DEF below
    <3> QED
      BY <1>3, <1>7, <1>9, <2>2, <2>3, HoldsWeaker
  <2>5. Here = code[Top.fn][Top.at] /\ program[Top.fn].body[Here.step].callee = g
    BY DEF Here, HereStep, Body, g, f
  <2>6. top = bottom + a.height + 1 /\ stack'[top] = << "address", Top.fn, Top.at, n >>
    BY <1>3, <1>8 DEF f
  <2> QED
    BY <1>1, <1>2, <1>3, <1>10, <2>1, <2>4, <2>5, <2>6 DEF Waits
<1>15. Stacked(program, S, code, ann, frames', base2, stack')
  <2>1. n = Len(frames) /\ frames' = Append(frames, act) /\ top \in Nat /\ top > base[n]
    BY <1>1, <1>2, <1>3 DEF n
  <2> HIDE DEF top
  <2> QED
    BY <1>3, <1>12, <1>13, <1>14, <2>1, StackedAbove
<1>16. /\ frames' \in Seq(Activations) /\ Len(frames') = n + 1 /\ frames'[n + 1] = act
       /\ \A d \in 1 .. n : frames'[d] = frames[d]
  BY <1>1, <1>3, <1>10 DEF n
<1>17. Annotates(program, flagged, g, code[g], ann[g])
  BY <1>4, <1>6, <1>11 DEF Annotated
<1>18. Located(program, code, frames')
  <2> SUFFICES ASSUME NEW d \in 1 .. n + 1
               PROVE  frames'[d].fn \in DOMAIN program /\ frames'[d].at \in 1 .. Len(code[frames'[d].fn])
    BY <1>16 DEF Located
  <2>1. CASE d = n + 1
    <3>1. Len(code[g]) \in Nat \ {0}
      BY <1>17 DEF Annotates
    <3> QED
      BY <1>4, <1>6, <1>10, <1>16, <2>1, <3>1
  <2>2. CASE d # n + 1
    <3>1. d \in 1 .. n
      BY <1>3, <2>2
    <3> QED
      BY <1>11, <1>16, <3>1 DEF Located, n
  <2> QED
    BY <2>1, <2>2
<1>19. Runs(ann, act, top, stack', regs)
  <2>1. Point(ann, act) = ann[g][1] /\ ann[g][1].height = 0
    BY <1>10, <1>17 DEF Point, Annotates
  <2> QED
    BY <1>3, <1>8, <1>10, <2>1 DEF Runs, Holds
<1>20. base2[n + 1] = top
  BY <1>3 DEF Extended
<1>21. n + 1 <= MaxDepth
  BY <1>1, <1>3, DepthAssumption
<1> HIDE DEF base2, top
<1>22. Describes(program, S, code, ann, base2, stack', regs', frames')
  BY <1>1, <1>3, <1>8, <1>15, <1>16, <1>18, <1>19, <1>20, <1>21 DEF Describes
<1> QED
  BY <1>22 DEF StillReady

(* What now holds what it held then, and the values after a return, where  *)
(* only the result is new.                                                 *)
Unchanged(R, then, now) == \A r \in R : now[r] = then[r]
Receives(dst, now, vals, vals2) ==
  \A r \in Registers : vals2[r] = IF r = dst THEN now[r] ELSE vals[r]

LEMMA HoldsReturned ==
  ASSUME NEW p, NEW fl, NEW f, NEW s, NEW a \in State, NEW b \in State, CallsOn(p, fl, f, s, a, b),
         NEW base \in Nat, NEW stk, NEW stk2, Agree(base + a.height, stk, stk2),
         NEW then, NEW now, Unchanged(Safe(p, s.callee), then, now),
         NEW entry, NEW vals, NEW vals2, Receives(s.dst, now, vals, vals2),
         Holds(a.height - p[s.callee].params, a.entry, base, stk, then, entry),
         Holds(a.height - p[s.callee].params, a.vals, base, stk, then, vals)
  PROVE  Holds(a.height, b.entry, base, stk2, now, entry) /\ Holds(a.height, b.vals, base, stk2, now, vals2)
<1> DEFINE below == a.height - p[s.callee].params
<1>1. a.height \in Nat /\ b.entry \in Half /\ b.vals \in Half
  BY DEF State
<1>2. \A j \in 1 .. a.height : stk2[base + j] = stk[base + j]
  BY <1>1 DEF Agree
<1>3. Holds(a.height, b.entry, base, stk2, now, entry)
  <2>1. ASSUME NEW j \in 1 .. a.height, NEW r \in b.entry.cell[j] PROVE stk2[base + j] = entry[r]
    <3>1. j <= below /\ r \in a.entry.cell[j]
      BY DEF CallsOn
    <3>2. j \in 1 .. below
      BY <3>1
    <3> QED
      BY <1>2, <3>1, <3>2 DEF Holds
  <2>2. ASSUME NEW r \in b.entry.reg PROVE now[r] = entry[r]
    <3>1. r \in a.entry.reg /\ r \in Safe(p, s.callee)
      BY DEF CallsOn
    <3> QED
      BY <3>1 DEF Holds, Unchanged
  <2> QED
    BY <2>1, <2>2 DEF Holds
<1>4. Holds(a.height, b.vals, base, stk2, now, vals2)
  <2>1. ASSUME NEW j \in 1 .. a.height, NEW r \in b.vals.cell[j] PROVE stk2[base + j] = vals2[r]
    <3>1. j <= below /\ r \in a.vals.cell[j] /\ r # s.dst
      BY DEF CallsOn
    <3>2. j \in 1 .. below
      BY <3>1
    <3>3. r \in Registers
      BY <1>1, HalfFacts
    <3> QED
      BY <1>2, <3>1, <3>2, <3>3 DEF Holds, Receives
  <2>2. ASSUME NEW r \in b.vals.reg PROVE now[r] = vals2[r]
    <3>1. r \in Registers
      BY <1>1, HalfFacts
    <3>2. CASE r = s.dst
      BY <3>1, <3>2 DEF Receives
    <3>3. CASE r # s.dst
      <4>1. r \in a.vals.reg /\ r \in Safe(p, s.callee)
        BY <3>3 DEF CallsOn
      <4> QED
        BY <3>1, <3>3, <4>1 DEF Holds, Unchanged, Receives
    <3> QED
      BY <3>2, <3>3
  <2> QED
    BY <2>1, <2>2 DEF Holds
<1> QED
  BY <1>3, <1>4

LEMMA ReturnKeeps ==
  ASSUME NEW S, NEW ann, NEW base, Ready(S, ann, base), Return
  PROVE  StillReady(S, ann)
<1> DEFINE n == Len(frames)
           m == n - 1
           caller == frames[m]
           instr == code[caller.fn][caller.at]
           s == program[caller.fn].body[instr.step]
           vals2 == [r \in Registers |-> IF r = s.dst THEN regs[r] ELSE caller.vals[r]]
<1>1. /\ frames # << >> /\ Here.op = "ret" /\ stack' = Drop(1) /\ regs' = regs
      /\ frames' = IF m = 0 THEN << >>
                   ELSE [SubSeq(frames, 1, m) EXCEPT
                           ![m].at = @ + 1,
                           ![m].vals = [r \in Registers |-> IF r = s.dst THEN regs[r] ELSE @[r]]]
  BY DEF Return, Running, Body
<1>2. PICK a, b, bottom : bottom = base[n] /\ AtPoint(ann, bottom, a, b)
  BY <1>1, ReadyFacts
<1>3. a.height = 0 /\ Safe(program, Top.fn) \subseteq a.entry.reg
  BY <1>1, <1>2 DEF AtPoint, ByOp
<1>4. /\ n \in Nat \ {0} /\ frames \in Seq(Activations) /\ stack \in Seq(Value)
      /\ Len(stack) = bottom /\ bottom \in Nat \ {0} /\ regs \in [Registers -> Value]
      /\ Holds(a.height, a.entry, bottom, stack, regs, Top.entry) /\ program \in Programs
  BY <1>2, <1>3 DEF AtPoint, Ready
<1>5. stack' \in Seq(Value) /\ Len(stack') = bottom - 1
      /\ \A k \in Nat : k <= bottom - 1 => Agree(k, stack, stack')
  <2> DEFINE k == bottom - 1
  <2>1. stack' = SubSeq(stack, 1, k) /\ k \in 0 .. Len(stack)
    <3>1. bottom \in Nat \ {0} /\ Len(stack) = bottom
      BY <1>4
    <3>2. k \in 0 .. bottom
      BY <3>1
    <3> QED
      BY <1>1, <3>1, <3>2 DEF Drop
  <2> HIDE DEF k
  <2>2. stack' \in Seq(Value) /\ Len(stack') = k /\ \A j \in Nat : j <= k => Agree(j, stack, stack')
    BY <1>4, <2>1, ShrinkFacts
  <2> QED
    BY <2>2 DEF k
<1>8. n \in Nat \ {0} /\ bottom \in Nat \ {0} /\ bottom - 1 \in Nat
  BY <1>4
<1> HIDE DEF n
<1>6. CASE m = 0
  <2>1. frames' = << >>
    BY <1>1, <1>6
  <2> DEFINE base2 == [d \in 1 .. 0 |-> 0]
  <2>2. base2 \in [1 .. 0 -> Nat \ {0}]
    OBVIOUS
  <2>3. frames' \in Seq(Activations) /\ Len(frames') = 0
    BY <2>1
  <2> HIDE DEF base2
  <2>4. Stacked(program, S, code, ann, frames', base2, stack') /\ Located(program, code, frames')
    BY <2>2, <2>3 DEF Stacked, Located
  <2>5. Describes(program, S, code, ann, base2, stack', regs', frames')
    <3>1. 0 <= MaxDepth /\ ~ (0 > 0)
      BY DepthAssumption
    <3>2. regs' \in [Registers -> Value] /\ stack' \in Seq(Value)
      BY <1>1, <1>4, <1>5
    <3> QED
      BY <2>3, <2>4, <3>1, <3>2 DEF Describes
  <2> QED
    BY <2>5 DEF StillReady
<1>7. CASE m # 0
  <2>1. m \in 1 .. n /\ m + 1 = n /\ m \in Nat \ {0} /\ m \in 1 .. n - 1
    BY <1>7, <1>8
  <2>2. caller \in Activations
    BY <1>4, <2>1 DEF n
  <2>3. /\ Annotated(program, flagged, code, ann) /\ Located(program, code, frames)
        /\ Stacked(program, S, code, ann, frames, base, stack) /\ n <= MaxDepth
    BY DEF Ready, Describes, n
  <2>4. /\ caller.fn \in DOMAIN program /\ caller.at \in 1 .. Len(code[caller.fn])
        /\ base[m] \in Nat \ {0}
        /\ Waits(program, code, ann, caller, Top, base[m], bottom, m, stack)
    <3>1. /\ \A d \in 1 .. n : frames[d].fn \in DOMAIN program /\ frames[d].at \in 1 .. Len(code[frames[d].fn])
          /\ base \in [1 .. n -> Nat \ {0}]
          /\ \A d \in 1 .. n - 1 :
               Waits(program, code, ann, frames[d], frames[d + 1], base[d], base[d + 1], d, stack)
      BY <2>3 DEF Located, Stacked, n
    <3>2. Waits(program, code, ann, frames[m], frames[m + 1], base[m], base[m + 1], m, stack)
      BY <2>1, <3>1
    <3> HIDE DEF m
    <3> QED
      BY <1>2, <2>1, <3>1, <3>2 DEF Top, n
  <2> DEFINE a1 == Point(ann, caller)
             b1 == ann[caller.fn][caller.at + 1]
             f1 == caller.fn
             below == a1.height - program[Top.fn].params
  <2>5. /\ instr.op = "call" /\ s.callee = Top.fn /\ bottom = base[m] + a1.height + 1
        /\ Holds(below, a1.entry, base[m], stack, Top.entry, caller.entry)
        /\ Holds(below, a1.vals, base[m], stack, Top.entry, caller.vals)
    BY <2>4 DEF Waits
  <2> HIDE DEF caller
  <2>6. /\ instr \in Instrs /\ a1 \in State /\ b1 \in State
        /\ Fits(program, flagged, caller.fn, instr, a1, b1)
        /\ caller.at + 1 \in 1 .. Len(code[caller.fn])
    BY <1>4, <2>3, <2>4, <2>5, PointFacts
  <2>7. b1.height = a1.height /\ CallsOn(program, flagged, caller.fn, s, a1, b1)
    <3>1. ByOp(program, flagged, caller.fn, instr, a1, b1)
      <4> HIDE DEF instr, a1, b1, s
      <4> QED
        BY <1>4, <2>4, <2>6, FitsByOp
    <3> QED
      BY <2>5, <3>1 DEF ByOp
  <2>8. Unchanged(Safe(program, s.callee), Top.entry, regs)
    BY <1>3, <1>4, <2>5 DEF Holds, Unchanged
  <2>9. Receives(s.dst, regs, caller.vals, vals2)
    BY DEF Receives
  <2>10. vals2 \in [Registers -> Value]
    <3>1. caller.vals \in [Registers -> Value]
      BY <2>2 DEF Activations
    <3> HIDE DEF s
    <3> QED
      BY <1>4, <3>1
  <2>11. a1.height \in Nat
    BY <2>6 DEF State
  <2>12. Agree(base[m] + a1.height, stack, stack') /\ Agree(base[m], stack, stack')
    <3>1. base[m] + a1.height \in Nat /\ base[m] + a1.height <= bottom - 1
          /\ base[m] \in Nat /\ base[m] <= bottom - 1
      BY <1>4, <2>4, <2>5, <2>11
    <3> QED
      BY <1>5, <3>1
  <2>13. /\ Holds(a1.height, b1.entry, base[m], stack', regs, caller.entry)
         /\ Holds(a1.height, b1.vals, base[m], stack', regs, vals2)
    <3>1. /\ Holds(a1.height - program[s.callee].params, a1.entry, base[m], stack, Top.entry, caller.entry)
          /\ Holds(a1.height - program[s.callee].params, a1.vals, base[m], stack, Top.entry, caller.vals)
          /\ base[m] \in Nat
      BY <2>4, <2>5
    <3> HIDE DEF below, a1, b1, vals2, s, instr, m
    <3> QED
      BY <2>6, <2>7, <2>8, <2>9, <2>12, <3>1, HoldsReturned
  <2>14. /\ frames' \in Seq(Activations) /\ Continues(m, frames, frames')
         /\ frames'[m].at = caller.at + 1 /\ frames'[m].vals = vals2
    <3> DEFINE lower == SubSeq(frames, 1, m)
               at2 == caller.at + 1
             new == [caller EXCEPT !.at = at2, !.vals = vals2]
    <3>1. /\ lower \in Seq(Activations) /\ Len(lower) = m /\ \A d \in 1 .. m : lower[d] = frames[d]
      <4> HIDE DEF m
      <4> QED
        BY <1>4, <2>1 DEF n
    <3>2. /\ new \in Activations /\ new.fn = caller.fn /\ new.entry = caller.entry
          /\ new.at = caller.at + 1 /\ new.vals = vals2
      <4>1. at2 \in Nat
        BY <2>2 DEF Activations
      <4>2. /\ new \in Activations /\ new.fn = caller.fn /\ new.entry = caller.entry
            /\ new.at = at2 /\ new.vals = vals2
        <5> HIDE DEF vals2, at2
        <5> QED
          BY <2>2, <2>10, <4>1 DEF Activations
      <4> QED
        BY <4>2
    <3>3. frames' = [lower EXCEPT ![m] = new]
      <4>1. lower[m] = caller
        BY <2>1, <3>1 DEF caller
      <4>2. frames' = [lower EXCEPT ![m].at = @ + 1,
                                    ![m].vals = [r \in Registers |-> IF r = s.dst THEN regs[r] ELSE @[r]]]
        BY <1>1, <1>7
      <4> HIDE DEF lower, s, m
      <4>3. frames' = [lower EXCEPT ![m] =
                         [caller EXCEPT !.at = @ + 1,
                                        !.vals = [r \in Registers |-> IF r = s.dst THEN regs[r] ELSE @[r]]]]
        BY <4>1, <4>2
      <4> QED
        BY <4>3
    <3> HIDE DEF lower, new, m, vals2
    <3>4. /\ frames' \in Seq(Activations) /\ Len(frames') = m /\ frames'[m] = new
          /\ \A d \in 1 .. m - 1 : frames'[d] = lower[d]
      BY <2>1, <3>1, <3>2, <3>3
    <3>5. \A d \in 1 .. m - 1 : frames'[d] = frames[d]
      BY <2>1, <3>1, <3>4
    <3> QED
      BY <3>2, <3>4, <3>5 DEF Continues, caller
  <2> DEFINE base2 == Restricted(base, m)
  <2>15. base2[m] = base[m]
    BY <2>1 DEF Restricted
  <2>16. Stacked(program, S, code, ann, frames', base2, stack')
    <3>1. m \in 1 .. Len(frames)
      BY <2>1 DEF n
    <3> HIDE DEF m
    <3> QED
      BY <1>4, <2>3, <2>12, <2>14, <3>1, StackedBelow
  <2>17. Len(frames') = m
    BY <2>14 DEF Continues
  <2>18. Located(program, code, frames')
    <3> SUFFICES ASSUME NEW d \in 1 .. m
                 PROVE  frames'[d].fn \in DOMAIN program /\ frames'[d].at \in 1 .. Len(code[frames'[d].fn])
      BY <2>17 DEF Located
    <3>1. CASE d = m
      BY <2>4, <2>6, <2>14, <3>1 DEF Continues, caller
    <3>2. CASE d # m
      <4>1. d \in 1 .. m - 1 /\ d \in 1 .. n
        <5> HIDE DEF m
        <5> QED
          BY <2>1, <3>2
      <4> QED
        BY <2>3, <2>14, <4>1 DEF Located, Continues, n
    <3> QED
      BY <3>1, <3>2
  <2>19. Runs(ann, frames'[m], base[m], stack', regs)
    <3>1. frames'[m].fn = caller.fn /\ frames'[m].entry = caller.entry
      BY <2>14 DEF Continues, caller
    <3>2. Point(ann, frames'[m]) = b1
      BY <2>14, <3>1 DEF Point
    <3>3. Len(stack') = base[m] + b1.height
      <4>1. base[m] \in Nat /\ bottom = base[m] + a1.height + 1 /\ a1.height \in Nat /\ b1.height = a1.height
        BY <2>4, <2>5, <2>7, <2>11
      <4> HIDE DEF a1, b1, m
      <4> QED
        BY <1>5, <1>8, <4>1
    <3> HIDE DEF b1, a1, m, vals2
    <3> QED
      BY <2>7, <2>13, <2>14, <3>1, <3>2, <3>3 DEF Runs
  <2>20. m <= MaxDepth
    BY <1>8, <2>3, DepthAssumption
  <2>22. regs' \in [Registers -> Value] /\ stack' \in Seq(Value) /\ regs' = regs
    BY <1>1, <1>4, <1>5
  <2> HIDE DEF m, base2
  <2>21. Describes(program, S, code, ann, base2, stack', regs', frames')
    BY <2>14, <2>15, <2>16, <2>17, <2>18, <2>19, <2>20, <2>22 DEF Describes
  <2> QED
    BY <2>21 DEF StillReady
<1> QED
  BY <1>6, <1>7

-----------------------------------------------------------------------------
(* The whole run. *)

RunInv ==
  /\ pc # "run" => stack = << >> /\ frames = << >> /\ regs = [r \in Registers |-> Initially(r)]
  /\ pc = "run" => \E S, ann, base : Aligns(program, flagged, S) /\ Ready(S, ann, base)

LEMMA StartKeeps ==
  ASSUME CodeInv, RunInv, NEW f \in F, Start(f)
  PROVE  RunInv'
<1>1. /\ pc' = "run" /\ stack' = << Address(0, 0) >> /\ frames' = << Activation(f) >> /\ regs' = regs
      /\ UNCHANGED << program, flagged, assigned, code, frameSize >> /\ program[f].params = 0
      /\ pc = "allocate" /\ \A g \in F : code[g] # << >>
  BY DEF Start, compiled
<1>2. stack = << >> /\ frames = << >> /\ regs = [r \in Registers |-> Initially(r)]
  BY <1>1 DEF RunInv
<1>3. program \in Programs /\ F = DOMAIN program /\ f \in Nat
  BY ProgramFacts DEF CodeInv, F
<1>4. PICK S : Aligns(program, flagged, S)
  BY <1>1 DEF CodeInv
<1>5. PICK ann : Annotated(program, flagged, code, ann)
  <2> DEFINE ann == [g \in F |-> CHOOSE x : Annotates(program, flagged, g, code[g], x)]
  <2>1. ASSUME NEW g \in F PROVE Annotates(program, flagged, g, code[g], ann[g])
    <3>1. \E x : Annotates(program, flagged, g, code[g], x)
      BY <1>1 DEF CodeInv, Finished
    <3> QED
      BY <3>1
  <2> HIDE DEF ann
  <2>2. Annotated(program, flagged, code, ann)
    BY <1>3, <2>1 DEF Annotated
  <2> QED
    BY <2>2
<1> DEFINE act == Activation(f)
           base == [d \in 1 .. 1 |-> 1]
<1>6. regs \in [Registers -> Value]
  <2>1. \A r \in Registers : Initially(r) \in Value
    BY RegistersAssumption DEF Initially, Value
  <2> QED
    BY <1>2, <2>1
<1>7. act \in Activations /\ act.fn = f /\ act.at = 1 /\ act.entry = regs /\ act.vals = regs
  BY <1>3, <1>6 DEF Activation, Activations
<1>8. Len(stack') = 1 /\ stack'[1] = << "address", 0, 0, 0 >> /\ stack' \in Seq(Value)
  <2>1. Address(0, 0) = << "address", 0, 0, 0 >>
    BY <1>2 DEF Address
  <2>2. << "address", 0, 0, 0 >> \in Value
    BY DEF Value
  <2> QED
    BY <1>1, <2>1, <2>2
<1> HIDE DEF act
<1>9. frames' \in Seq(Activations) /\ Len(frames') = 1 /\ frames'[1] = act
  BY <1>1, <1>7 DEF act
<1>10. base \in [1 .. 1 -> Nat \ {0}] /\ base[1] = 1
  OBVIOUS
<1> HIDE DEF base
<1>11. Entered(program, S, act, 1, 1, stack')
  BY <1>1, <1>7 DEF Entered, Odd
<1>12. Stacked(program, S, code, ann, frames', base, stack')
  BY <1>8, <1>9, <1>10, <1>11 DEF Stacked
<1>13. Annotates(program, flagged, f, code[f], ann[f])
  BY <1>3, <1>5 DEF Annotated
<1>14. Located(program, code, frames')
  <2>1. Len(code[f]) \in Nat \ {0}
    BY <1>13 DEF Annotates
  <2> QED
    BY <1>3, <1>7, <1>9, <2>1 DEF Located
<1>15. Runs(ann, act, 1, stack', regs)
  <2>1. Point(ann, act) = ann[f][1] /\ ann[f][1].height = 0
    BY <1>7, <1>13 DEF Point, Annotates
  <2> QED
    BY <1>7, <1>8, <2>1 DEF Runs, Holds
<1>16. Describes(program, S, code, ann, base, stack', regs', frames')
  BY <1>1, <1>6, <1>8, <1>9, <1>10, <1>12, <1>14, <1>15, DepthAssumption DEF Describes
<1>17. Ready(S, ann, base)'
  BY <1>1, <1>3, <1>5, <1>16 DEF Ready
<1> QED
  BY <1>1, <1>4, <1>17 DEF RunInv

LEMMA RunStep == CodeInv /\ RunInv /\ [Next]_vars => RunInv'
<1> SUFFICES ASSUME CodeInv, RunInv, [Next]_vars PROVE RunInv'
  OBVIOUS
<1>1. ASSUME Parse \/ BuildCfg \/ Color \/ InsertSavingLogic PROVE RunInv'
  <2>1. pc # "run" /\ pc' # "run" /\ UNCHANGED machine
    BY <1>1 DEF Parse, BuildCfg, Color, InsertSavingLogic
  <2> QED
    BY <2>1 DEF RunInv, machine
<1>2. ASSUME NEW f \in F, Start(f) PROVE RunInv'
  BY <1>2, StartKeeps
<1>3. ASSUME Set \/ Look \/ Leave \/ Push \/ Pop \/ Sub \/ Add \/ Call \/ Return PROVE RunInv'
  <2>1. pc = "run"
    BY <1>3 DEF Set, Look, Leave, Push, Pop, Sub, Add, Call, Return, Running
  <2>2. PICK S, ann, base : Aligns(program, flagged, S) /\ Ready(S, ann, base)
    BY <2>1 DEF RunInv
  <2>3. \A f \in F : assigned[f] = Colours(f)
    BY <2>1 DEF CodeInv, Finished, Colours
  <2>4. StillReady(S, ann)
    BY <1>3, <2>2, <2>3, SetKeeps, LookKeeps, LeaveKeeps, PushKeeps, PopKeeps, SubKeeps, AddKeeps,
       CallKeeps, ReturnKeeps
  <2>5. UNCHANGED << program, pc, flagged, assigned, code, frameSize >>
    BY <1>3 DEF Set, Look, Leave, Push, Pop, Sub, Add, Call, Return, Ran, compiled
  <2>6. PICK base2 : Describes(program, S, code, ann, base2, stack', regs', frames')
    BY <2>4 DEF StillReady
  <2>7. Ready(S, ann, base2)' /\ Aligns(program, flagged, S)'
    BY <2>2, <2>5, <2>6 DEF Ready
  <2> QED
    BY <2>1, <2>5, <2>7 DEF RunInv
<1>4. ASSUME UNCHANGED vars PROVE RunInv'
  BY <1>4 DEF RunInv, Ready, vars, compiled, machine
<1> QED
  BY <1>1, <1>2, <1>3, <1>4 DEF Next

Inv == CodeInv /\ RunInv

LEMMA InvInitially == Init => Inv
<1>1. Init => RunInv
  BY DEF Init, RunInv
<1> QED
  BY <1>1, CodeInitially DEF Inv

LEMMA InvStep == Inv /\ [Next]_vars => Inv' /\ UNCHANGED program
  BY CodeStep, RunStep DEF Inv

(* The code of every function stays annotated, and while it runs each      *)
(* activation finds the machine as the annotation of its place says.       *)
THEOREM Invariant == Spec => []Inv
<1>1. Inv /\ [Next]_vars => Inv'
  BY InvStep
<1> QED
  BY <1>1, InvInitially, PTL DEF Spec

-----------------------------------------------------------------------------
(* What it means for a running function. *)

LEMMA RunningFacts ==
  ASSUME Inv, NEW op, Running(op)
  PROVE  \E S, ann, base : /\ Aligns(program, flagged, S) /\ Ready(S, ann, base)
                           /\ \E a, b, bottom : bottom = base[Len(frames)] /\ AtPoint(ann, bottom, a, b)
<1>1. pc = "run" /\ frames # << >>
  BY DEF Running
<1>2. PICK S, ann, base : Aligns(program, flagged, S) /\ Ready(S, ann, base)
  BY <1>1 DEF Inv, RunInv
<1> QED
  BY <1>1, <1>2, ReadyFacts

(* Whatever program is compiled and run, no register, cell or activation   *)
(* is anything but what its declaration says.                              *)
THEOREM TypeCorrect == Spec => []TypeOK
<1>1. Inv => TypeOK
  <2> SUFFICES ASSUME Inv PROVE TypeOK
    OBVIOUS
  <2>1. /\ pc \in {"parse", "cfg", "allocate", "save", "run"}
        /\ flagged \subseteq F /\ assigned \in [F -> SUBSET Registers] /\ frameSize \in [F -> Nat]
        /\ code \in [F -> Seq(Instrs)] /\ program \in Programs /\ F = DOMAIN program
    BY DEF Inv, CodeInv, F
  <2>2. \A f \in F : \A i \in DOMAIN code[f] : code[f][i].reg \in Registers \cup {0}
    <3> SUFFICES ASSUME NEW f \in F, NEW i \in DOMAIN code[f] PROVE code[f][i].reg \in Registers \cup {0}
      OBVIOUS
    <3>1. code[f] \in Seq(Instrs)
      BY <2>1
    <3>2. code[f][i] \in Instrs
      BY <3>1
    <3> QED
      BY <3>2 DEF Instrs
  <2>3. CASE pc # "run"
    <3>1. stack = << >> /\ frames = << >> /\ regs = [r \in Registers |-> Initially(r)]
      BY <2>3 DEF Inv, RunInv
    <3>2. stack \in Seq(Value) /\ regs \in [Registers -> Value]
      <4>1. \A r \in Registers : Initially(r) \in Value
        BY RegistersAssumption DEF Initially, Value
      <4> QED
        BY <3>1, <4>1
    <3>3. DOMAIN frames = {} /\ Len(frames) <= MaxDepth
      BY <3>1, DepthAssumption
    <3> QED
      BY <2>1, <2>2, <3>2, <3>3 DEF TypeOK
  <2>4. CASE pc = "run"
    <3>1. PICK S, ann, base : Ready(S, ann, base)
      BY <2>4 DEF Inv, RunInv
    <3>2. /\ stack \in Seq(Value) /\ regs \in [Registers -> Value] /\ frames \in Seq(Activations)
          /\ Len(frames) <= MaxDepth /\ Located(program, code, frames)
      BY <3>1 DEF Ready, Describes
    <3>3. ASSUME NEW d \in DOMAIN frames
          PROVE  /\ frames[d].fn \in F /\ frames[d].at \in DOMAIN code[frames[d].fn]
                 /\ frames[d].entry \in [Registers -> Value] /\ frames[d].vals \in [Registers -> Value]
      <4>1. d \in 1 .. Len(frames) /\ frames[d] \in Activations
        BY <3>2
      <4>2. frames[d].fn \in DOMAIN program /\ frames[d].at \in 1 .. Len(code[frames[d].fn])
        BY <3>2, <4>1 DEF Located
      <4>3. code[frames[d].fn] \in Seq(Instrs)
        BY <2>1, <4>2
      <4>4. DOMAIN code[frames[d].fn] = 1 .. Len(code[frames[d].fn])
        BY <4>3
      <4> QED
        BY <2>1, <4>1, <4>2, <4>4 DEF Activations
    <3> QED
      BY <2>1, <2>2, <3>2, <3>3 DEF TypeOK
  <2> QED
    BY <2>3, <2>4
<1> QED
  BY <1>1, Invariant, PTL

(* A function returns to where it was called from, on the early exits as   *)
(* well, and has restored every register that it must preserve.            *)
THEOREM ReturnsAreIntact == Spec => []ReturnsIntact
<1>1. Inv => ReturnsIntact
  <2> SUFFICES ASSUME Inv, Running("ret") PROVE ReturnsIntact
    BY DEF ReturnsIntact
  <2>1. PICK S, ann, base, a, b, bottom :
          Ready(S, ann, base) /\ bottom = base[Len(frames)] /\ AtPoint(ann, bottom, a, b)
    BY RunningFacts
  <2> DEFINE n == Len(frames)
  <2>2. /\ a.height = 0 /\ Safe(program, Top.fn) \subseteq a.entry.reg
        /\ n \in Nat \ {0} /\ Len(stack) = bottom /\ bottom \in Nat
        /\ Holds(a.height, a.entry, bottom, stack, regs, Top.entry) /\ Top.fn \in F
    BY <2>1 DEF AtPoint, ByOp, Running
  <2>3. Cell(0) = stack[bottom]
    BY <2>2 DEF Cell
  <2>4. \A r \in CalleeSaved : regs[r] = Top.entry[r]
    <3>1. CalleeSaved \subseteq Safe(program, Top.fn)
      BY <2>2, RegistersAssumption DEF Safe, Clobbered, CallerSaved
    <3> QED
      BY <2>2, <3>1 DEF Holds
  <2>5. Stacked(program, S, code, ann, frames, base, stack)
    BY <2>1 DEF Ready, Describes
  <2>6. CASE n = 1
    <3>1. stack[bottom] = << "address", 0, 0, 0 >>
      BY <2>1, <2>5, <2>6 DEF Stacked
    <3> QED
      BY <2>3, <2>4, <2>6, <3>1 DEF ReturnsIntact
  <2>7. CASE n # 1
    <3>1. n - 1 \in 1 .. n - 1 /\ n - 1 + 1 = n
      BY <2>2, <2>7
    <3>2. Waits(program, code, ann, frames[n - 1], frames[n - 1 + 1], base[n - 1], base[n - 1 + 1], n - 1, stack)
      BY <2>5, <3>1 DEF Stacked
    <3>3. stack[bottom] = << "address", frames[n - 1].fn, frames[n - 1].at, n - 1 >>
      BY <2>1, <3>1, <3>2 DEF Waits
    <3> QED
      BY <2>3, <2>4, <2>7, <3>3 DEF ReturnsIntact
  <2> QED
    BY <2>6, <2>7
<1> QED
  BY <1>1, Invariant, PTL

(* Where a direct call is known to its callee's clobbers, a value that is  *)
(* used after a call is the one from before it.                            *)
THEOREM CallsKeepValues == Spec /\ KnownToCallers(program) => []ValuesSurviveCalls
<1> DEFINE Known == KnownToCallers(program)
<1>1. Inv /\ Known => ValuesSurviveCalls
  <2> SUFFICES ASSUME Inv, Known, Running("use") PROVE regs[HereStep.reg] = Top.vals[HereStep.reg]
    BY DEF ValuesSurviveCalls
  <2>1. PICK S, ann, base, a, b, bottom : AtPoint(ann, bottom, a, b)
    BY RunningFacts
  <2>2. Looks(program, flagged, Top.fn, HereStep, a) /\ HereStep.op = "use"
    BY <2>1 DEF AtPoint, ByOp, Running, HereStep, Body
  <2>3. HereStep.reg \in a.vals.reg
    BY <2>2 DEF Looks
  <2> QED
    BY <2>1, <2>3 DEF AtPoint, Holds
<1>2. Inv /\ Known /\ [Next]_vars => Known'
  <2>1. Inv /\ [Next]_vars => UNCHANGED program
    BY InvStep
  <2> QED
    BY <2>1
<1> HIDE DEF Known
<1>3. Spec /\ Known => []Known
  BY <1>2, Invariant, PTL DEF Spec
<1>4. Spec /\ Known => []ValuesSurviveCalls
  BY <1>1, <1>3, Invariant, PTL
<1> QED
  BY <1>4 DEF Known

(* When the parser has seen the aligned copies of every function that is   *)
(* called, %rsp is a multiple of 16 at each of them.                       *)
THEOREM CopiesStayAligned == Spec /\ CopiesSeen(program) => []CopiesAreAligned
<1> DEFINE Seen == CopiesSeen(program)
<1>1. Inv /\ Seen => CopiesAreAligned
  <2> SUFFICES ASSUME Inv, Seen, Running("copy") PROVE ~ Odd(Len(stack))
    BY DEF CopiesAreAligned
  <2>1. PICK S, ann, base, a, b, bottom :
          /\ Aligns(program, flagged, S) /\ Ready(S, ann, base)
          /\ bottom = base[Len(frames)] /\ AtPoint(ann, bottom, a, b)
    BY RunningFacts
  <2> DEFINE n == Len(frames)
             f == Top.fn
             s == program[f].body[Here.step]
  <2>2. /\ Looks(program, flagged, f, s, a) /\ s.op = "copy" /\ Here.step \in DOMAIN program[f].body
        /\ n \in Nat \ {0} /\ Len(stack) = bottom + a.height /\ bottom \in Nat /\ a.height \in Nat
        /\ f \in DOMAIN program
    BY <2>1 DEF AtPoint, ByOp, Running, F
  <2>3. /\ \A d \in 1 .. n : Entered(program, S, frames[d], base[d], d, stack)
        /\ \A d \in 1 .. n - 1 :
             Waits(program, code, ann, frames[d], frames[d + 1], base[d], base[d + 1], d, stack)
        /\ Located(program, code, frames) /\ Annotated(program, flagged, code, ann)
        /\ program \in Programs
    BY <2>1 DEF Ready, Describes, Stacked
  <2>4. Entered(program, S, Top, bottom, n, stack)
    BY <2>1, <2>2, <2>3 DEF Top
  <2>5. f \in flagged /\ Odd(bottom)
    <3>1. CASE s.seen = "parser"
      <4>1. f \in S
        BY <2>1, <2>2, <3>1 DEF Aligns
      <4> QED
        BY <2>1, <2>4, <4>1 DEF Aligns, Entered
    <3>2. CASE s.seen = "cfg" /\ \A g \in DOMAIN program : f \notin Callees(program, g)
      <4>1. f \in flagged
        <5>1. CfgCopiesFlagged(program, flagged)
          BY DEF Inv, CodeInv, Running
        <5> QED
          BY <2>2, <3>2, <5>1 DEF CfgCopiesFlagged
      <4>2. n = 1
        <5> SUFFICES ASSUME n # 1 PROVE FALSE
          OBVIOUS
        <5> DEFINE m == n - 1
        <5>1. m \in 1 .. n - 1 /\ m \in 1 .. n /\ m + 1 = n
          <6>1. n \in Nat \ {0}
            BY <2>2
          <6> HIDE DEF n
          <6> QED
            BY <6>1
        <5>2. Waits(program, code, ann, frames[m], frames[m + 1], base[m], base[m + 1], m, stack)
          BY <2>3, <5>1
        <5> DEFINE fr == frames[m]
                   instr == code[fr.fn][fr.at]
        <5>3. instr.op = "call" /\ program[fr.fn].body[instr.step].callee = f
          BY <5>1, <5>2 DEF Waits, Top
        <5>4. fr.fn \in DOMAIN program /\ fr.at \in 1 .. Len(code[fr.fn])
          BY <2>3, <5>1 DEF Located
        <5> HIDE DEF fr, m
        <5>5. /\ instr \in Instrs
              /\ Fits(program, flagged, fr.fn, instr, Point(ann, fr), ann[fr.fn][fr.at + 1])
          BY <2>3, <5>4, PointFacts
        <5> HIDE DEF instr
        <5>6. ByOp(program, flagged, fr.fn, instr, Point(ann, fr), ann[fr.fn][fr.at + 1])
          BY <2>3, <5>4, <5>5, FitsByOp
        <5>7. instr.step \in DOMAIN program[fr.fn].body /\ program[fr.fn].body[instr.step].op = "call"
          BY <5>3, <5>6 DEF ByOp
        <5> QED
          BY <3>2, <5>3, <5>4, <5>7 DEF Callees
      <4>3. Odd(bottom)
        BY <2>4, <4>2 DEF Entered
      <4> QED
        BY <4>1, <4>3
    <3>3. \/ s.seen = "parser"
          \/ s.seen = "cfg" /\ \A g \in DOMAIN program : f \notin Callees(program, g)
      BY <2>2 DEF CopiesSeen
    <3> QED
      BY <3>1, <3>2, <3>3
  <2>6. Odd(a.height)
    BY <2>2, <2>5 DEF Looks
  <2> QED
    BY <2>2, <2>5, <2>6, OddSum
<1>2. Inv /\ Seen /\ [Next]_vars => Seen'
  <2>1. Inv /\ [Next]_vars => UNCHANGED program
    BY InvStep
  <2> QED
    BY <2>1
<1> HIDE DEF Seen
<1>3. Spec /\ Seen => []Seen
  BY <1>2, Invariant, PTL DEF Spec
<1>4. Spec /\ Seen => []CopiesAreAligned
  BY <1>1, <1>3, Invariant, PTL
<1> QED
  BY <1>4 DEF Seen

(* Where the size of the frame is what lies between %rsp and the return    *)
(* address, a parameter is read from the cell the caller has put it in.    *)
THEOREM ParametersAreFound == Spec /\ ParametersOffset(program) => []ParametersFound
<1> DEFINE Offset == ParametersOffset(program)
<1>1. Inv /\ Offset => ParametersFound
  <2> SUFFICES ASSUME Inv, Offset, Running("param")
               PROVE  Cell(HereStep.k + 1 + frameSize[Top.fn]) = Argument(HereStep.k, Len(frames))
    BY DEF ParametersFound
  <2>1. PICK S, ann, base, a, b, bottom :
          Ready(S, ann, base) /\ bottom = base[Len(frames)] /\ AtPoint(ann, bottom, a, b)
    BY RunningFacts
  <2> DEFINE n == Len(frames)
             f == Top.fn
             s == program[f].body[Here.step]
             size == Size(program, flagged, f)
             k == s.k
  <2>2. /\ Looks(program, flagged, f, s, a) /\ s.op = "param" /\ Here.step \in DOMAIN program[f].body
        /\ s \in Step /\ n \in Nat \ {0} /\ Len(stack) = bottom + a.height /\ bottom \in Nat
        /\ f \in DOMAIN program /\ f \in F /\ HereStep = s
    BY <2>1 DEF AtPoint, ByOp, Running, F, HereStep, Body
  <2>3. program \in Programs
    BY DEF Inv, CodeInv
  <2>4. a.height = size
    BY <2>2 DEF Looks
  <2>5. k \in Nat /\ k < program[f].params /\ program[f].params \in Nat /\ size \in Nat
    <3>1. k < program[f].params
      BY <2>2, <2>3, ProgramsAssumption
    <3>2. k \in Nat
      BY <2>2, StepFacts
    <3> QED
      BY <2>2, <2>3, <3>1, <3>2, ProgramFacts, SizeFacts
  <2>6. frameSize[f] = size
    <3>1. frameSize[f] = IF Locals(program, flagged, f) = 0 THEN 0 ELSE size
      BY <2>2 DEF Inv, CodeInv, Finished, Running
    <3>2. Locals(program, flagged, f) = 0 => size = 0
      <4>1. program[f].params # 0
        BY <2>5
      <4> QED
        BY <2>2, <2>3, <4>1, SizeFacts
    <3> QED
      BY <3>1, <3>2
  <2>7. Entered(program, S, Top, bottom, n, stack)
    <3>1. /\ \A d \in 1 .. n : Entered(program, S, frames[d], base[d], d, stack)
          /\ n \in 1 .. n
      BY <2>1, <2>2 DEF Ready, Describes, Stacked
    <3>2. Entered(program, S, frames[n], base[n], n, stack)
      BY <3>1
    <3> QED
      BY <2>1, <3>2 DEF Top
  <2>8. stack[bottom - 1 - k] = Argument(k, n)
    BY <2>5, <2>7 DEF Entered
  <2>9. Len(stack) - (k + 1 + size) = bottom - 1 - k
    <3>1. Len(stack) = bottom + size /\ bottom \in Nat /\ size \in Nat /\ k \in Nat
      BY <2>2, <2>4, <2>5
    <3> HIDE DEF size, k
    <3> QED
      BY <3>1
  <2> QED
    BY <2>2, <2>6, <2>8, <2>9 DEF Cell
<1>2. Inv /\ Offset /\ [Next]_vars => Offset'
  <2>1. Inv /\ [Next]_vars => UNCHANGED program
    BY InvStep
  <2> QED
    BY <2>1
<1> HIDE DEF Offset
<1>3. Spec /\ Offset => []Offset
  BY <1>2, Invariant, PTL DEF Spec
<1>4. Spec /\ Offset => []ParametersFound
  BY <1>1, <1>3, Invariant, PTL
<1> QED
  BY <1>4 DEF Offset
=============================================================================
