--------------------------- MODULE AllocatorProofs ---------------------------
(***************************************************************************)
(* Proofs about RegisterAllocator, for any function, any number of         *)
(* registers and any number of spills.                                     *)
(*                                                                         *)
(* When the allocation ends every operand has a register (AllColored): a   *)
(* live range of low degree always finds one, because it has fewer         *)
(* neighbors than there are colours.  This and the types rest on Shape:    *)
(* the code stays code over the variables and live ranges there are, and   *)
(* neighbors are mutual.                                                   *)
(***************************************************************************)
EXTENDS RegisterAllocator, Folds, SequenceTheorems, FiniteSetTheorems, NumberFacts, TLAPS

(* The instructions over the first n variable structures. *)
Instructions(n) == { i \in Instr : WellFormed(i, 1 .. n) }

(* The code is made of instructions over the variable structures there are. *)
CodeTyped == /\ code \in Seq(Seq(Instructions(Len(range))))
             /\ Len(code) = Len(function.blocks)
             /\ slots \in Nat

RangesTyped ==
  /\ reg \in Seq(Nat) /\ SP \in Ranges /\ reg[SP] = RSP
  /\ range \in Seq(Ranges)

LiveTyped == liveIn \in [Blocks -> SUBSET Ranges]

(* Neighbors are neighbors of each other, and none is its own. *)
Mutual ==
  /\ neighbors \in [Ranges -> SUBSET Ranges]
  /\ \A r, s \in Ranges : s \in neighbors[r] => r \in neighbors[s] /\ r # s

(* Until the precolouring there are the live ranges of the function. *)
BeforePrecolor ==
  pc = "build" \/ (pc = "liveness" /\ resume = "precolor") => Len(reg) = Len(function.home)

(* The cursor of the spiller is at an instruction, or past the last. *)
Instruction(c, at) == at[1] \in DOMAIN c /\ at[2] \in DOMAIN c[at[1]]
CursorInCode ==
  /\ cursor \in (Nat \ {0}) \X (Nat \ {0})
  /\ pc = "spill" => AtEnd \/ Instruction(code, cursor)

(* What has left the queue has a register. *)
QueueLacks ==
  /\ pc = "color" => \A r \in Ranges : r \in queue \/ reg[r] # NoReg
  /\ pc = "done" => \A r \in Ranges : reg[r] # NoReg

Shape ==
  /\ function \in Functions
  /\ CodeTyped
  /\ RangesTyped
  /\ LiveTyped
  /\ Mutual
  /\ BeforePrecolor
  /\ CursorInCode

IInv == Shape /\ QueueLacks

-----------------------------------------------------------------------------
(* Facts about sets, sequences and the recursion of the liveness pass. *)

LEMMA MinIsSmallest ==
  ASSUME NEW T, T \subseteq Nat, T # {}
  PROVE  Min(T) \in T
  BY SmallestExists DEF Min

(* A function with the domain of a sequence is a sequence of its length. *)
LEMMA SameLength ==
  ASSUME NEW S, NEW T, NEW s \in Seq(S), NEW g \in [DOMAIN s -> T]
  PROVE  g \in Seq(T) /\ Len(g) = Len(s) /\ DOMAIN g = DOMAIN s
<1>1. DOMAIN s = 1 .. Len(s) /\ Len(s) \in Nat
  OBVIOUS
<1> QED
  BY <1>1, SeqDef

(* The recursion by which LiveAfter walks a block backwards has a solution *)
(* for every block, and its values are sets of live ranges.                *)
Step(h, A, B, p) == (h[p+1] \ A[p+1]) \cup B[p+1]
Solution(h, N, A, B, last) ==
  h = [p \in 1 .. N |-> IF p = N THEN last ELSE Step(h, A, B, p)]

LEMMA BackwardsExists ==
  ASSUME NEW N \in Nat, NEW A, NEW B, NEW last
  PROVE  \E h : Solution(h, N, A, B, last)
<1> DEFINE Solves(h, k) == h = [p \in 1 .. N |-> IF p = N THEN last
                                                ELSE IF p < N - k THEN {} ELSE Step(h, A, B, p)]
           T == { k \in Nat : \E h : Solves(h, k) }
<1>1. 0 \in T
  <2> DEFINE h == [p \in 1 .. N |-> IF p = N THEN last ELSE {}]
  <2>1. ASSUME NEW p \in 1 .. N
        PROVE h[p] = IF p = N THEN last ELSE IF p < N - 0 THEN {} ELSE Step(h, A, B, p)
    <3>1. CASE p = N
      BY <3>1
    <3>2. CASE p # N
      <4>1. p < N - 0 /\ h[p] = {}
        BY <3>2
      <4> HIDE DEF h
      <4> QED
        BY <3>2, <4>1
    <3> QED
      BY <3>1, <3>2
  <2>2. Solves(h, 0)
    BY <2>1
  <2> QED
    BY <2>2
<1>2. ASSUME NEW k \in Nat, k \in T PROVE k + 1 \in T
  <2>1. PICK h : Solves(h, k)
    BY <1>2
  <2> DEFINE g == [p \in 1 .. N |-> IF p = N - (k + 1) THEN Step(h, A, B, p) ELSE h[p]]
  <2>2. ASSUME NEW p \in 1 .. N
        PROVE g[p] = IF p = N THEN last
                     ELSE IF p < N - (k + 1) THEN {} ELSE Step(g, A, B, p)
    <3>1. CASE p = N
      BY <2>1, <3>1
    <3>2. CASE p # N /\ p < N - (k + 1)
      BY <2>1, <3>2
    <3>3. CASE p # N /\ p >= N - (k + 1)
      <4>1. p + 1 \in 1 .. N /\ p + 1 # N - (k + 1)
        BY <3>3
      <4>2. g[p+1] = h[p+1]
        BY <4>1
      <4>3. Step(g, A, B, p) = Step(h, A, B, p)
        BY <4>2 DEF Step
      <4>4. g[p] = Step(h, A, B, p)
        <5>1. CASE p = N - (k + 1)
          BY <5>1
        <5>2. CASE p # N - (k + 1)
          <6>1. ~ (p < N - k) /\ g[p] = h[p]
            BY <3>3, <5>2
          <6>2. h[p] = Step(h, A, B, p)
            BY <2>1, <3>3, <6>1
          <6> QED
            BY <6>1, <6>2
        <5> QED
          BY <5>1, <5>2
      <4> QED
        BY <3>3, <4>3, <4>4
    <3> QED
      BY <3>1, <3>2, <3>3
  <2>3. Solves(g, k + 1)
    BY <2>2
  <2> HIDE DEF Solves, g
  <2> QED
    BY <2>3
<1>3. N \in T
  <2> HIDE DEF T
  <2> QED BY <1>1, <1>2, Induction
<1>4. PICK h : Solves(h, N)
  BY <1>3
<1>5. Solution(h, N, A, B, last)
  BY <1>4 DEF Solution
<1> QED
  BY <1>5

LEMMA BackwardsBounded ==
  ASSUME NEW N \in Nat, NEW R, NEW A, NEW B, NEW last \in SUBSET R, NEW h,
         Solution(h, N, A, B, last),
         \A p \in 1 .. N : B[p] \subseteq R
  PROVE  h \in [1 .. N -> SUBSET R]
<1> DEFINE T == { k \in Nat : N - k \in 1 .. N => h[N - k] \subseteq R }
<1>1. 0 \in T
  BY DEF Solution
<1>2. ASSUME NEW k \in Nat, k \in T PROVE k + 1 \in T
  <2> SUFFICES ASSUME N - (k + 1) \in 1 .. N PROVE h[N - (k + 1)] \subseteq R
    OBVIOUS
  <2>1. N - k \in 1 .. N /\ (N - (k + 1)) + 1 = N - k /\ N - (k + 1) # N
    OBVIOUS
  <2>2. h[N - (k + 1)] = Step(h, A, B, N - (k + 1))
    BY <2>1 DEF Solution
  <2>3. Step(h, A, B, N - (k + 1)) = (h[N - k] \ A[N - k]) \cup B[N - k]
    BY <2>1 DEF Step
  <2> QED
    BY <1>2, <2>1, <2>2, <2>3
<1>3. Nat \subseteq T
  <2> HIDE DEF T
  <2> QED BY <1>1, <1>2, Induction
<1>4. ASSUME NEW p \in 1 .. N PROVE h[p] \subseteq R
  <2>1. N - p \in T /\ N - (N - p) = p
    BY <1>3
  <2> QED
    BY <2>1
<1> QED
  BY <1>4 DEF Solution

-----------------------------------------------------------------------------
(* What the analyses compute are sets of live ranges, and the interference *)
(* graph they build is symmetric.                                          *)

LEMMA CodeShape ==
  ASSUME Shape
  PROVE  /\ Blocks = 1 .. Len(code) /\ DOMAIN code = Blocks
         /\ \A b \in Blocks : /\ code[b] \in Seq(Instructions(Len(range)))
                              /\ DOMAIN code[b] = 1 .. Len(code[b])
                              /\ Len(code[b]) \in Nat
         /\ DOMAIN range = 1 .. Len(range) /\ Len(range) \in Nat
         /\ Ranges = 1 .. Len(reg) /\ Len(reg) \in Nat
<1>1. function.blocks \in Seq(Seq(Instr))
  BY FunctionsAssumption DEF Shape, Function
<1>2. DOMAIN function.blocks = 1 .. Len(function.blocks)
  BY <1>1
<1>3. \A b \in DOMAIN code : code[b] \in Seq(Instructions(Len(range)))
  BY ElementOfSeq DEF Shape, CodeTyped
<1> QED
  BY <1>2, <1>3 DEF Shape, CodeTyped, RangesTyped, Blocks, Ranges

LEMMA OperandsAreVariables ==
  ASSUME NEW n, NEW i \in Instructions(n)
  PROVE  /\ SeqSet(i.src) \cup SeqSet(i.dst) \subseteq 1 .. n
         /\ SeqSet(Read(i)) \subseteq 1 .. n
         /\ \A k \in DOMAIN i.dst : i.dst[k] \in 1 .. n
<1>1. i \in Instr /\ WellFormed(i, 1 .. n)
  BY DEF Instructions
<1>2. i.src \in Seq(Nat) /\ i.dst \in Seq(Nat)
  BY <1>1 DEF Instr
<1>3. SeqSet(i.src) \cup SeqSet(i.dst) \subseteq 1 .. n
  BY <1>1 DEF WellFormed
<1>4. \A k \in DOMAIN i.dst : i.dst[k] \in 1 .. n
  BY <1>3 DEF SeqSet
<1>5. SeqSet(Read(i)) \subseteq 1 .. n
  <2>1. CASE ~ i.both
    BY <2>1, <1>3 DEF Read
  <2>2. CASE i.both
    <3>1. i.dst # << >>
      BY <2>2, <1>1 DEF WellFormed
    <3>2. 1 \in DOMAIN i.dst
      BY <1>2, <3>1
    <3>3. i.dst[1] \in 1 .. n /\ i.dst[1] \in Nat
      BY <1>2, <1>4, <3>2
    <3>4. /\ Len(Append(i.src, i.dst[1])) = Len(i.src) + 1
          /\ \A k \in 1 .. Len(i.src) : Append(i.src, i.dst[1])[k] = i.src[k]
          /\ Append(i.src, i.dst[1])[Len(i.src) + 1] = i.dst[1]
          /\ DOMAIN Append(i.src, i.dst[1]) = 1 .. Len(i.src) + 1
      BY <1>2, <3>3, AppendProperties, LenProperties
    <3>5. \A k \in 1 .. Len(i.src) : i.src[k] \in 1 .. n
      BY <1>2, <1>3 DEF SeqSet
    <3>6. ASSUME NEW k \in 1 .. Len(i.src) + 1
          PROVE Append(i.src, i.dst[1])[k] \in 1 .. n
      <4>1. k \in 1 .. Len(i.src) \/ k = Len(i.src) + 1
        BY <1>2
      <4> QED
        BY <3>3, <3>4, <3>5, <4>1
    <3> QED
      BY <2>2, <3>4, <3>6 DEF Read, SeqSet
  <2>3. i.both \in BOOLEAN
    BY <1>1 DEF Instr
  <2> QED
    BY <2>1, <2>2, <2>3
<1> QED
  BY <1>3, <1>4, <1>5

LEMMA RangesOfOperands ==
  ASSUME Shape, NEW i \in Instructions(Len(range))
  PROVE  /\ Uses(i) \subseteq Ranges /\ Defs(i) \subseteq Ranges
         /\ \A k \in DOMAIN i.dst : range[i.dst[k]] \in Ranges
<1>1. \A v \in 1 .. Len(range) : range[v] \in Ranges
  BY ElementOfSeq DEF Shape, RangesTyped
<1>2. SeqSet(i.dst) \subseteq 1 .. Len(range) /\ SeqSet(Read(i)) \subseteq 1 .. Len(range)
  BY OperandsAreVariables
<1> QED
  BY <1>1, <1>2, OperandsAreVariables DEF Uses, Defs, Written

LEMMA RangesOfCode ==
  ASSUME Shape, NEW b \in Blocks
  PROVE  /\ \A p \in 1 .. Len(code[b]) : /\ code[b][p] \in Instructions(Len(range))
                                         /\ Uses(code[b][p]) \subseteq Ranges
                                         /\ Defs(code[b][p]) \subseteq Ranges
         /\ UsedBeforeDef(code[b]) \subseteq Ranges
         /\ LiveOut(b) \subseteq Ranges
         /\ Equation(b) \subseteq Ranges
<1>1. /\ code[b] \in Seq(Instructions(Len(range)))
      /\ DOMAIN code[b] = 1 .. Len(code[b])
  BY CodeShape
<1>2. \A p \in 1 .. Len(code[b]) : code[b][p] \in Instructions(Len(range))
  BY <1>1, ElementOfSeq
<1>3. \A p \in 1 .. Len(code[b]) : /\ Uses(code[b][p]) \subseteq Ranges
                                   /\ Defs(code[b][p]) \subseteq Ranges
  BY <1>2, RangesOfOperands
<1>4. UsedBeforeDef(code[b]) \subseteq Ranges
  BY <1>1, <1>3 DEF UsedBeforeDef
<1>5. LiveOut(b) \subseteq Ranges
  <2>1. function.succ[b] \subseteq Blocks
    BY FunctionsAssumption DEF Shape, Blocks
  <2>2. \A s \in Blocks : liveIn[s] \subseteq Ranges
    BY DEF Shape, LiveTyped
  <2> QED
    BY <2>1, <2>2 DEF LiveOut
<1> QED
  BY <1>2, <1>3, <1>4, <1>5 DEF Equation

LEMMA LiveAfterTyped ==
  ASSUME Shape, NEW b \in Blocks
  PROVE  /\ LiveAfter(b) \in [1 .. Len(code[b]) -> SUBSET Ranges]
         /\ \A p \in 1 .. Len(code[b]) : LiveAfter(b)[p] =
              IF p = Len(code[b]) THEN LiveOut(b)
              ELSE (LiveAfter(b)[p+1] \ Defs(code[b][p+1])) \cup Uses(code[b][p+1])
<1> DEFINE blk == code[b]
           N == Len(blk)
           A == [p \in 1 .. N |-> Defs(blk[p])]
           B == [p \in 1 .. N |-> Uses(blk[p])]
           Solves(h) == h = [p \in 1 .. N |->
              IF p = N THEN LiveOut(b)
              ELSE (h[p+1] \ Defs(blk[p+1])) \cup Uses(blk[p+1])]
<1>1. N \in Nat
  BY CodeShape
<1>2. ASSUME NEW h
      PROVE Solves(h) <=> Solution(h, N, A, B, LiveOut(b))
  <2>1. ASSUME NEW p \in 1 .. N, p # N
        PROVE Step(h, A, B, p) = (h[p+1] \ Defs(blk[p+1])) \cup Uses(blk[p+1])
    <3>1. p + 1 \in 1 .. N
      BY <1>1, <2>1
    <3> QED
      BY <3>1 DEF Step
  <2> HIDE DEF N, A, B
  <2>2. [p \in 1 .. N |-> IF p = N THEN LiveOut(b) ELSE Step(h, A, B, p)]
        = [p \in 1 .. N |-> IF p = N THEN LiveOut(b)
                            ELSE (h[p+1] \ Defs(blk[p+1])) \cup Uses(blk[p+1])]
    BY <2>1
  <2> QED
    BY <2>2 DEF Solution
<1>3. \E h : Solves(h)
  <2> HIDE DEF N, A, B
  <2>1. PICK h : Solution(h, N, A, B, LiveOut(b))
    BY <1>1, BackwardsExists
  <2> HIDE DEF Solves
  <2>2. Solves(h)
    BY <1>2, <2>1
  <2> QED
    BY <2>2
<1>4. LiveAfter(b) = CHOOSE h : Solves(h)
  BY DEF LiveAfter
<1>5. Solves(LiveAfter(b))
  <2> HIDE DEF Solves
  <2> QED
    BY <1>3, <1>4
<1>6. LiveOut(b) \in SUBSET Ranges /\ \A p \in 1 .. N : B[p] \subseteq Ranges
  BY RangesOfCode
<1>9. ASSUME NEW h, Solves(h)
      PROVE \A p \in 1 .. N : h[p] = IF p = N THEN LiveOut(b)
                                     ELSE (h[p+1] \ Defs(blk[p+1])) \cup Uses(blk[p+1])
  BY <1>9
<1>10. \A p \in 1 .. N : LiveAfter(b)[p] =
         IF p = N THEN LiveOut(b)
         ELSE (LiveAfter(b)[p+1] \ Defs(blk[p+1])) \cup Uses(blk[p+1])
  <2> HIDE DEF N, Solves
  <2> QED
    BY <1>5, <1>9
<1> HIDE DEF N, A, B, Solves
<1>7. Solution(LiveAfter(b), N, A, B, LiveOut(b))
  BY <1>2, <1>5
<1>8. LiveAfter(b) \in [1 .. N -> SUBSET Ranges]
  BY <1>1, <1>6, <1>7, BackwardsBounded
<1> QED
  BY <1>8, <1>10 DEF N

LEMMA InterferenceIsMutual ==
  ASSUME Shape
  PROVE  /\ Interference \in [Ranges -> SUBSET Ranges]
         /\ \A r, s \in Ranges : s \in Interference[r] => r \in Interference[s] /\ r # s
<1> DEFINE edges == UNION { UNION { Edges(code[b][p], LiveAfter(b)[p]) : p \in DOMAIN code[b] } :
                            b \in Blocks }
           proper == { e \in edges : e[1] # e[2] /\ SP \notin {e[1], e[2]} }
<1>1. \A b \in Blocks : \A p \in DOMAIN code[b] :
        Edges(code[b][p], LiveAfter(b)[p]) \subseteq Ranges \X Ranges
  <2> TAKE b \in Blocks
  <2> TAKE p \in DOMAIN code[b]
  <2> DEFINE i == code[b][p]
             after == LiveAfter(b)[p]
  <2>1. p \in 1 .. Len(code[b])
    BY CodeShape
  <2>2. i \in Instructions(Len(range))
    BY <2>1, RangesOfCode
  <2>3. after \subseteq Ranges
    BY <2>1, LiveAfterTyped
  <2>4. \A k \in DOMAIN i.dst : range[i.dst[k]] \in Ranges
    BY <2>2, RangesOfOperands
  <2>5. i.dst \in Seq(Nat \ {0})
    BY <2>2 DEF Instructions, Instr
  <2> HIDE DEF i, after
  <2>6. CASE i.dst = << >>
    BY <2>6 DEF Edges, i, after
  <2>7. CASE i.dst # << >>
    <3>1. 1 \in DOMAIN i.dst /\ (Len(i.dst) = 2 => 2 \in DOMAIN i.dst)
      BY <2>5, <2>7
    <3>2. range[i.dst[1]] \in Ranges /\ (Len(i.dst) = 2 => range[i.dst[2]] \in Ranges)
      BY <2>4, <3>1
    <3>3. Edges(i, after) \subseteq Ranges \X Ranges
      BY <2>3, <2>7, <3>2 DEF Edges
    <3> QED
      BY <3>3 DEF i, after
  <2> QED
    BY <2>6, <2>7
<1>2. edges \subseteq Ranges \X Ranges
  BY <1>1
<1>3. Interference = [r \in Ranges |-> { e[2] : e \in { d \in proper : d[1] = r } }
                                       \cup { e[1] : e \in { d \in proper : d[2] = r } }]
  BY DEF Interference
<1> HIDE DEF edges
<1>4. proper \subseteq Ranges \X Ranges /\ \A e \in proper : e[1] # e[2]
  BY <1>2
<1> HIDE DEF proper
<1>5. Interference \in [Ranges -> SUBSET Ranges]
  BY <1>3, <1>4
<1>6. ASSUME NEW r \in Ranges, NEW s \in Ranges, s \in Interference[r]
      PROVE r \in Interference[s] /\ r # s
  <2>1. PICK e \in proper : (e[1] = r /\ e[2] = s) \/ (e[2] = r /\ e[1] = s)
    BY <1>3, <1>6
  <2>2. r # s
    BY <1>4, <2>1
  <2>3. r \in Interference[s]
    BY <1>3, <2>1
  <2> QED
    BY <2>2, <2>3
<1> QED
  BY <1>5, <1>6

-----------------------------------------------------------------------------
(* Positions in the code: where the coalescer merges next, and where the   *)
(* spiller starts and goes on.                                             *)

LEMMA NextMergeIsMergeable ==
  ASSUME Shape, Mergeable # {}
  PROVE  /\ NextMerge \in Mergeable
         /\ NextMerge \in (Nat \ {0}) \X (Nat \ {0})
         /\ NextMerge[1] \in Blocks /\ NextMerge[2] \in DOMAIN code[NextMerge[1]]
         /\ CanMerge(code[NextMerge[1]][NextMerge[2]])
<1> DEFINE firsts == { at[1] : at \in Mergeable }
<1>1. \A at \in Mergeable : /\ at \in (Nat \ {0}) \X (Nat \ {0}) /\ at = << at[1], at[2] >>
                            /\ at[1] \in Blocks /\ at[2] \in DOMAIN code[at[1]]
                            /\ CanMerge(code[at[1]][at[2]])
  BY CodeShape DEF Mergeable, Positions
<1>2. PICK b \in firsts : \A e \in firsts : b <= e
  <2>1. firsts \subseteq Nat /\ firsts # {}
    BY <1>1
  <2> HIDE DEF firsts
  <2> QED
    BY <2>1, SmallestExists
<1> DEFINE seconds == { at[2] : at \in { m \in Mergeable : m[1] = b } }
<1>3. PICK q \in seconds : \A e \in seconds : q <= e
  <2>1. seconds \subseteq Nat /\ seconds # {}
    BY <1>1, <1>2
  <2> HIDE DEF seconds
  <2> QED
    BY <2>1, SmallestExists
<1>4. PICK m \in Mergeable : m[1] = b /\ m[2] = q
  BY <1>3
<1>5. ASSUME NEW e \in Mergeable PROVE NotBefore(m, e[1], e[2])
  <2>1. b <= e[1] /\ (e[1] = b => q <= e[2])
    BY <1>2, <1>3, <1>5
  <2>2. b \in Nat /\ q \in Nat /\ e[1] \in Nat /\ e[2] \in Nat
    BY <1>1, <1>4, <1>5
  <2> QED
    BY <1>4, <2>1, <2>2 DEF NotBefore
<1>6. NextMerge \in Mergeable
  BY <1>4, <1>5 DEF NextMerge
<1> QED
  BY <1>1, <1>6

LEMMA FirstIsInCode ==
  ASSUME Shape
  PROVE  /\ First \in (Nat \ {0}) \X (Nat \ {0})
         /\ First[1] > Len(code) \/ Instruction(code, First)
<1> DEFINE filled == { b \in Blocks : code[b] # << >> }
<1>1. Len(code) \in Nat
  BY DEF Shape, CodeTyped
<1>2. CASE filled = {}
  <2>1. First = << Len(code) + 1, 1 >>
    BY <1>2 DEF First
  <2> QED
    BY <1>1, <2>1
<1>3. CASE filled # {}
  <2>1. filled \subseteq Nat
    BY CodeShape
  <2>2. PICK x \in filled : \A y \in filled : x <= y
    BY <1>3, <2>1, SmallestExists
  <2>3. ASSUME NEW a \in Blocks, a < x PROVE code[a] = << >>
    BY <2>1, <2>2, <2>3, CodeShape
  <2> DEFINE b == CHOOSE b \in Blocks : code[b] # << >> /\
                    \A a \in Blocks : a < b => code[a] = << >>
  <2>4. b \in Blocks /\ code[b] # << >>
    BY <2>2, <2>3
  <2>5. First = << b, 1 >>
    BY <1>3 DEF First
  <2> HIDE DEF b
  <2>6. code[b] \in Seq(Instructions(Len(range))) /\ DOMAIN code[b] = 1 .. Len(code[b])
        /\ b \in Nat /\ b \in DOMAIN code
    BY <2>4, CodeShape
  <2>7. 1 \in DOMAIN code[b]
    BY <2>4, <2>6, EmptySeq
  <2> QED
    BY <2>5, <2>6, <2>7 DEF Instruction
<1> QED
  BY <1>2, <1>3

LEMMA PastIsInCode ==
  ASSUME NEW S, NEW c \in Seq(Seq(S)), Blocks = 1 .. Len(c), NEW n \in Nat,
         cursor \in (Nat \ {0}) \X (Nat \ {0}), cursor[1] \in Blocks, cursor[2] # 0
  PROVE  /\ Past(c, n) \in (Nat \ {0}) \X (Nat \ {0})
         /\ Past(c, n)[1] > Len(c) \/ Instruction(c, Past(c, n))
<1> DEFINE b == cursor[1]
           later == { a \in Blocks : a > b /\ c[a] # << >> }
<1>1. Len(c) \in Nat /\ DOMAIN c = 1 .. Len(c)
      /\ \A a \in Blocks : c[a] \in Seq(S) /\ Len(c[a]) \in Nat /\ DOMAIN c[a] = 1 .. Len(c[a])
  BY ElementOfSeq, LenProperties
<1>2. CASE cursor[2] + n <= Len(c[b])
  <2>1. Past(c, n) = << b, cursor[2] + n >>
    BY <1>2 DEF Past
  <2> QED
    BY <1>1, <1>2, <2>1 DEF Instruction
<1>3. CASE ~ (cursor[2] + n <= Len(c[b])) /\ later = {}
  <2>1. Past(c, n) = << Len(c) + 1, 1 >>
    BY <1>3 DEF Past
  <2> QED
    BY <1>1, <2>1
<1>4. CASE ~ (cursor[2] + n <= Len(c[b])) /\ later # {}
  <2>1. later \subseteq Nat /\ later \subseteq Blocks
    OBVIOUS
  <2> DEFINE x == CHOOSE a \in later : \A e \in later : a <= e
  <2>2. Past(c, n) = << x, 1 >>
    BY <1>4 DEF Past
  <2>3. x \in later
    <3> HIDE DEF later
    <3> QED
      BY <1>4, <2>1, SmallestExists
  <2> HIDE DEF x
  <2>4. x \in Blocks /\ c[x] # << >>
    BY <2>3
  <2>5. 1 \in DOMAIN c[x]
    BY <1>1, <2>4, EmptySeq
  <2> QED
    BY <1>1, <2>2, <2>4, <2>5 DEF Instruction
<1> QED
  BY <1>2, <1>3, <1>4

LEMMA InstructionsGrow ==
  ASSUME NEW m \in Nat, NEW n \in Nat, m <= n
  PROVE  Instructions(m) \subseteq Instructions(n)
<1>1. 1 .. m \subseteq 1 .. n
  OBVIOUS
<1> QED
  BY <1>1 DEF Instructions, WellFormed

LEMMA CodeGrows ==
  ASSUME Shape, NEW n \in Nat, Len(range) <= n
  PROVE  code \in Seq(Seq(Instructions(n)))
<1>1. Instructions(Len(range)) \subseteq Instructions(n)
  BY CodeShape, InstructionsGrow
<1>2. Seq(Instructions(Len(range))) \subseteq Seq(Instructions(n))
  BY <1>1, SeqMonotonic
<1> QED
  BY <1>2, SeqMonotonic DEF Shape, CodeTyped

LEMMA ReplaceTyped ==
  ASSUME Shape, Instruction(code, cursor), cursor \in (Nat \ {0}) \X (Nat \ {0}),
         NEW n \in Nat, Len(range) <= n, NEW new \in Seq(Instructions(n))
  PROVE  Replace(new) \in Seq(Seq(Instructions(n))) /\ Len(Replace(new)) = Len(code)
<1> DEFINE S == Instructions(n)
           b == cursor[1]
           p == cursor[2]
           left == SubSeq(code[b], 1, p - 1)
           right == SubSeq(code[b], p + 1, Len(code[b]))
<1>1. code \in Seq(Seq(S)) /\ b \in 1 .. Len(code)
  BY CodeGrows, CodeShape DEF Instruction
<1>2. code[b] \in Seq(S) /\ DOMAIN code[b] = 1 .. Len(code[b]) /\ Len(code[b]) \in Nat
      /\ p \in 1 .. Len(code[b])
  BY <1>1, ElementOfSeq, LenProperties DEF Instruction
<1> HIDE DEF S, p, b
<1>3. left \in Seq(S)
  <2>1. \A i \in 1 .. p - 1 : code[b][i] \in S
    BY <1>2, ElementOfSeq
  <2>2. p - 1 \in Int
    BY <1>2
  <2> QED
    BY <2>1, <2>2, SubSeqProperties
<1>4. right \in Seq(S)
  <2>1. \A i \in p + 1 .. Len(code[b]) : code[b][i] \in S
    BY <1>2, ElementOfSeq
  <2>2. p + 1 \in Int /\ Len(code[b]) \in Int
    BY <1>2
  <2> QED
    BY <2>1, <2>2, SubSeqProperties
<1>5. left \o new \o right \in Seq(S)
  BY <1>3, <1>4, ConcatProperties DEF S
<1>6. Replace(new) = [code EXCEPT ![b] = left \o new \o right]
  BY DEF Replace, b, p
<1> HIDE DEF left, right
<1>7. Replace(new) \in Seq(Seq(S)) /\ Len(Replace(new)) = Len(code)
  BY <1>1, <1>5, <1>6, ExceptSeq
<1> QED
  BY <1>7 DEF S

-----------------------------------------------------------------------------
(* Every step of the allocation keeps the invariant. *)

LEMMA InitInvariant == Init => IInv
<1> SUFFICES ASSUME Init PROVE IInv
  OBVIOUS
<1>1. /\ function \in Functions /\ function \in Function
      /\ SP \in DOMAIN function.home /\ function.home[SP] = RSP
      /\ \A b \in DOMAIN function.blocks : \A p \in DOMAIN function.blocks[b] :
           WellFormed(function.blocks[b][p], DOMAIN function.name)
      /\ \A i \in DOMAIN function.name : function.name[i] \in DOMAIN function.home
  BY FunctionsAssumption DEF Init
<1>2. /\ function.home \in Seq(Nat) /\ function.name \in Seq(Nat \ {0})
      /\ function.blocks \in Seq(Seq(Instr))
  BY <1>1 DEF Function
<1>3. reg \in Seq(Nat) /\ Len(reg) = Len(function.home) /\ DOMAIN reg = DOMAIN function.home
      /\ reg[SP] = RSP
  <2>1. RSP \in Nat /\ NoReg \in Nat
    BY KAssumption DEF RSP, NoReg
  <2>2. reg = [r \in DOMAIN function.home |-> IF r = SP THEN RSP ELSE NoReg]
    BY DEF Init
  <2>3. reg \in [DOMAIN function.home -> Nat]
    BY <2>1, <2>2
  <2>4. reg[SP] = RSP
    BY <1>1, <2>2
  <2> QED
    BY <1>2, <2>3, <2>4, SameLength
<1>4. range \in Seq(Ranges)
  <2>1. range = function.name /\ DOMAIN range = 1 .. Len(range) /\ Len(range) \in Nat
    BY <1>2 DEF Init
  <2>2. \A i \in 1 .. Len(range) : range[i] \in Ranges
    BY <1>1, <1>3, <2>1 DEF Ranges
  <2>3. range \in [1 .. Len(range) -> Ranges]
    BY <1>2, <2>1, <2>2
  <2> QED
    BY <2>1, <2>3, SeqDef
<1>5. RangesTyped
  BY <1>1, <1>3, <1>4 DEF RangesTyped, Ranges
<1>6. CodeTyped
  <2>1. code = function.blocks /\ range = function.name /\ slots = 0
    BY DEF Init
  <2>2. DOMAIN range = 1 .. Len(range)
    BY <1>2, <2>1
  <2>3. ASSUME NEW b \in DOMAIN code PROVE code[b] \in Seq(Instructions(Len(range)))
    <3>1. code[b] \in Seq(Instr)
      BY <1>2, <2>1, <2>3, ElementOfSeq
    <3>2. \A p \in DOMAIN code[b] : code[b][p] \in Instructions(Len(range))
      BY <1>1, <2>1, <2>2, <2>3, <3>1, ElementOfSeq DEF Instructions
    <3>3. code[b] \in [1 .. Len(code[b]) -> Instructions(Len(range))] /\ Len(code[b]) \in Nat
      BY <3>1, <3>2, LenProperties
    <3> QED
      BY <3>3, SeqDef
  <2>4. code \in [1 .. Len(code) -> Seq(Instructions(Len(range)))] /\ Len(code) \in Nat
    BY <1>2, <2>1, <2>3, LenProperties
  <2>5. code \in Seq(Seq(Instructions(Len(range))))
    BY <2>4, SeqDef
  <2> QED
    BY <2>1, <2>5 DEF CodeTyped
<1>7. LiveTyped /\ Mutual
  BY <1>3 DEF Init, LiveTyped, Mutual, Ranges, Blocks
<1>8. BeforePrecolor /\ CursorInCode /\ QueueLacks
  BY <1>3 DEF Init, BeforePrecolor, CursorInCode, QueueLacks
<1> QED
  BY <1>1, <1>5, <1>6, <1>7, <1>8 DEF IInv, Shape

(* What a step that leaves the code and the live ranges alone keeps. *)
LEMMA UntouchedStays ==
  ASSUME Shape, UNCHANGED << function, code, range, reg, slots >>
  PROVE  /\ function' \in Functions /\ CodeTyped' /\ RangesTyped'
         /\ (UNCHANGED liveIn \/ liveIn' = [b \in Blocks |-> {}] => LiveTyped')
         /\ (UNCHANGED neighbors => Mutual')
         /\ Ranges' = Ranges /\ Blocks' = Blocks
  BY DEF Shape, CodeTyped, RangesTyped, LiveTyped, Mutual, Ranges, Blocks

LEMMA AnalyseKeeps ==
  ASSUME IInv, NEW andThen, Analyse(andThen),
         andThen # "precolor" \/ pc = "build",
         UNCHANGED << function, code, range, reg, neighbors, cursor, slots >>
  PROVE  IInv'
<1>1. function' \in Functions /\ CodeTyped' /\ RangesTyped' /\ LiveTyped' /\ Mutual'
  BY UntouchedStays DEF IInv, Analyse
<1>2. BeforePrecolor' /\ CursorInCode' /\ QueueLacks'
  BY DEF IInv, Shape, Analyse, BeforePrecolor, CursorInCode, QueueLacks
<1> QED
  BY <1>1, <1>2 DEF IInv, Shape

LEMMA BuildKeeps ==
  ASSUME IInv, Build
  PROVE  IInv'
  BY AnalyseKeeps DEF Build

LEMMA RestartKeeps ==
  ASSUME IInv, Restart
  PROVE  IInv'
  BY AnalyseKeeps DEF Restart

LEMMA VisitBlockKeeps ==
  ASSUME IInv, VisitBlock
  PROVE  IInv'
<1>1. function' \in Functions /\ CodeTyped' /\ RangesTyped' /\ Mutual'
      /\ Ranges' = Ranges /\ Blocks' = Blocks
  BY UntouchedStays DEF IInv, VisitBlock
<1>2. LiveTyped'
  <2>1. \A b \in Blocks : Equation(b) \in SUBSET Ranges
    BY RangesOfCode DEF IInv
  <2>2. liveIn \in [Blocks -> SUBSET Ranges]
        /\ liveIn' = [liveIn EXCEPT ![Max(Unsettled)] = Equation(Max(Unsettled))]
    BY DEF IInv, Shape, LiveTyped, VisitBlock
  <2>3. liveIn' \in [Blocks -> SUBSET Ranges]
    BY <2>1, <2>2
  <2> QED
    BY <1>1, <2>3 DEF LiveTyped
<1>3. BeforePrecolor' /\ CursorInCode' /\ QueueLacks'
  BY DEF IInv, Shape, VisitBlock, BeforePrecolor, CursorInCode, QueueLacks
<1> QED
  BY <1>1, <1>2, <1>3 DEF IInv, Shape

LEMMA BuildInterferenceKeeps ==
  ASSUME IInv, BuildInterference
  PROVE  IInv'
<1>1. Shape
  BY DEF IInv
<1>2. reg' \in Seq(Nat) /\ DOMAIN reg' = Ranges /\ reg'[SP] = RSP
  <2>1. CASE resume = "precolor"
    <3>1. reg' = function.home /\ Len(function.home) = Len(reg)
      BY <1>1, <2>1 DEF BuildInterference, Shape, BeforePrecolor
    <3>2. function.home \in Seq(Nat) /\ function.home[SP] = RSP
      BY <1>1, FunctionsAssumption DEF Shape, Function
    <3> QED
      BY <1>1, <3>1, <3>2, LenProperties, CodeShape
  <2>2. CASE resume # "precolor"
    BY <1>1, <2>2 DEF BuildInterference, Shape, RangesTyped, Ranges
  <2> QED
    BY <2>1, <2>2
<1>3. Ranges' = Ranges /\ Blocks' = Blocks
  BY <1>2 DEF BuildInterference, Ranges, Blocks
<1>4. function' \in Functions /\ CodeTyped' /\ RangesTyped' /\ LiveTyped'
  BY <1>1, <1>2, <1>3 DEF BuildInterference, Shape, CodeTyped, RangesTyped, LiveTyped, liveness
<1>5. Mutual'
  BY <1>1, <1>3, InterferenceIsMutual DEF BuildInterference, Mutual
<1>6. BeforePrecolor'
  BY DEF BuildInterference, BeforePrecolor
<1>7. CursorInCode'
  BY <1>1, FirstIsInCode DEF BuildInterference, CursorInCode, AtEnd
<1>8. QueueLacks'
  <2>1. ASSUME pc' = "color" PROVE queue' = Ranges \ {SP}
    BY <2>1 DEF BuildInterference
  <2>2. RSP # NoReg
    BY KAssumption DEF RSP, NoReg
  <2>3. pc' # "done"
    BY DEF BuildInterference
  <2> QED
    BY <1>2, <1>3, <2>1, <2>2, <2>3 DEF QueueLacks
<1> QED
  BY <1>4, <1>5, <1>6, <1>7, <1>8 DEF IInv, Shape

LEMMA EndRoundKeeps ==
  ASSUME IInv, EndRound
  PROVE  IInv'
<1>1. CASE merged
  BY <1>1, AnalyseKeeps DEF EndRound
<1>2. CASE ~ merged
  <2>1. function' \in Functions /\ CodeTyped' /\ RangesTyped' /\ LiveTyped' /\ Mutual'
        /\ Ranges' = Ranges
    BY <1>2, UntouchedStays DEF IInv, EndRound, liveness
  <2>2. BeforePrecolor' /\ CursorInCode'
    BY <1>2 DEF IInv, Shape, EndRound, BeforePrecolor, CursorInCode
  <2>3. QueueLacks'
    <3>1. pc' = "color" /\ queue' = Ranges \ {SP} /\ reg'[SP] = RSP /\ RSP # NoReg
      BY <1>2, KAssumption DEF IInv, Shape, RangesTyped, EndRound, RSP, NoReg
    <3> QED
      BY <2>1, <3>1 DEF QueueLacks
  <2> QED
    BY <2>1, <2>2, <2>3 DEF IInv, Shape
<1> QED
  BY <1>1, <1>2

LEMMA AllColoredKeeps ==
  ASSUME IInv, AllColored
  PROVE  IInv'
<1>1. function' \in Functions /\ CodeTyped' /\ RangesTyped' /\ LiveTyped' /\ Mutual'
      /\ Ranges' = Ranges
  BY UntouchedStays DEF IInv, AllColored, liveness
<1>2. BeforePrecolor' /\ CursorInCode' /\ QueueLacks'
  BY <1>1 DEF IInv, Shape, AllColored, BeforePrecolor, CursorInCode, QueueLacks
<1> QED
  BY <1>1, <1>2 DEF IInv, Shape

(* A live range with fewer neighbors than there are colours finds one.     *)
LEMMA LowDegreeFindsColor ==
  ASSUME Shape, NEW r \in Ranges, Cardinality(neighbors[r]) < K
  PROVE  Allocated(r) \in Nat /\ Allocated(r) # NoReg
<1>1. neighbors[r] \subseteq Ranges /\ reg \in Seq(Nat) /\ reg \in [Ranges -> Nat]
  BY LenProperties DEF Shape, Mutual, RangesTyped, Ranges
<1>2. IsFiniteSet(neighbors[r])
  <2>1. Ranges = 1 .. Len(reg) /\ Len(reg) \in Int
    BY CodeShape
  <2>2. IsFiniteSet(Ranges)
    BY <2>1, FS_Interval
  <2> QED
    BY <1>1, <2>2, FS_Subset
<1>3. IsFiniteSet(Taken(r)) /\ Cardinality(Taken(r)) <= Cardinality(neighbors[r])
  <2> DEFINE f == [n \in neighbors[r] |-> reg[n]]
  <2>1. f \in Surjection(neighbors[r], Taken(r))
    BY DEF Surjection, Taken
  <2> QED
    BY <1>2, <2>1, FS_Surjection
<1>4. Free(r) # {}
  <2> SUFFICES ASSUME 1 .. K \subseteq Taken(r) PROVE FALSE
    BY DEF Free
  <2>1. Cardinality(1 .. K) <= Cardinality(Taken(r))
    BY <1>3, FS_Subset
  <2>2. Cardinality(1 .. K) = K
    BY KAssumption, FS_Interval
  <2>3. Cardinality(neighbors[r]) \in Nat /\ Cardinality(Taken(r)) \in Nat
    BY <1>2, <1>3, FS_CardinalityType
  <2> QED
    BY <1>3, <2>1, <2>2, <2>3, KAssumption
<1>5. Min(Free(r)) \in 1 .. K
  <2>1. Free(r) \subseteq Nat /\ Free(r) \subseteq 1 .. K
    BY DEF Free
  <2> QED
    BY <1>4, <2>1, MinIsSmallest
<1> QED
  BY <1>1, <1>4, <1>5 DEF Allocated, NoReg

LEMMA ColorKeeps ==
  ASSUME IInv, NEW r \in queue, Color(r)
  PROVE  IInv'
<1>1. Shape /\ reg \in Seq(Nat) /\ reg \in [Ranges -> Nat] /\ SP \in Ranges /\ reg[SP] = RSP
  BY LenProperties DEF IInv, Shape, RangesTyped, Ranges
<1>2. reg' = [reg EXCEPT ![r] = Allocated(r)] /\ queue' = queue \ {r}
  BY DEF Color
<1>3. r \in Ranges => Allocated(r) \in Nat /\ Allocated(r) # NoReg
  <2>1. CASE Cardinality(neighbors[r]) < K
    BY <1>1, <2>1, LowDegreeFindsColor
  <2>2. CASE Allocated(r) # NoReg
    <3>1. CASE reg[r] # NoReg
      BY <1>1, <2>2, <3>1 DEF Allocated
    <3>2. CASE reg[r] = NoReg /\ Free(r) # {}
      <4>1. Free(r) \subseteq Nat
        BY DEF Free
      <4>2. Min(Free(r)) \in Nat
        BY <3>2, <4>1, MinIsSmallest
      <4> QED
        BY <2>2, <3>2, <4>2 DEF Allocated
    <3>3. CASE reg[r] = NoReg /\ Free(r) = {}
      BY <2>2, <3>3 DEF Allocated
    <3> QED
      BY <3>1, <3>2, <3>3
  <2> QED
    BY <2>1, <2>2 DEF Color
<1>4. reg' \in [Ranges -> Nat] /\ DOMAIN reg' = Ranges
  BY <1>1, <1>2, <1>3
<1>5. reg' \in Seq(Nat) /\ Len(reg') = Len(reg)
  BY <1>1, <1>4, SameLength DEF Ranges
<1>6. reg'[SP] = RSP
  <2>1. RSP # NoReg
    BY KAssumption DEF RSP, NoReg
  <2> QED
    BY <1>1, <1>2, <2>1 DEF Allocated
<1>7. Ranges' = Ranges /\ Blocks' = Blocks
  BY <1>4 DEF Color, Ranges, Blocks
<1>8. function' \in Functions /\ CodeTyped' /\ RangesTyped' /\ LiveTyped' /\ Mutual'
  BY <1>1, <1>5, <1>6, <1>7 DEF Color, Shape, CodeTyped, RangesTyped, LiveTyped, Mutual, liveness
<1>9. BeforePrecolor' /\ CursorInCode'
  BY <1>1 DEF Color, Shape, BeforePrecolor, CursorInCode
<1>10. QueueLacks'
  <2>1. ASSUME NEW s \in Ranges PROVE s \in queue' \/ reg'[s] # NoReg
    <3>1. CASE s = r
      BY <1>1, <1>2, <1>3, <3>1
    <3>2. CASE s # r
      <4>1. s \in queue \/ reg[s] # NoReg
        BY DEF IInv, QueueLacks, Color
      <4> QED
        BY <1>1, <1>2, <3>2, <4>1
    <3> QED
      BY <3>1, <3>2
  <2> QED
    BY <1>7, <2>1 DEF QueueLacks, Color
<1> QED
  BY <1>8, <1>9, <1>10 DEF IInv, Shape

LEMMA StartSpillKeeps ==
  ASSUME IInv, NEW r \in queue, StartSpill(r)
  PROVE  IInv'
<1>1. Shape /\ slots' \in Nat
  BY DEF IInv, Shape, CodeTyped, StartSpill
<1>2. Ranges' = Ranges /\ Blocks' = Blocks
  BY DEF StartSpill, Ranges, Blocks
<1>3. function' \in Functions /\ CodeTyped' /\ RangesTyped' /\ LiveTyped' /\ Mutual'
  BY <1>1, <1>2 DEF StartSpill, Shape, CodeTyped, RangesTyped, LiveTyped, Mutual, liveness
<1>4. BeforePrecolor'
  BY DEF StartSpill, BeforePrecolor
<1>5. CursorInCode'
  BY <1>1, FirstIsInCode DEF StartSpill, CursorInCode, AtEnd, Instruction
<1>6. QueueLacks'
  BY DEF StartSpill, QueueLacks
<1> QED
  BY <1>3, <1>4, <1>5, <1>6 DEF IInv, Shape

LEMMA RangesOfCopy ==
  ASSUME Shape, NEW i \in Instructions(Len(range)), i.op = "copy"
  PROVE  Source(i) \in Ranges /\ Destination(i) \in Ranges
<1>1. i \in Instr /\ WellFormed(i, 1 .. Len(range))
  BY DEF Instructions
<1>2. i.src \in Seq(Nat \ {0}) /\ i.src # << >> /\ i.dst \in Seq(Nat \ {0}) /\ Len(i.dst) = 1
  BY <1>1 DEF Instr, WellFormed
<1>3. 1 \in DOMAIN i.src /\ 1 \in DOMAIN i.dst
  BY <1>2, EmptySeq, LenProperties
<1>4. i.src[1] \in 1 .. Len(range) /\ i.dst[1] \in 1 .. Len(range)
  BY <1>1, <1>3 DEF WellFormed, SeqSet
<1> QED
  BY <1>4, ElementOfSeq DEF Source, Destination, Shape, RangesTyped

(* Absorbing a live range into another that is no neighbor of it keeps the *)
(* neighborhood mutual.                                                    *)
LEMMA CoalesceKeeps ==
  ASSUME IInv, Coalesce
  PROVE  IInv'
<1> DEFINE at == NextMerge
           i == code[at[1]][at[2]]
           s == Source(i)
           d == Destination(i)
           gone == [i EXCEPT !.op = "deleted", !.src = << >>, !.dst = << >>]
<1>1. Shape /\ Mergeable # {}
  BY DEF IInv, Coalesce
<1>2. at \in (Nat \ {0}) \X (Nat \ {0}) /\ at[1] \in Blocks /\ at[2] \in DOMAIN code[at[1]] /\ CanMerge(i)
  BY <1>1, NextMergeIsMergeable
<1>3. i \in Instructions(Len(range)) /\ i.op = "copy"
  BY <1>1, <1>2, RangesOfCode, CodeShape DEF CanMerge
<1>4. s \in Ranges /\ d \in Ranges
  BY <1>1, <1>3, RangesOfCopy
<1>5. d # s /\ s \notin neighbors[d]
  BY <1>2 DEF CanMerge, DoLiveRangesInterfere
<1>6. gone \in Instructions(Len(range))
  <2>1. i \in Instr /\ ~ i.both
    BY <1>3 DEF Instructions, WellFormed
  <2>2. << >> \in Seq(Nat \ {0}) /\ "deleted" \in Op
    BY EmptySeq DEF Op
  <2>3. gone \in Instr
    BY <2>1, <2>2 DEF Instr
  <2>4. gone.src = << >> /\ gone.dst = << >> /\ gone.op = "deleted" /\ ~ gone.both
    BY <2>1 DEF Instr
  <2>5. SeqSet(gone.src) = {} /\ SeqSet(gone.dst) = {}
    BY <2>4 DEF SeqSet
  <2> HIDE DEF gone
  <2>6. WellFormed(gone, 1 .. Len(range))
    BY <2>4, <2>5 DEF WellFormed
  <2> QED
    BY <2>3, <2>6 DEF Instructions
<1>7. /\ code' = [code EXCEPT ![at[1]][at[2]] =
                    [@ EXCEPT !.op = "deleted", !.src = << >>, !.dst = << >>]]
      /\ range' = [v \in DOMAIN range |-> IF range[v] = d THEN s ELSE range[v]]
      /\ neighbors' = [r \in Ranges |->
             IF r = d THEN {}
             ELSE IF r = s THEN neighbors[s] \cup neighbors[d]
             ELSE IF r \in neighbors[d] THEN (neighbors[r] \ {d}) \cup {s}
             ELSE neighbors[r]]
      /\ reg' = [reg EXCEPT ![s] = IF @ = NoReg THEN reg[d] ELSE @]
      /\ cursor' = at
      /\ UNCHANGED << function, pc, liveIn, resume, slots >>
  BY DEF Coalesce, liveness
<1> HIDE DEF gone, s, d
<1>8. code' \in Seq(Seq(Instructions(Len(range)))) /\ Len(code') = Len(code)
  <2> DEFINE S == Instructions(Len(range))
             block == [code[at[1]] EXCEPT ![at[2]] = gone]
  <2>1. code \in Seq(Seq(S)) /\ at[1] \in 1 .. Len(code)
        /\ code[at[1]] \in Seq(S) /\ at[2] \in 1 .. Len(code[at[1]])
    BY <1>1, <1>2, CodeShape DEF Shape, CodeTyped
  <2>2. code' = [code EXCEPT ![at[1]] = block]
    BY <1>7 DEF gone
  <2> HIDE DEF at, S
  <2>3. block \in Seq(S)
    BY <1>6, <2>1, ExceptSeq DEF S
  <2> HIDE DEF block
  <2>4. code' \in Seq(Seq(S)) /\ Len(code') = Len(code)
    BY <2>1, <2>2, <2>3, ExceptSeq
  <2> QED
    BY <2>4 DEF S
<1> HIDE DEF at, i
<1>9. range' \in Seq(Ranges) /\ Len(range') = Len(range)
  <2>1. range \in Seq(Ranges) /\ \A v \in DOMAIN range : range[v] \in Ranges
    BY <1>1, LenProperties DEF Shape, RangesTyped
  <2>2. range' \in [DOMAIN range -> Ranges]
    BY <1>4, <1>7, <2>1
  <2> QED
    BY <2>1, <2>2, SameLength
<1>10. reg \in Seq(Nat) /\ reg \in [Ranges -> Nat] /\ SP \in Ranges /\ reg[SP] = RSP
  BY <1>1, LenProperties DEF Shape, RangesTyped, Ranges
<1>11. reg' \in Seq(Nat) /\ Len(reg') = Len(reg) /\ reg'[SP] = RSP /\ DOMAIN reg' = Ranges
  <2>1. reg' \in [Ranges -> Nat]
    BY <1>4, <1>7, <1>10
  <2>2. reg'[SP] = RSP
    BY <1>4, <1>7, <1>10, KAssumption DEF RSP, NoReg
  <2> QED
    BY <1>10, <2>1, <2>2, SameLength DEF Ranges
<1>12. Ranges' = Ranges /\ Blocks' = Blocks
  BY <1>7, <1>11 DEF Ranges, Blocks
<1>13. function' \in Functions /\ CodeTyped' /\ RangesTyped' /\ LiveTyped'
  BY <1>1, <1>7, <1>8, <1>9, <1>10, <1>11, <1>12
     DEF Shape, CodeTyped, RangesTyped, LiveTyped
<1>14. Mutual'
  <2>1. neighbors \in [Ranges -> SUBSET Ranges]
        /\ \A r, t \in Ranges : t \in neighbors[r] => r \in neighbors[t] /\ r # t
    BY <1>1 DEF Shape, Mutual
  <2>2. neighbors' \in [Ranges -> SUBSET Ranges]
    BY <1>4, <1>7, <2>1
  <2>3. ASSUME NEW r \in Ranges, NEW t \in Ranges, t \in neighbors'[r]
        PROVE r \in neighbors'[t] /\ r # t
    BY <1>4, <1>5, <1>7, <2>1, <2>3
  <2> QED
    BY <1>12, <2>2, <2>3 DEF Mutual
<1>15. BeforePrecolor' /\ CursorInCode' /\ QueueLacks'
  BY <1>2, <1>7 DEF Coalesce, BeforePrecolor, CursorInCode, QueueLacks
<1> QED
  BY <1>13, <1>14, <1>15 DEF IInv, Shape

(* The instruction the spiller is at, and what it puts in its place.       *)
LEMMA SpillerIsAtInstruction ==
  ASSUME IInv, pc = "spill", ~ AtEnd
  PROVE  /\ Instruction(code, cursor) /\ cursor \in (Nat \ {0}) \X (Nat \ {0})
         /\ cursor[1] \in Blocks /\ cursor[2] # 0
         /\ At \in Instructions(Len(range))
<1>1. Shape /\ Instruction(code, cursor) /\ cursor \in (Nat \ {0}) \X (Nat \ {0})
  BY DEF IInv, Shape, CursorInCode
<1>2. cursor[1] \in Blocks /\ cursor[2] \in 1 .. Len(code[cursor[1]])
  BY <1>1, CodeShape DEF Instruction
<1> QED
  BY <1>1, <1>2, RangesOfCode DEF At

LEMMA SpillingKeeps ==
  ASSUME IInv, pc = "spill", ~ AtEnd,
         NEW n \in Nat, Len(range) <= n, NEW new \in Seq(Instructions(n)),
         NEW m \in Nat, code' = Replace(new), cursor' = Past(code', m),
         function' = function
  PROVE  /\ code' \in Seq(Seq(Instructions(n))) /\ Len(code') = Len(code)
         /\ cursor' \in (Nat \ {0}) \X (Nat \ {0})
         /\ cursor'[1] > Len(code') \/ Instruction(code', cursor')
<1>1. Shape /\ Instruction(code, cursor) /\ cursor \in (Nat \ {0}) \X (Nat \ {0})
      /\ cursor[1] \in Blocks /\ cursor[2] # 0
  BY SpillerIsAtInstruction DEF IInv
<1>2. code' \in Seq(Seq(Instructions(n))) /\ Len(code') = Len(code)
  BY <1>1, ReplaceTyped
<1>3. Blocks = 1 .. Len(code')
  BY <1>1, <1>2, CodeShape
<1> DEFINE S == Instructions(n)
           c == code'
<1>4. c \in Seq(Seq(S)) /\ Blocks = 1 .. Len(c)
  BY <1>2, <1>3
<1> HIDE DEF S, c
<1>5. Past(c, m) \in (Nat \ {0}) \X (Nat \ {0}) /\ (Past(c, m)[1] > Len(c) \/ Instruction(c, Past(c, m)))
  BY <1>1, <1>4, PastIsInCode
<1> QED
  BY <1>2, <1>5 DEF c

(* A step of the spiller that changes the code and no live range. *)
LEMMA SpillingAlone ==
  ASSUME IInv, pc = "spill", ~ AtEnd,
         NEW new \in Seq(Instructions(Len(range))), NEW m \in Nat,
         code' = Replace(new), cursor' = Past(code', m),
         UNCHANGED << function, pc, range, reg, liveIn, resume, neighbors, slots >>
  PROVE  IInv'
<1>1. Shape /\ Len(range) \in Nat
  BY CodeShape DEF IInv
<1>2. /\ code' \in Seq(Seq(Instructions(Len(range)))) /\ Len(code') = Len(code)
      /\ cursor' \in (Nat \ {0}) \X (Nat \ {0})
      /\ cursor'[1] > Len(code') \/ Instruction(code', cursor')
  BY <1>1, SpillingKeeps
<1>3. Ranges' = Ranges /\ Blocks' = Blocks
  BY DEF Ranges, Blocks
<1>4. function' \in Functions /\ CodeTyped' /\ RangesTyped' /\ LiveTyped' /\ Mutual'
  BY <1>1, <1>2, <1>3 DEF Shape, CodeTyped, RangesTyped, LiveTyped, Mutual
<1>5. BeforePrecolor' /\ CursorInCode' /\ QueueLacks'
  BY <1>2 DEF BeforePrecolor, CursorInCode, QueueLacks, AtEnd
<1> QED
  BY <1>4, <1>5 DEF IInv, Shape

LEMMA SpillCopyKeeps ==
  ASSUME IInv, SpillCopy
  PROVE  IInv'
<1> DEFINE new == [At EXCEPT !.op = "load", !.src = << >>, !.slot = slots]
<1>1. At \in Instructions(Len(range)) /\ At.op = "copy" /\ slots \in Nat
  BY SpillerIsAtInstruction DEF SpillCopy, SpilledCopy, IInv, Shape, CodeTyped
<1>2. new \in Instr
  <2>1. << >> \in Seq(Nat \ {0}) /\ "load" \in Op
    BY EmptySeq DEF Op
  <2> QED
    BY <1>1, <2>1 DEF Instructions, Instr
<1>3. new.src = << >> /\ new.dst = At.dst /\ new.op = "load" /\ new.both = At.both
  BY <1>1 DEF Instructions, Instr
<1>4. ~ At.both /\ SeqSet(At.dst) \subseteq 1 .. Len(range) /\ Len(At.dst) <= 2
  BY <1>1 DEF Instructions, WellFormed
<1> HIDE DEF new
<1>5. new \in Instructions(Len(range))
  <2>1. SeqSet(<< >>) = {}
    BY DEF SeqSet
  <2> QED
    BY <1>2, <1>3, <1>4, <2>1 DEF Instructions, WellFormed
<1>6. << new >> \in Seq(Instructions(Len(range))) /\ Len(<< new >>) = 1
  BY <1>5
<1>7. code' = Replace(<< new >>) /\ cursor' = Past(code', 1)
  BY <1>6 DEF SpillCopy, Spilling, new
<1> QED
  BY <1>6, <1>7, SpillingAlone DEF SpillCopy, liveness

LEMMA SpillConstKeeps ==
  ASSUME IInv, SpillConst
  PROVE  IInv'
<1> DEFINE new == [At EXCEPT !.op = "constStore", !.dst = << >>, !.slot = slots]
<1>1. At \in Instructions(Len(range)) /\ At.op = "const" /\ slots \in Nat
  BY SpillerIsAtInstruction DEF SpillConst, SpilledConst, IInv, Shape, CodeTyped
<1>2. new \in Instr
  <2>1. << >> \in Seq(Nat \ {0}) /\ "constStore" \in Op
    BY EmptySeq DEF Op
  <2> QED
    BY <1>1, <2>1 DEF Instructions, Instr
<1>3. new.src = At.src /\ new.dst = << >> /\ new.op = "constStore" /\ new.both = At.both
  BY <1>1 DEF Instructions, Instr
<1>4. ~ At.both /\ SeqSet(At.src) \subseteq 1 .. Len(range)
  BY <1>1 DEF Instructions, WellFormed
<1> HIDE DEF new
<1>5. new \in Instructions(Len(range))
  <2>1. SeqSet(<< >>) = {}
    BY DEF SeqSet
  <2> QED
    BY <1>2, <1>3, <1>4, <2>1 DEF Instructions, WellFormed
<1>6. << new >> \in Seq(Instructions(Len(range))) /\ Len(<< new >>) = 1
  BY <1>5
<1>7. code' = Replace(<< new >>) /\ cursor' = Past(code', 1)
  BY <1>6 DEF SpillConst, Spilling, new
<1> QED
  BY <1>6, <1>7, SpillingAlone DEF SpillConst, liveness

LEMMA AccessesTyped ==
  ASSUME slots \in Nat, NEW n \in Nat, NEW v \in 1 .. n
  PROVE  Load(v) \in Instructions(n) /\ Store(v) \in Instructions(n)
<1>1. << v >> \in Seq(Nat \ {0}) /\ << >> \in Seq(Nat \ {0})
  BY EmptySeq
<1>2. Load(v) \in Instr /\ Store(v) \in Instr
  BY <1>1 DEF Load, Store, Instr, Op
<1>3. SeqSet(<< v >>) \subseteq 1 .. n /\ SeqSet(<< >>) = {}
  BY DEF SeqSet
<1>4. Len(<< v >>) = 1 /\ Len(<< >>) = 0
  OBVIOUS
<1>5. /\ Load(v).src = << >> /\ Load(v).dst = << v >> /\ ~ Load(v).both /\ Load(v).op = "load"
      /\ Store(v).src = << v >> /\ Store(v).dst = << >> /\ ~ Store(v).both /\ Store(v).op = "store"
  BY DEF Load, Store
<1>6. WellFormed(Load(v), 1 .. n) /\ WellFormed(Store(v), 1 .. n)
  BY <1>3, <1>4, <1>5 DEF WellFormed
<1> QED
  BY <1>2, <1>6 DEF Instructions

LEMMA SpillOperandsKeeps ==
  ASSUME IInv, SpillOperands
  PROVE  IInv'
<1> DEFINE read == { v \in SeqSet(Read(At)) : range[v] = victim }
           new == Len(reg) + 1
           dummy == Len(range) + 1
           loaded == read # {}
           range1 == [v \in DOMAIN range |-> IF v \in read THEN new ELSE range[v]]
           stored == { k \in DOMAIN At.dst : range1[At.dst[k]] \in {victim, new} }
           before == IF loaded THEN << Load(dummy) >> ELSE << >>
           pick(k) == IF Cardinality(stored) = 2 THEN 3 - k ELSE Min(stored)
           after == [k \in 1 .. Cardinality(stored) |-> Store(At.dst[pick(k)])]
           skipped == IF stored = {} THEN 1 ELSE 2
           n == IF loaded THEN dummy ELSE Len(range)
<1>1. /\ Shape /\ pc = "spill" /\ ~ AtEnd /\ slots \in Nat
      /\ At \in Instructions(Len(range))
      /\ Len(range) \in Nat /\ Len(reg) \in Nat /\ Ranges = 1 .. Len(reg)
  BY SpillerIsAtInstruction, CodeShape DEF IInv, Shape, CodeTyped, SpillOperands
<1>2. /\ code' = Replace(before \o << At >> \o after)
      /\ cursor' = Past(code', Len(before) + skipped)
      /\ loaded => range' = Append(range1, new) /\ AddLiveRange
      /\ ~ loaded => UNCHANGED << range, reg, neighbors >>
      /\ UNCHANGED << function, pc, liveIn, resume, slots >>
  BY DEF SpillOperands, liveness
<1>3. /\ At.dst \in Seq(Nat \ {0}) /\ DOMAIN At.dst = 1 .. Len(At.dst) /\ Len(At.dst) \in Nat
      /\ \A k \in DOMAIN At.dst : At.dst[k] \in 1 .. Len(range)
  BY <1>1, OperandsAreVariables, LenProperties DEF Instructions, Instr
<1>4. stored \subseteq 1 .. Len(At.dst) /\ IsFiniteSet(stored)
      /\ Cardinality(stored) \in Nat /\ Cardinality(stored) <= Len(At.dst)
  <2>1. stored \subseteq 1 .. Len(At.dst)
    BY <1>3
  <2>2. IsFiniteSet(1 .. Len(At.dst)) /\ Cardinality(1 .. Len(At.dst)) = Len(At.dst)
    BY <1>3, FS_Interval
  <2> HIDE DEF stored
  <2> QED
    BY <2>1, <2>2, FS_Subset, FS_CardinalityType
<1>5. n \in Nat /\ Len(range) <= n /\ (loaded => dummy \in 1 .. n)
  BY <1>1
<1>6. ASSUME NEW k \in 1 .. Cardinality(stored) PROVE At.dst[pick(k)] \in 1 .. n
  <2> HIDE DEF stored
  <2>1. stored # {}
    BY <1>4, FS_EmptySet
  <2>2. pick(k) \in DOMAIN At.dst
    <3>1. CASE Cardinality(stored) = 2
      BY <1>3, <1>4, <3>1
    <3>2. CASE Cardinality(stored) # 2
      <4>1. stored \subseteq Nat
        BY <1>4
      <4>2. Min(stored) \in stored
        BY <2>1, <4>1, MinIsSmallest
      <4> QED
        BY <1>3, <1>4, <3>2, <4>2
    <3> QED
      BY <3>1, <3>2
  <2>3. At.dst[pick(k)] \in 1 .. Len(range)
    BY <1>3, <2>2
  <2> HIDE DEF pick, n
  <2> QED
    BY <1>1, <1>5, <2>3
<1> HIDE DEF n, pick, stored, read
<1>7. before \in Seq(Instructions(n)) /\ Len(before) \in Nat
  <2>1. CASE loaded
    <3>1. Load(dummy) \in Instructions(n)
      BY <1>1, <1>5, <2>1, AccessesTyped
    <3> QED
      BY <2>1, <3>1
  <2>2. CASE ~ loaded
    BY <2>2, EmptySeq
  <2> QED
    BY <2>1, <2>2
<1>8. << At >> \in Seq(Instructions(n))
  BY <1>1, <1>5, InstructionsGrow
<1>9. after \in Seq(Instructions(n))
  <2>1. \A k \in 1 .. Cardinality(stored) : Store(At.dst[pick(k)]) \in Instructions(n)
    BY <1>1, <1>5, <1>6, AccessesTyped
  <2>2. after \in [1 .. Cardinality(stored) -> Instructions(n)]
    BY <2>1
  <2> QED
    BY <1>4, <2>2, SeqDef
<1> HIDE DEF before, after
<1>10. before \o << At >> \o after \in Seq(Instructions(n))
  BY <1>7, <1>8, <1>9, ConcatProperties
<1>11. Len(before) + skipped \in Nat
  BY <1>7
<1>12. /\ code' \in Seq(Seq(Instructions(n))) /\ Len(code') = Len(code)
       /\ cursor' \in (Nat \ {0}) \X (Nat \ {0})
       /\ cursor'[1] > Len(code') \/ Instruction(code', cursor')
  <2> HIDE DEF skipped
  <2> DEFINE whole == before \o << At >> \o after
             steps == Len(before) + skipped
  <2>1. whole \in Seq(Instructions(n)) /\ steps \in Nat
        /\ code' = Replace(whole) /\ cursor' = Past(code', steps)
    BY <1>2, <1>10, <1>11
  <2> HIDE DEF whole, steps
  <2> QED
    BY <1>1, <1>2, <1>5, <2>1, SpillingKeeps
<1>13. CASE ~ loaded
  <2>1. n = Len(range) /\ Ranges' = Ranges /\ Blocks' = Blocks
    BY <1>2, <1>13 DEF n, Ranges, Blocks
  <2>2. function' \in Functions /\ CodeTyped' /\ RangesTyped' /\ LiveTyped' /\ Mutual'
    BY <1>1, <1>2, <1>12, <1>13, <2>1 DEF Shape, CodeTyped, RangesTyped, LiveTyped, Mutual
  <2>3. BeforePrecolor' /\ CursorInCode' /\ QueueLacks'
    BY <1>1, <1>2, <1>12 DEF BeforePrecolor, CursorInCode, QueueLacks, AtEnd
  <2> QED
    BY <2>2, <2>3 DEF IInv, Shape
<1>14. CASE loaded
  <2>1. reg \in Seq(Nat) /\ range \in Seq(Ranges) /\ SP \in Ranges /\ reg[SP] = RSP
        /\ NoReg \in Nat
    BY <1>1 DEF Shape, RangesTyped, NoReg
  <2>2. reg' \in Seq(Nat) /\ Len(reg') = Len(reg) + 1 /\ reg'[SP] = RSP
    <3>1. reg' = Append(reg, NoReg)
      BY <1>2, <1>14 DEF AddLiveRange
    <3>2. /\ reg' \in Seq(Nat) /\ Len(reg') = Len(reg) + 1
          /\ \A r \in 1 .. Len(reg) : reg'[r] = reg[r]
      BY <2>1, <3>1, AppendProperties
    <3> QED
      BY <1>1, <2>1, <3>2
  <2>3. Ranges' = 1 .. Len(reg) + 1 /\ new \in Ranges' /\ Ranges \subseteq Ranges'
        /\ Blocks' = Blocks
    BY <1>1, <1>2, <2>2, LenProperties DEF Ranges, Blocks
  <2>4. range1 \in Seq(Ranges') /\ Len(range1) = Len(range)
    <3>1. \A v \in DOMAIN range : range[v] \in Ranges
      BY <2>1, LenProperties
    <3> DEFINE T == Ranges'
    <3>2. range1 \in [DOMAIN range -> T]
      BY <2>3, <3>1
    <3> HIDE DEF T, range1
    <3>3. range1 \in Seq(T) /\ Len(range1) = Len(range)
      BY <2>1, <3>2, SameLength
    <3> QED
      BY <3>3 DEF T
  <2>5. range' \in Seq(Ranges') /\ Len(range') = n
    <3> DEFINE T == Ranges'
    <3>1. range1 \in Seq(T) /\ new \in T /\ range' = Append(range1, new)
      BY <1>2, <1>14, <2>3, <2>4
    <3> HIDE DEF T, range1, new
    <3>2. range' \in Seq(T) /\ Len(range') = Len(range1) + 1
      BY <3>1, AppendProperties
    <3> QED
      BY <1>14, <2>4, <3>2 DEF T, n
  <2>6. function' \in Functions /\ CodeTyped' /\ RangesTyped'
    BY <1>1, <1>2, <1>12, <2>1, <2>2, <2>3, <2>5 DEF Shape, CodeTyped, RangesTyped
  <2>7. LiveTyped'
    BY <1>1, <1>2, <2>3 DEF Shape, LiveTyped
  <2>8. Mutual'
    <3>1. neighbors \in [Ranges -> SUBSET Ranges]
          /\ \A r, t \in Ranges : t \in neighbors[r] => r \in neighbors[t] /\ r # t
      BY <1>1 DEF Shape, Mutual
    <3>2. neighbors \in Seq(SUBSET Ranges) /\ Len(neighbors) = Len(reg)
      <4> DEFINE T == SUBSET Ranges
      <4>1. neighbors \in [DOMAIN reg -> T]
        BY <3>1 DEF Ranges
      <4> HIDE DEF T
      <4>2. neighbors \in Seq(T) /\ Len(neighbors) = Len(reg)
        BY <2>1, <4>1, SameLength
      <4> QED
        BY <4>2 DEF T
    <3>3. neighbors' = Append(neighbors, {})
      BY <1>2, <1>14 DEF AddLiveRange
    <3>4. /\ neighbors' \in Seq(SUBSET Ranges) /\ Len(neighbors') = Len(reg) + 1
          /\ \A r \in Ranges : neighbors'[r] = neighbors[r]
          /\ neighbors'[new] = {}
      BY <1>1, <3>2, <3>3, AppendProperties
    <3>5. neighbors' \in [Ranges' -> SUBSET Ranges']
      <4> DEFINE T == SUBSET Ranges
      <4>1. neighbors' \in Seq(T)
        BY <3>4
      <4> HIDE DEF T
      <4>2. neighbors' \in [1 .. Len(reg) + 1 -> T]
        BY <3>4, <4>1, LenProperties
      <4>3. T \subseteq SUBSET Ranges'
        BY <2>3 DEF T
      <4>4. \A r \in Ranges' : neighbors'[r] \in SUBSET Ranges'
        BY <2>3, <4>2, <4>3
      <4>5. neighbors' = [r \in Ranges' |-> neighbors'[r]]
        BY <2>3, <4>2
      <4> QED
        BY <4>4, <4>5, Zenon
    <3>6. \A r \in Ranges' : r \in Ranges \/ r = new
      BY <1>1, <2>3
    <3>7. ASSUME NEW r \in Ranges', NEW t \in Ranges', t \in neighbors'[r]
          PROVE r \in neighbors'[t] /\ r # t
      <4>1. r \in Ranges /\ t \in neighbors[r]
        BY <3>4, <3>6, <3>7
      <4>2. t \in Ranges
        BY <3>1, <4>1
      <4> QED
        BY <3>1, <3>4, <4>1, <4>2
    <3> QED
      BY <3>5, <3>7 DEF Mutual
  <2>9. BeforePrecolor' /\ CursorInCode' /\ QueueLacks'
    BY <1>1, <1>2, <1>12 DEF BeforePrecolor, CursorInCode, QueueLacks, AtEnd
  <2> QED
    BY <2>6, <2>7, <2>8, <2>9 DEF IInv, Shape
<1> QED
  BY <1>13, <1>14

-----------------------------------------------------------------------------
LEMMA StutterKeeps ==
  ASSUME IInv, UNCHANGED vars
  PROVE  IInv'
  BY DEF vars, costs, liveness, IInv, Shape, CodeTyped, RangesTyped, LiveTyped, Mutual,
         BeforePrecolor, CursorInCode, QueueLacks, AtEnd, Ranges, Blocks

LEMMA NextInvariant == IInv /\ [Next]_vars => IInv'
<1> SUFFICES ASSUME IInv, [Next]_vars PROVE IInv'
  OBVIOUS
<1>1. CASE Build
  BY <1>1, BuildKeeps
<1>2. CASE VisitBlock
  BY <1>2, VisitBlockKeeps
<1>3. CASE BuildInterference
  BY <1>3, BuildInterferenceKeeps
<1>4. CASE Coalesce
  BY <1>4, CoalesceKeeps
<1>5. CASE EndRound
  BY <1>5, EndRoundKeeps
<1>6. CASE \E r \in queue : Color(r)
  BY <1>6, ColorKeeps
<1>7. CASE \E r \in queue : StartSpill(r)
  BY <1>7, StartSpillKeeps
<1>8. CASE AllColored
  BY <1>8, AllColoredKeeps
<1>9. CASE SpillCopy
  BY <1>9, SpillCopyKeeps
<1>10. CASE SpillConst
  BY <1>10, SpillConstKeeps
<1>11. CASE SpillOperands
  BY <1>11, SpillOperandsKeeps
<1>12. CASE Restart
  BY <1>12, RestartKeeps
<1>13. CASE UNCHANGED vars
  BY <1>13, StutterKeeps
<1> QED
  BY <1>1, <1>2, <1>3, <1>4, <1>5, <1>6, <1>7, <1>8, <1>9, <1>10, <1>11, <1>12, <1>13
     DEF Next

THEOREM Invariance == Spec => []IInv
  BY InitInvariant, NextInvariant, PTL DEF Spec

(* When the allocation is over, every operand of the code has a register:  *)
(* no live range of low degree was passed over, however often the code was *)
(* rewritten (allocate_registers_for_function).                            *)
THEOREM EveryOperandHasRegister == Spec => []EveryRangeColored
<1>1. IInv => EveryRangeColored
  <2> SUFFICES ASSUME IInv, pc = "done", NEW b \in Blocks, NEW p \in DOMAIN code[b],
                      NEW v \in SeqSet(code[b][p].src) \cup SeqSet(code[b][p].dst)
               PROVE reg[range[v]] # NoReg
    BY DEF EveryRangeColored
  <2>1. Shape /\ p \in 1 .. Len(code[b])
    BY CodeShape DEF IInv
  <2>2. v \in 1 .. Len(range)
    BY <2>1, RangesOfCode, OperandsAreVariables
  <2>3. range[v] \in Ranges
    BY <2>1, <2>2, ElementOfSeq DEF Shape, RangesTyped
  <2> QED
    BY <2>3 DEF IInv, QueueLacks
<1> QED
  BY <1>1, Invariance, PTL

-----------------------------------------------------------------------------
(* Sums over a set, and the places that mention a live range: the costs   *)
(* that the analyses compute.                                              *)

(* g is the recursion by which MapThenSumSet sums w over the subsets of S. *)
Picked(s) == CHOOSE x \in s : TRUE
Sums(g, S, w) ==
  g = [s \in SUBSET S |-> IF s = {} THEN 0 ELSE w[Picked(s)] + g[s \ {Picked(s)}]]

LEMMA SubsetFacts ==
  ASSUME NEW S, IsFiniteSet(S), NEW s \in SUBSET S
  PROVE  /\ IsFiniteSet(s) /\ Cardinality(s) \in Nat
         /\ s # {} => /\ Picked(s) \in s /\ s \ {Picked(s)} \in SUBSET S /\ Cardinality(s) # 0
                      /\ Cardinality(s \ {Picked(s)}) = Cardinality(s) - 1
<1>1. IsFiniteSet(s) /\ Cardinality(s) \in Nat
  BY FS_Subset, FS_CardinalityType
<1>2. s # {} => Picked(s) \in s
  BY DEF Picked
<1> HIDE DEF Picked
<1>3. s # {} => Cardinality(s \ {Picked(s)}) = Cardinality(s) - 1
  BY <1>1, <1>2, FS_RemoveElement
<1>4. s # {} => Cardinality(s) # 0
  BY <1>1, FS_EmptySet
<1> QED
  BY <1>1, <1>2, <1>3, <1>4

LEMMA SumExists ==
  ASSUME NEW S, IsFiniteSet(S), NEW w \in [S -> Nat]
  PROVE  \E g : Sums(g, S, w)
<1> DEFINE Value(g, s) == IF s = {} THEN 0 ELSE w[Picked(s)] + g[s \ {Picked(s)}]
           Solves(g, k) == \A s \in SUBSET S : Cardinality(s) <= k => g[s] = Value(g, s)
           T == { k \in Nat : \E g \in [SUBSET S -> Nat] : Solves(g, k) }
<1>1. 0 \in T
  <2> DEFINE g == [s \in SUBSET S |-> 0]
  <2>1. ASSUME NEW s \in SUBSET S, Cardinality(s) <= 0 PROVE g[s] = Value(g, s)
    <3>1. s = {}
      <4>1. Cardinality(s) \in Nat /\ (s # {} => Cardinality(s) # 0)
        BY SubsetFacts
      <4> QED
        BY <2>1, <4>1
    <3> QED
      BY <3>1
  <2>2. g \in [SUBSET S -> Nat]
    OBVIOUS
  <2> HIDE DEF g, Value
  <2> QED
    BY <2>1, <2>2
<1>2. ASSUME NEW k \in Nat, k \in T PROVE k + 1 \in T
  <2>1. PICK g \in [SUBSET S -> Nat] : Solves(g, k)
    BY <1>2
  <2> DEFINE h == [s \in SUBSET S |-> IF Cardinality(s) <= k THEN g[s] ELSE Value(g, s)]
  <2>2. ASSUME NEW s \in SUBSET S PROVE Value(g, s) \in Nat
    <3>1. s # {} => Picked(s) \in S /\ s \ {Picked(s)} \in SUBSET S
      BY SubsetFacts
    <3> QED
      BY <3>1
  <2>3. h \in [SUBSET S -> Nat]
    <3> HIDE DEF Value
    <3> QED
      BY <2>2
  <2>4. ASSUME NEW s \in SUBSET S, Cardinality(s) <= k + 1 PROVE h[s] = Value(h, s)
    <3>1. Cardinality(s) \in Nat
      BY SubsetFacts
    <3>2. Value(h, s) = Value(g, s)
      <4>1. s # {} => /\ s \ {Picked(s)} \in SUBSET S
                      /\ Cardinality(s \ {Picked(s)}) = Cardinality(s) - 1
        BY SubsetFacts
      <4>2. s # {} => h[s \ {Picked(s)}] = g[s \ {Picked(s)}]
        <5> HIDE DEF Value
        <5> QED
          BY <2>4, <3>1, <4>1
      <4> HIDE DEF h
      <4> QED
        BY <4>2
    <3>3. h[s] = Value(g, s)
      <4> HIDE DEF Value
      <4> QED
        BY <2>1
    <3> QED
      BY <3>2, <3>3
  <2> HIDE DEF h, Value
  <2> QED
    BY <2>3, <2>4
<1>3. Nat \subseteq T
  <2> HIDE DEF T
  <2> QED
    BY <1>1, <1>2, Induction
<1>4. Cardinality(S) \in Nat
  BY FS_CardinalityType
<1>5. PICK g \in [SUBSET S -> Nat] : Solves(g, Cardinality(S))
  BY <1>3, <1>4
<1>6. \A s \in SUBSET S : Cardinality(s) <= Cardinality(S)
  BY FS_Subset
<1>7. \A s \in SUBSET S : g[s] = Value(g, s)
  <2> HIDE DEF Value
  <2> QED
    BY <1>5, <1>6
<1>8. Sums(g, S, w)
  BY <1>7 DEF Sums
<1> QED
  BY <1>8

(* A sum is no less than any one or two of what is summed. *)
Exceeds(n, w, s) ==
  /\ n \in Nat /\ \A x \in s : w[x] <= n
  /\ \A x, y \in s : x # y => w[x] + w[y] <= n

LEMMA SumIsLarge ==
  ASSUME NEW S, IsFiniteSet(S), NEW w \in [S -> Nat], NEW g, Sums(g, S, w)
  PROVE  Exceeds(g[S], w, S)
<1> DEFINE T == { k \in Nat : \A s \in SUBSET S : Cardinality(s) = k => Exceeds(g[s], w, s) }
<1>1. 0 \in T
  <2> SUFFICES ASSUME NEW s \in SUBSET S, Cardinality(s) = 0 PROVE Exceeds(g[s], w, s)
    OBVIOUS
  <2>1. s = {}
    BY SubsetFacts
  <2>2. g[s] = 0
    BY <2>1 DEF Sums
  <2> QED
    BY <2>1, <2>2 DEF Exceeds
<1>2. ASSUME NEW k \in Nat, k \in T PROVE k + 1 \in T
  <2> SUFFICES ASSUME NEW s \in SUBSET S, Cardinality(s) = k + 1 PROVE Exceeds(g[s], w, s)
    OBVIOUS
  <2>1. s # {}
    BY FS_EmptySet
  <2>2. PICK p \in s : p = Picked(s) /\ s \ {p} \in SUBSET S /\ Cardinality(s \ {p}) = k
    BY <2>1, SubsetFacts
  <2>3. g[s] = w[p] + g[s \ {p}]
    BY <2>1, <2>2 DEF Sums
  <2>4. Exceeds(g[s \ {p}], w, s \ {p}) /\ w[p] \in Nat
    BY <1>2, <2>2
  <2>5. g[s \ {p}] \in Nat /\ g[s] \in Nat
    BY <2>3, <2>4 DEF Exceeds
  <2>6. ASSUME NEW x \in s PROVE w[x] \in Nat /\ w[x] <= g[s] /\ (x # p => w[x] <= g[s \ {p}])
    BY <2>3, <2>4, <2>5 DEF Exceeds
  <2>7. ASSUME NEW x \in s, NEW y \in s, x # y PROVE w[x] + w[y] <= g[s]
    <3>0. /\ w[x] \in Nat /\ (x # p => w[x] <= g[s \ {p}])
          /\ w[y] \in Nat /\ (y # p => w[y] <= g[s \ {p}])
      BY <2>6
    <3>1. CASE x = p
      BY <2>3, <2>4, <2>5, <2>7, <3>0, <3>1
    <3>2. CASE y = p
      BY <2>3, <2>4, <2>5, <2>7, <3>0, <3>2
    <3>3. CASE x # p /\ y # p
      <4>1. w[x] + w[y] <= g[s \ {p}]
        BY <2>4, <2>7, <3>3 DEF Exceeds
      <4> QED
        BY <2>3, <2>4, <2>5, <3>0, <4>1
    <3> QED
      BY <3>1, <3>2, <3>3
  <2> QED
    BY <2>5, <2>6, <2>7 DEF Exceeds
<1>3. Nat \subseteq T
  <2> HIDE DEF T
  <2> QED
    BY <1>1, <1>2, Induction
<1> QED
  BY <1>3, FS_CardinalityType

(* Finitely many rows of finite length have finitely many places. *)
Rows(N, d) == UNION { {p} \X (1 .. d[p]) : p \in 1 .. N }

LEMMA RowsAreFinite ==
  ASSUME NEW N \in Nat, NEW d \in [1 .. N -> Nat]
  PROVE  IsFiniteSet(Rows(N, d))
<1> DEFINE pieces == { {p} \X (1 .. d[p]) : p \in 1 .. N }
           f == [p \in 1 .. N |-> {p} \X (1 .. d[p])]
<1>1. \A n \in Nat : IsFiniteSet(1 .. n)
  BY FS_Interval
<1>2. ASSUME NEW p \in 1 .. N PROVE IsFiniteSet({p} \X (1 .. d[p]))
  <2>1. IsFiniteSet(1 .. d[p]) /\ IsFiniteSet({p})
    BY <1>1, FS_Singleton
  <2> QED
    BY <2>1, FS_Product
<1>3. f \in Surjection(1 .. N, pieces)
  BY DEF Surjection
<1> HIDE DEF f
<1>4. IsFiniteSet(pieces)
  <2> HIDE DEF pieces
  <2> QED
    BY <1>1, <1>3, FS_Surjection
<1>5. \A t \in pieces : IsFiniteSet(t)
  BY <1>2
<1>6. IsFiniteSet(UNION pieces)
  <2> HIDE DEF pieces
  <2> QED
    BY <1>4, <1>5, FS_UNION
<1> QED
  BY <1>6 DEF Rows

(* The places of a block that mention r. *)
Places(blk, rng, r, Of(_)) ==
  { m \in UNION { {p} \X DOMAIN Of(blk[p]) : p \in DOMAIN blk } : rng[Of(blk[m[1]])[m[2]]] = r }

LEMMA WrittenPlacesAreFinite ==
  ASSUME NEW blk \in Seq(Instr), NEW rng, NEW r
  PROVE  IsFiniteSet(Places(blk, rng, r, Written))
<1> DEFINE d == [p \in 1 .. Len(blk) |-> Len(blk[p].dst)]
<1>1. /\ Len(blk) \in Nat /\ DOMAIN blk = 1 .. Len(blk)
      /\ \A p \in 1 .. Len(blk) : blk[p].dst \in Seq(Nat \ {0})
  <2>1. Len(blk) \in Nat /\ DOMAIN blk = 1 .. Len(blk) /\ \A p \in 1 .. Len(blk) : blk[p] \in Instr
    BY ElementOfSeq, LenProperties
  <2> QED
    BY <2>1 DEF Instr
<1>2. \A p \in 1 .. Len(blk) : Len(blk[p].dst) \in Nat /\ DOMAIN blk[p].dst = 1 .. Len(blk[p].dst)
  BY <1>1, LenProperties
<1>3. d \in [1 .. Len(blk) -> Nat]
  BY <1>2
<1>4. Places(blk, rng, r, Written) \subseteq Rows(Len(blk), d)
  BY <1>1, <1>2 DEF Places, Written, Rows
<1> HIDE DEF d
<1> QED
  BY <1>1, <1>3, <1>4, RowsAreFinite, FS_Subset

LEMMA ReadPlacesAreFinite ==
  ASSUME NEW blk \in Seq(Instr), NEW rng, NEW r,
         \A p \in DOMAIN blk : Read(blk[p]) \in Seq(Nat)
  PROVE  IsFiniteSet(Places(blk, rng, r, Read))
<1> DEFINE d == [p \in 1 .. Len(blk) |-> Len(Read(blk[p]))]
<1>1. Len(blk) \in Nat /\ DOMAIN blk = 1 .. Len(blk)
  BY LenProperties
<1>2. \A p \in 1 .. Len(blk) : Len(Read(blk[p])) \in Nat /\ DOMAIN Read(blk[p]) = 1 .. Len(Read(blk[p]))
  BY <1>1, LenProperties
<1>3. d \in [1 .. Len(blk) -> Nat]
  BY <1>2
<1>4. Places(blk, rng, r, Read) \subseteq Rows(Len(blk), d)
  BY <1>1, <1>2 DEF Places, Rows
<1> HIDE DEF d
<1> QED
  BY <1>1, <1>3, <1>4, RowsAreFinite, FS_Subset

LEMMA MentionsAreSums ==
  ASSUME NEW r, IsFiniteSet(Blocks), NEW w \in [Blocks -> Nat]
  PROVE  /\ (\A b \in Blocks : w[b] = function.freq[b] * Cardinality(Places(code[b], range, r, Written)))
              => Exceeds(Mentions(r, Written), w, Blocks)
         /\ (\A b \in Blocks : w[b] = function.freq[b] * Cardinality(Places(code[b], range, r, Read)))
              => Exceeds(Mentions(r, Read), w, Blocks)
<1>1. ASSUME \A b \in Blocks : w[b] = function.freq[b] * Cardinality(Places(code[b], range, r, Written))
      PROVE Exceeds(Mentions(r, Written), w, Blocks)
  <2> DEFINE e(b) == function.freq[b] *
                  Cardinality({ m \in UNION { {p} \X DOMAIN Written(code[b][p]) : p \in DOMAIN code[b] } :
                                range[Written(code[b][m[1]])[m[2]]] = r })
             Is(g) == g = [s \in SUBSET Blocks |-> IF s = {} THEN 0 ELSE e(Picked(s)) + g[s \ {Picked(s)}]]
  <2>1. \A b \in Blocks : e(b) = w[b]
    BY <1>1 DEF Places
  <2>2. Mentions(r, Written) = (CHOOSE g : Is(g))[Blocks]
    BY DEF Mentions, MapThenSumSet, MapThenFoldSet, Picked
  <2> HIDE DEF e
  <2>3. ASSUME NEW g PROVE Is(g) <=> Sums(g, Blocks, w)
    <3>1. \A s \in SUBSET Blocks : s # {} => Picked(s) \in Blocks
      BY SubsetFacts
    <3>2. [s \in SUBSET Blocks |-> IF s = {} THEN 0 ELSE e(Picked(s)) + g[s \ {Picked(s)}]]
          = [s \in SUBSET Blocks |-> IF s = {} THEN 0 ELSE w[Picked(s)] + g[s \ {Picked(s)}]]
      BY <2>1, <3>1
    <3> QED
      BY <3>2 DEF Sums
  <2>4. \E g : Is(g)
    <3> HIDE DEF Is
    <3> QED
      BY <2>3, SumExists
  <2> DEFINE total == CHOOSE g : Is(g)
  <2>5. Is(total)
    <3> HIDE DEF Is
    <3> QED
      BY <2>4
  <2> HIDE DEF Is, total
  <2> QED
    BY <2>2, <2>3, <2>5, SumIsLarge DEF total
<1>2. ASSUME \A b \in Blocks : w[b] = function.freq[b] * Cardinality(Places(code[b], range, r, Read))
      PROVE Exceeds(Mentions(r, Read), w, Blocks)
  <2> DEFINE e(b) == function.freq[b] *
                  Cardinality({ m \in UNION { {p} \X DOMAIN Read(code[b][p]) : p \in DOMAIN code[b] } :
                                range[Read(code[b][m[1]])[m[2]]] = r })
             Is(g) == g = [s \in SUBSET Blocks |-> IF s = {} THEN 0 ELSE e(Picked(s)) + g[s \ {Picked(s)}]]
  <2>1. \A b \in Blocks : e(b) = w[b]
    BY <1>2 DEF Places
  <2>2. Mentions(r, Read) = (CHOOSE g : Is(g))[Blocks]
    BY DEF Mentions, MapThenSumSet, MapThenFoldSet, Picked
  <2> HIDE DEF e
  <2>3. ASSUME NEW g PROVE Is(g) <=> Sums(g, Blocks, w)
    <3>1. \A s \in SUBSET Blocks : s # {} => Picked(s) \in Blocks
      BY SubsetFacts
    <3>2. [s \in SUBSET Blocks |-> IF s = {} THEN 0 ELSE e(Picked(s)) + g[s \ {Picked(s)}]]
          = [s \in SUBSET Blocks |-> IF s = {} THEN 0 ELSE w[Picked(s)] + g[s \ {Picked(s)}]]
      BY <2>1, <3>1
    <3> QED
      BY <3>2 DEF Sums
  <2>4. \E g : Is(g)
    <3> HIDE DEF Is
    <3> QED
      BY <2>3, SumExists
  <2> DEFINE total == CHOOSE g : Is(g)
  <2>5. Is(total)
    <3> HIDE DEF Is
    <3> QED
      BY <2>4
  <2> HIDE DEF Is, total
  <2> QED
    BY <2>2, <2>3, <2>5, SumIsLarge DEF total
<1> QED
  BY <1>1, <1>2

(* The instructions that define r, at = << block, position >>, and the     *)
(* copies among them.                                                      *)
Defines(at, r) ==
  /\ at[1] \in Blocks /\ at[2] \in 1 .. Len(code[at[1]]) /\ at = << at[1], at[2] >>
  /\ \E k \in DOMAIN code[at[1]][at[2]].dst : range[code[at[1]][at[2]].dst[k]] = r

CopyInto(at, r) ==
  /\ at[1] \in Blocks /\ at[2] \in 1 .. Len(code[at[1]]) /\ at = << at[1], at[2] >>
  /\ code[at[1]][at[2]].op = "copy" /\ Destination(code[at[1]][at[2]]) = r

(* A block that defines r is weighed by its frequency.                     *)
Weights(r) == [b \in Blocks |-> function.freq[b] * Cardinality(Places(code[b], range, r, Written))]

LEMMA WeightsAreNumbers ==
  ASSUME Shape, NEW r
  PROVE  /\ IsFiniteSet(Blocks) /\ Weights(r) \in [Blocks -> Nat]
         /\ \A b \in Blocks : /\ function.freq[b] \in Nat \ {0}
                              /\ IsFiniteSet(Places(code[b], range, r, Written))
                              /\ Cardinality(Places(code[b], range, r, Written)) \in Nat
<1>1. Blocks = 1 .. Len(code) /\ Len(code) \in Int
  BY CodeShape DEF Shape, CodeTyped
<1>2. IsFiniteSet(Blocks)
  BY <1>1, FS_Interval
<1>3. \A b \in Blocks : function.freq[b] \in Nat \ {0}
  <2>1. function.freq \in Seq(Nat \ {0}) /\ Len(function.freq) = Len(function.blocks)
        /\ function.blocks \in Seq(Seq(Instr))
    BY FunctionsAssumption DEF Shape, Function
  <2>2. Blocks = 1 .. Len(function.freq)
    BY <2>1, LenProperties DEF Blocks
  <2> QED
    BY <2>1, <2>2, ElementOfSeq
<1>4. ASSUME NEW b \in Blocks
      PROVE /\ IsFiniteSet(Places(code[b], range, r, Written))
            /\ Cardinality(Places(code[b], range, r, Written)) \in Nat
  <2>1. code[b] \in Seq(Instr)
    <3>1. code[b] \in Seq(Instructions(Len(range))) /\ Instructions(Len(range)) \subseteq Instr
      BY CodeShape DEF Instructions
    <3> QED
      BY <3>1, SeqMonotonic
  <2>2. IsFiniteSet(Places(code[b], range, r, Written))
    BY <2>1, WrittenPlacesAreFinite
  <2> QED
    BY <2>2, FS_CardinalityType
<1>5. Weights(r) \in [Blocks -> Nat]
  <2>1. \A b \in Blocks : function.freq[b] * Cardinality(Places(code[b], range, r, Written)) \in Nat
    <3> DEFINE n(b) == Cardinality(Places(code[b], range, r, Written))
    <3>1. \A b \in Blocks : n(b) \in Nat /\ function.freq[b] \in Nat
      BY <1>3, <1>4
    <3> HIDE DEF n
    <3>2. \A b \in Blocks : function.freq[b] * n(b) \in Nat
      BY <3>1
    <3> QED
      BY <3>2 DEF n
  <2> QED
    BY <2>1 DEF Weights
<1> QED
  BY <1>2, <1>3, <1>4, <1>5

LEMMA CopyDefines ==
  ASSUME Shape, NEW r, NEW at, CopyInto(at, r)
  PROVE  Defines(at, r)
<1> DEFINE i == code[at[1]][at[2]]
<1>1. i \in Instructions(Len(range)) /\ i.op = "copy" /\ range[i.dst[1]] = r
  BY RangesOfCode DEF CopyInto, Destination
<1>2. i.dst \in Seq(Nat \ {0}) /\ Len(i.dst) = 1
  BY <1>1 DEF Instructions, Instr, WellFormed
<1>3. 1 \in DOMAIN i.dst
  BY <1>2, LenProperties
<1> QED
  BY <1>1, <1>3 DEF Defines, CopyInto

LEMMA DefinitionIsPlace ==
  ASSUME Shape, NEW r, NEW at, Defines(at, r)
  PROVE  \E k : << at[2], k >> \in Places(code[at[1]], range, r, Written)
<1> DEFINE i == code[at[1]][at[2]]
<1>1. PICK k \in DOMAIN i.dst : range[i.dst[k]] = r
  BY DEF Defines
<1>2. at[2] \in DOMAIN code[at[1]]
  BY CodeShape DEF Defines
<1>3. << at[2], k >> \in Places(code[at[1]], range, r, Written)
  BY <1>1, <1>2 DEF Places, Written
<1> QED
  BY <1>3

LEMMA MentionsCount ==
  ASSUME Shape, NEW r
  PROVE  /\ Mentions(r, Written) \in Nat
         /\ \A at : Defines(at, r) => Mentions(r, Written) >= 1
         /\ \A at, other : Defines(at, r) /\ Defines(other, r) /\ at # other
                             => Mentions(r, Written) >= 2
<1> DEFINE w == Weights(r)
           P(b) == Places(code[b], range, r, Written)
           m == Mentions(r, Written)
<1>1. /\ IsFiniteSet(Blocks) /\ w \in [Blocks -> Nat]
      /\ \A b \in Blocks : /\ function.freq[b] \in Nat \ {0} /\ IsFiniteSet(P(b))
                           /\ Cardinality(P(b)) \in Nat
  BY WeightsAreNumbers
<1>2. \A b \in Blocks : w[b] = function.freq[b] * Cardinality(P(b))
  BY DEF Weights
<1>3. Exceeds(m, w, Blocks)
  <2>1. w \in [Blocks -> Nat] /\ IsFiniteSet(Blocks)
        /\ \A b \in Blocks : w[b] = function.freq[b] * Cardinality(Places(code[b], range, r, Written))
    BY <1>1, <1>2
  <2> HIDE DEF w, P, m
  <2>2. Exceeds(Mentions(r, Written), w, Blocks)
    BY <2>1, MentionsAreSums
  <2> QED
    BY <2>2 DEF m
<1>4. ASSUME NEW b \in Blocks, NEW k \in Nat, k <= Cardinality(P(b)) PROVE k <= w[b]
  <2> DEFINE n == Cardinality(P(b))
             f == function.freq[b]
  <2>1. n \in Nat /\ f \in Nat \ {0} /\ w[b] = f * n
    BY <1>1, <1>2
  <2> HIDE DEF n, f
  <2>2. n <= f * n
    BY <2>1
  <2> QED
    BY <1>4, <2>1, <2>2 DEF n
<1>5. ASSUME NEW b \in Blocks, NEW e \in P(b) PROVE 1 <= Cardinality(P(b))
  BY <1>1, <1>5, FS_EmptySet
<1>6. ASSUME NEW at, Defines(at, r) PROVE at[1] \in Blocks /\ 1 <= w[at[1]]
  <2>1. at[1] \in Blocks /\ \E k : << at[2], k >> \in P(at[1])
    BY <1>6, DefinitionIsPlace DEF Defines
  <2> HIDE DEF P, w
  <2> QED
    BY <1>4, <1>5, <2>1
<1>7. ASSUME NEW at, NEW other, Defines(at, r), Defines(other, r), at # other PROVE m >= 2
  <2>1. CASE at[1] # other[1]
    <3>1. w[at[1]] + w[other[1]] <= m /\ m \in Nat
      BY <1>3, <1>6, <1>7, <2>1 DEF Exceeds
    <3>2. w[at[1]] \in Nat /\ w[other[1]] \in Nat /\ 1 <= w[at[1]] /\ 1 <= w[other[1]]
      BY <1>1, <1>6, <1>7
    <3> HIDE DEF w, m
    <3> QED
      BY <3>1, <3>2
  <2>2. CASE at[1] = other[1]
    <3> DEFINE b == at[1]
    <3>0. /\ b \in Blocks
          /\ \E k : << at[2], k >> \in P(b)
          /\ \E k : << other[2], k >> \in P(b)
      BY <1>7, <2>2, DefinitionIsPlace DEF Defines
    <3>a. PICK k : << at[2], k >> \in P(b)
      BY <3>0
    <3>b. PICK j : << other[2], j >> \in P(b)
      BY <3>0
    <3> DEFINE x == << at[2], k >>
               y == << other[2], j >>
    <3>1. b \in Blocks /\ x \in P(b) /\ y \in P(b)
      BY <3>0, <3>a, <3>b
    <3>2. at[2] # other[2]
      BY <1>7, <2>2 DEF Defines
    <3>3. {x, y} \subseteq P(b) /\ x # y
      BY <3>1, <3>2
    <3>4. Cardinality({x, y}) = 2
      <4> HIDE DEF x, y
      <4>1. IsFiniteSet({x}) /\ Cardinality({x}) = 1
        BY FS_Singleton
      <4>2. Cardinality({x} \cup {y}) = Cardinality({x}) + 1
        BY <3>3, <4>1, FS_AddElement
      <4>3. {x, y} = {x} \cup {y}
        OBVIOUS
      <4> QED
        BY <4>1, <4>2, <4>3
    <3>5. 2 <= Cardinality(P(b))
      <4> DEFINE S == P(b)
                 D == {x, y}
      <4>1. IsFiniteSet(S) /\ D \subseteq S
        BY <1>1, <3>1, <3>3
      <4> HIDE DEF S, D
      <4>2. Cardinality(D) <= Cardinality(S)
        BY <4>1, FS_Subset
      <4> QED
        BY <3>4, <4>2 DEF S, D
    <3>6. 2 <= w[b] /\ w[b] <= m
      <4> HIDE DEF w, m, P, b
      <4> QED
        BY <1>3, <1>4, <3>1, <3>5 DEF Exceeds
    <3>7. w[b] \in Nat /\ m \in Nat
      BY <1>1, <1>3, <3>1 DEF Exceeds
    <3> HIDE DEF w, m, b
    <3> QED
      BY <3>6, <3>7
  <2> QED
    BY <2>1, <2>2
<1>8. ASSUME NEW at, Defines(at, r) PROVE m >= 1
  <2>1. at[1] \in Blocks /\ 1 <= w[at[1]] /\ w[at[1]] <= m /\ w[at[1]] \in Nat /\ m \in Nat
    BY <1>1, <1>3, <1>6, <1>8 DEF Exceeds
  <2> HIDE DEF w, m
  <2> QED
    BY <2>1
<1> QED
  BY <1>3, <1>7, <1>8 DEF Exceeds

-----------------------------------------------------------------------------
(* What TypeOK says beyond IInv.                                           *)
RegistersTyped == \A r \in Ranges : reg[r] \in NoReg .. RSP
CostsTyped == assignments \in [Ranges -> Nat] /\ spillCost \in [Ranges -> Nat]
ControlTyped ==
  /\ pc \in {"build", "liveness", "coalesce", "color", "spill", "done", "running"}
  /\ resume \in {"precolor", "coalesce", "color"}
  /\ merged \in BOOLEAN
  /\ slots \in 0 .. MaxSpills
Kept ==
  /\ wasSpilled \in [Ranges -> BOOLEAN]
  /\ queue \in SUBSET Ranges
  /\ victim \in Ranges
Typed == RegistersTyped /\ CostsTyped /\ ControlTyped /\ Kept

LEMMA TypedIsTypeOK == IInv /\ Typed => TypeOK
<1> SUFFICES ASSUME IInv, Typed PROVE TypeOK
  OBVIOUS
<1>1. /\ DOMAIN code = Blocks
      /\ \A b \in Blocks : \A p \in DOMAIN code[b] : code[b][p] \in Instr
  <2>1. DOMAIN code = Blocks
    BY CodeShape DEF IInv
  <2>2. ASSUME NEW b \in Blocks, NEW p \in DOMAIN code[b] PROVE code[b][p] \in Instr
    BY RangesOfCode, CodeShape DEF IInv, Instructions
  <2> QED
    BY <2>1, <2>2
<1>2. reg \in Seq(NoReg .. RSP)
  <2> DEFINE T == NoReg .. RSP
  <2>1. reg \in Seq(Nat) /\ reg \in [DOMAIN reg -> T]
    <3>1. reg \in Seq(Nat)
      BY DEF IInv, Shape, RangesTyped
    <3>2. reg = [r \in DOMAIN reg |-> reg[r]]
      BY <3>1, LenProperties
    <3>3. \A r \in DOMAIN reg : reg[r] \in T
      BY DEF Typed, RegistersTyped, Ranges
    <3> HIDE DEF T
    <3> QED
      BY <3>1, <3>2, <3>3
  <2> HIDE DEF T
  <2>2. reg \in Seq(T)
    BY <2>1, SameLength
  <2> QED
    BY <2>2 DEF T
<1> QED
  BY <1>1, <1>2 DEF TypeOK, IInv, Shape, RangesTyped, LiveTyped, Mutual, CursorInCode,
                    Typed, CostsTyped, ControlTyped, Kept

LEMMA InitTyped == Init => Typed
<1> SUFFICES ASSUME Init PROVE Typed
  OBVIOUS
<1>1. Ranges = DOMAIN function.home /\ SP \in Ranges
  BY FunctionsAssumption DEF Init, Ranges
<1>2. NoReg \in NoReg .. RSP /\ RSP \in NoReg .. RSP
  BY KAssumption DEF NoReg, RSP
<1>3. RegistersTyped
  BY <1>1, <1>2 DEF Init, RegistersTyped
<1>4. CostsTyped
  BY <1>1 DEF Init, CostsTyped
<1>5. ControlTyped
  <2>1. slots = 0 /\ 0 \in 0 .. MaxSpills
    BY KAssumption DEF Init
  <2>2. pc = "build" /\ resume = "precolor" /\ merged = FALSE
    BY DEF Init
  <2> QED
    BY <2>1, <2>2 DEF ControlTyped
<1>6. Kept
  <2>1. wasSpilled \in [Ranges -> BOOLEAN]
    BY <1>1 DEF Init
  <2>2. queue \in SUBSET Ranges /\ victim \in Ranges
    BY <1>1 DEF Init
  <2> QED
    BY <2>1, <2>2 DEF Kept
<1> QED
  BY <1>3, <1>4, <1>5, <1>6 DEF Typed

(* The costs that an analysis computes are numbers. *)
LEMMA ReadsAreVariables ==
  ASSUME NEW n, NEW i \in Instructions(n)
  PROVE  Read(i) \in Seq(Nat)
<1>1. i \in Instr /\ WellFormed(i, 1 .. n)
  BY DEF Instructions
<1>2. i.src \in Seq(Nat) /\ i.dst \in Seq(Nat)
  <2>1. i.src \in Seq(Nat \ {0}) /\ i.dst \in Seq(Nat \ {0}) /\ Nat \ {0} \subseteq Nat
    BY <1>1 DEF Instr
  <2> QED
    BY <2>1, SeqMonotonic
<1>3. CASE i.both
  <2>1. i.dst # << >>
    BY <1>1, <1>3 DEF WellFormed
  <2>2. i.dst[1] \in Nat
    BY <1>2, <2>1
  <2> QED
    BY <1>2, <1>3, <2>2, AppendProperties DEF Read
<1>4. CASE ~ i.both
  BY <1>2, <1>4 DEF Read
<1> QED
  BY <1>3, <1>4

LEMMA MentionsOfReads ==
  ASSUME Shape, NEW r
  PROVE  Mentions(r, Read) \in Nat
<1> DEFINE w == [b \in Blocks |-> function.freq[b] * Cardinality(Places(code[b], range, r, Read))]
<1>1. IsFiniteSet(Blocks) /\ \A b \in Blocks : function.freq[b] \in Nat
  BY WeightsAreNumbers
<1>2. ASSUME NEW b \in Blocks PROVE Cardinality(Places(code[b], range, r, Read)) \in Nat
  <2>1. code[b] \in Seq(Instr)
    <3>1. code[b] \in Seq(Instructions(Len(range))) /\ Instructions(Len(range)) \subseteq Instr
      BY CodeShape DEF Instructions
    <3> QED
      BY <3>1, SeqMonotonic
  <2>2. \A p \in DOMAIN code[b] : Read(code[b][p]) \in Seq(Nat)
    BY RangesOfCode, CodeShape, ReadsAreVariables
  <2>3. IsFiniteSet(Places(code[b], range, r, Read))
    BY <2>1, <2>2, ReadPlacesAreFinite
  <2> QED
    BY <2>3, FS_CardinalityType
<1>3. w \in [Blocks -> Nat]
  <2> DEFINE n(b) == Cardinality(Places(code[b], range, r, Read))
  <2>1. \A b \in Blocks : n(b) \in Nat /\ function.freq[b] \in Nat
    BY <1>1, <1>2
  <2> HIDE DEF n
  <2>2. \A b \in Blocks : function.freq[b] * n(b) \in Nat
    BY <2>1
  <2> QED
    BY <2>2 DEF n
<1>4. \A b \in Blocks : w[b] = function.freq[b] * Cardinality(Places(code[b], range, r, Read))
  OBVIOUS
<1> HIDE DEF w
<1>5. Exceeds(Mentions(r, Read), w, Blocks)
  BY <1>1, <1>3, <1>4, MentionsAreSums
<1> QED
  BY <1>5 DEF Exceeds

LEMMA AnalyseTyped ==
  ASSUME IInv, Typed, NEW andThen \in {"precolor", "coalesce", "color"}, Analyse(andThen),
         UNCHANGED << function, code, range, reg, wasSpilled, queue, victim, slots >>,
         merged' \in BOOLEAN
  PROVE  Typed'
<1>1. Ranges' = Ranges
  BY DEF Ranges
<1>2. \A r \in Ranges : Mentions(r, Written) \in Nat /\ Mentions(r, Read) \in Nat
  BY MentionsCount, MentionsOfReads DEF IInv
<1>3. CostsTyped'
  <2>1. \A r \in Ranges : Mentions(r, Written) * StoreCost + Mentions(r, Read) * LoadCost \in Nat
    BY <1>2 DEF StoreCost, LoadCost
  <2>2. INT32_MAX \in Nat
    BY DEF INT32_MAX
  <2> QED
    BY <1>1, <1>2, <2>1, <2>2 DEF Analyse, CostsTyped
<1>4. RegistersTyped' /\ ControlTyped' /\ Kept'
  BY <1>1 DEF Typed, RegistersTyped, ControlTyped, Kept, Analyse
<1> QED
  BY <1>3, <1>4 DEF Typed

LEMMA BuildInterferenceTyped ==
  ASSUME IInv, Typed, BuildInterference
  PROVE  Typed'
<1>1. Ranges' = Ranges /\ RegistersTyped'
  <2>1. CASE resume = "precolor"
    <3>1. reg' = function.home /\ Len(function.home) = Len(reg) /\ function \in Functions
      BY <2>1 DEF BuildInterference, IInv, Shape, BeforePrecolor
    <3>2. function.home \in Seq(Nat)
      BY <3>1, FunctionsAssumption DEF Function
    <3>3. DOMAIN reg' = 1 .. Len(reg) /\ DOMAIN reg = 1 .. Len(reg)
      BY <3>1, <3>2, LenProperties DEF IInv, Shape, RangesTyped
    <3>4. \A r \in DOMAIN reg' : reg'[r] \in NoReg .. RSP
      BY <3>1, FunctionsAssumption
    <3> QED
      BY <3>3, <3>4 DEF Ranges, RegistersTyped
  <2>2. CASE resume # "precolor"
    BY <2>2 DEF BuildInterference, Ranges, RegistersTyped, Typed
  <2> QED
    BY <2>1, <2>2
<1>2. CostsTyped' /\ ControlTyped'
  BY <1>1 DEF BuildInterference, Typed, CostsTyped, ControlTyped, costs, liveness
<1>3. Kept'
  BY <1>1 DEF BuildInterference, Typed, Kept
<1> QED
  BY <1>1, <1>2, <1>3 DEF Typed

LEMMA CoalesceTyped ==
  ASSUME IInv, Typed, Coalesce
  PROVE  Typed'
<1> DEFINE at == NextMerge
           i == code[at[1]][at[2]]
           s == Source(i)
           d == Destination(i)
<1>1. s \in Ranges /\ d \in Ranges
  <2>1. Shape /\ Mergeable # {}
    BY DEF IInv, Coalesce
  <2>2. at[1] \in Blocks /\ at[2] \in DOMAIN code[at[1]] /\ CanMerge(i)
    BY <2>1, NextMergeIsMergeable
  <2>3. i \in Instructions(Len(range)) /\ i.op = "copy"
    BY <2>1, <2>2, RangesOfCode, CodeShape DEF CanMerge
  <2> QED
    BY <2>1, <2>3, RangesOfCopy
<1>2. /\ reg' = [reg EXCEPT ![s] = IF @ = NoReg THEN reg[d] ELSE @]
      /\ assignments' = [assignments EXCEPT ![s] = @ + assignments[d]]
      /\ spillCost' = [spillCost EXCEPT ![s] = @ + spillCost[d]]
      /\ merged' = TRUE
      /\ UNCHANGED << function, pc, wasSpilled, resume, queue, victim, slots >>
  BY DEF Coalesce, liveness
<1> HIDE DEF s, d
<1>3. DOMAIN reg = Ranges /\ Ranges' = Ranges
  BY <1>2 DEF Ranges
<1>4. RegistersTyped'
  BY <1>1, <1>2, <1>3 DEF Typed, RegistersTyped
<1>5. CostsTyped'
  <2>1. assignments[s] \in Nat /\ assignments[d] \in Nat /\ spillCost[s] \in Nat /\ spillCost[d] \in Nat
    BY <1>1 DEF Typed, CostsTyped
  <2> QED
    BY <1>1, <1>2, <1>3, <2>1 DEF Typed, CostsTyped
<1>6. ControlTyped'
  BY <1>2 DEF Typed, ControlTyped
<1>7. Kept'
  BY <1>2, <1>3 DEF Typed, Kept
<1> QED
  BY <1>4, <1>5, <1>6, <1>7 DEF Typed

LEMMA EndRoundTyped ==
  ASSUME IInv, Typed, EndRound
  PROVE  Typed'
<1>1. CASE merged
  BY <1>1, AnalyseTyped DEF EndRound
<1>2. CASE ~ merged
  <2>1. Ranges' = Ranges
    BY DEF EndRound, Ranges
  <2>2. RegistersTyped'
    BY <2>1 DEF EndRound, Typed, RegistersTyped
  <2>3. CostsTyped' /\ ControlTyped'
    BY <1>2, <2>1 DEF EndRound, Typed, CostsTyped, ControlTyped, costs, liveness
  <2>4. Kept'
    BY <1>2, <2>1 DEF EndRound, Typed, Kept
  <2> QED
    BY <2>2, <2>3, <2>4 DEF Typed
<1> QED
  BY <1>1, <1>2

LEMMA ColorTyped ==
  ASSUME IInv, Typed, NEW r \in queue, Color(r)
  PROVE  Typed'
<1>1. Allocated(r) \in NoReg .. RSP
  <2>1. r \in Ranges
    BY DEF Typed, Kept
  <2>2. NoReg \in NoReg .. RSP /\ 1 .. K \subseteq NoReg .. RSP
    BY KAssumption DEF NoReg, RSP
  <2>3. CASE Free(r) # {}
    <3>1. Free(r) \subseteq 1 .. K /\ Free(r) \subseteq Nat
      BY DEF Free
    <3>2. Min(Free(r)) \in 1 .. K
      BY <2>3, <3>1, MinIsSmallest
    <3> QED
      BY <2>1, <2>2, <3>2 DEF Allocated, Typed, RegistersTyped
  <2>4. CASE Free(r) = {}
    BY <2>1, <2>2, <2>4 DEF Allocated, Typed, RegistersTyped
  <2> QED
    BY <2>3, <2>4
<1>2. /\ reg' = [reg EXCEPT ![r] = Allocated(r)] /\ queue' = queue \ {r}
      /\ UNCHANGED << pc, wasSpilled, resume, assignments, spillCost, merged, victim, slots >>
  BY DEF Color, liveness, costs
<1>3. Ranges' = Ranges
  BY <1>2 DEF Ranges
<1>4. RegistersTyped'
  BY <1>1, <1>2, <1>3 DEF Typed, RegistersTyped, Ranges
<1>5. CostsTyped' /\ ControlTyped'
  BY <1>2, <1>3 DEF Typed, CostsTyped, ControlTyped
<1>6. Kept'
  BY <1>2, <1>3 DEF Typed, Kept
<1> QED
  BY <1>4, <1>5, <1>6 DEF Typed

LEMMA StartSpillTyped ==
  ASSUME IInv, Typed, NEW r \in queue, StartSpill(r)
  PROVE  Typed'
<1>1. Ranges' = Ranges
  BY DEF StartSpill, Ranges
<1>2. RegistersTyped' /\ CostsTyped'
  BY <1>1 DEF StartSpill, Typed, RegistersTyped, CostsTyped, costs
<1>3. ControlTyped'
  BY KAssumption DEF StartSpill, Typed, ControlTyped, liveness
<1>4. Kept'
  BY <1>1 DEF StartSpill, Typed, Kept
<1> QED
  BY <1>2, <1>3, <1>4 DEF Typed

LEMMA UntouchedTyped ==
  ASSUME Typed, UNCHANGED << reg, wasSpilled, resume, assignments, spillCost, merged, queue, victim, slots >>,
         pc' \in {"build", "liveness", "coalesce", "color", "spill", "done", "running"}
  PROVE  Typed'
<1>1. Ranges' = Ranges
  BY DEF Ranges
<1>2. RegistersTyped' /\ CostsTyped' /\ ControlTyped'
  BY <1>1 DEF Typed, RegistersTyped, CostsTyped, ControlTyped
<1>3. Kept'
  BY <1>1 DEF Typed, Kept
<1> QED
  BY <1>2, <1>3 DEF Typed

(* What is appended for a new live range. *)
LEMMA AppendedTyped ==
  ASSUME NEW n \in Nat, NEW T, NEW f \in [1 .. n -> T], NEW e \in T
  PROVE  Append(f, e) \in [1 .. n + 1 -> T]
<1>1. f \in Seq(T) /\ Len(f) = n
  <2>1. f \in Seq(T)
    BY SeqDef
  <2> QED
    BY <2>1, LenProperties
<1>2. Append(f, e) \in Seq(T) /\ Len(Append(f, e)) = n + 1
  BY <1>1, AppendProperties
<1> QED
  BY <1>2, LenProperties

LEMMA SpillOperandsTyped ==
  ASSUME IInv, Typed, SpillOperands
  PROVE  Typed'
<1>1. CASE UNCHANGED << reg, wasSpilled, neighbors, costs >>
  BY <1>1, UntouchedTyped DEF SpillOperands, Typed, ControlTyped, costs, liveness
<1>2. CASE AddLiveRange
  <2>1. Ranges = 1 .. Len(reg) /\ Len(reg) \in Nat /\ reg \in Seq(Nat)
    BY CodeShape DEF IInv, Shape, RangesTyped
  <2> DEFINE n == Len(reg)
             T == NoReg .. RSP
  <2>2. reg \in [1 .. n -> T]
    <3>1. reg = [r \in 1 .. n |-> reg[r]]
      BY <2>1, LenProperties
    <3>2. \A r \in 1 .. n : reg[r] \in T
      BY <2>1 DEF Typed, RegistersTyped
    <3> HIDE DEF n, T
    <3> QED
      BY <3>1, <3>2
  <2>3. /\ wasSpilled \in [1 .. n -> BOOLEAN]
        /\ assignments \in [1 .. n -> Nat] /\ spillCost \in [1 .. n -> Nat]
        /\ n \in Nat /\ NoReg \in T /\ 0 \in Nat /\ TRUE \in BOOLEAN
    BY <2>1, KAssumption DEF Typed, CostsTyped, Kept, NoReg, RSP
  <2> HIDE DEF n, T
  <2>4. /\ reg' \in [1 .. n + 1 -> T] /\ wasSpilled' \in [1 .. n + 1 -> BOOLEAN]
        /\ assignments' \in [1 .. n + 1 -> Nat] /\ spillCost' \in [1 .. n + 1 -> Nat]
    BY <1>2, <2>2, <2>3, AppendedTyped DEF AddLiveRange
  <2>5. Ranges' = 1 .. n + 1 /\ Ranges \subseteq Ranges'
    BY <2>1, <2>3, <2>4 DEF Ranges, n
  <2>6. RegistersTyped' /\ CostsTyped'
    BY <2>4, <2>5 DEF RegistersTyped, CostsTyped, T
  <2>7. ControlTyped'
    BY DEF SpillOperands, Typed, ControlTyped, liveness
  <2>8. Kept'
    <3>1. queue' \in SUBSET Ranges' /\ victim' \in Ranges'
      BY <2>5 DEF SpillOperands, Typed, Kept
    <3> QED
      BY <2>4, <2>5, <3>1 DEF Kept
  <2> QED
    BY <2>6, <2>7, <2>8 DEF Typed
<1> QED
  BY <1>1, <1>2 DEF SpillOperands

LEMMA NextTyped == IInv /\ Typed /\ [Next]_vars => Typed'
<1> SUFFICES ASSUME IInv, Typed, [Next]_vars PROVE Typed'
  OBVIOUS
<1>1. CASE Build
  BY <1>1, AnalyseTyped DEF Build, Typed, ControlTyped
<1>2. CASE VisitBlock \/ AllColored \/ SpillCopy \/ SpillConst \/ UNCHANGED vars
  BY <1>2, UntouchedTyped DEF VisitBlock, AllColored, SpillCopy, SpillConst, vars, costs, liveness,
                              Typed, ControlTyped
<1>3. CASE BuildInterference
  BY <1>3, BuildInterferenceTyped
<1>4. CASE Coalesce
  BY <1>4, CoalesceTyped
<1>5. CASE EndRound
  BY <1>5, EndRoundTyped
<1>6. CASE \E r \in queue : Color(r)
  BY <1>6, ColorTyped
<1>7. CASE \E r \in queue : StartSpill(r)
  BY <1>7, StartSpillTyped
<1>8. CASE SpillOperands
  BY <1>8, SpillOperandsTyped
<1>9. CASE Restart
  BY <1>9, AnalyseTyped DEF Restart, Typed, ControlTyped
<1> QED
  BY <1>1, <1>2, <1>3, <1>4, <1>5, <1>6, <1>7, <1>8, <1>9 DEF Next

(* Every variable of the allocation holds what its declaration says: no    *)
(* register beyond the stack pointer's is ever handed out, the arrays that *)
(* are indexed by live range grow together when the spiller adds one, and  *)
(* the spiller's and the coalescer's position is never before the first    *)
(* instruction.                                                            *)
THEOREM AllocatorTypeCorrect == Spec => []TypeOK
  BY InitInvariant, NextInvariant, InitTyped, NextTyped, TypedIsTypeOK, PTL DEF Spec
=============================================================================
