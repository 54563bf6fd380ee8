------------------------- MODULE AllocatorColorProofs -------------------------
(***************************************************************************)
(* Live ranges that interfere never share a register, for any function,    *)
(* any number of registers and any number of spills.                       *)
(*                                                                         *)
(* ColoringProper says so of the interference that was computed last, and  *)
(* that is computed anew from other code after every round of merges and   *)
(* after every spill, when the colours are kept.  What carries over is an  *)
(* annotation: a set of live ranges for every point of the code, that no   *)
(* solution of the liveness equations exceeds, and whose clashes are all   *)
(* accounted for.  It is shown to exist when the interference is built, to *)
(* pass through a merge and through the rewriting of each instruction by   *)
(* the spiller, and to bound what the next liveness pass can find.         *)
(***************************************************************************)
EXTENDS AllocatorProofs

-----------------------------------------------------------------------------
(***************************************************************************)
(* Annotations.  A gives each block b of the code c a set of live ranges   *)
(* for every point: A[b][0] at its start, A[b][p] after instruction p.     *)
(* One is sound when it holds what any solution of the liveness equations  *)
(* holds of the live ranges C, and what it makes interfere is related.     *)
(***************************************************************************)
UsesBy(i, rng) == { rng[v] : v \in SeqSet(Read(i)) }
DefsBy(i, rng) == { rng[v] : v \in SeqSet(i.dst) }

(* x is a destination of i, and y interferes with it when after is live.   *)
Clash(i, rng, after, x, y) ==
  /\ i.dst # << >>
  /\ \/ x = rng[i.dst[1]] /\ y \in after
     \/ /\ Len(i.dst) = 2 /\ x = rng[i.dst[2]]
        /\ IF i.both THEN y \in after \/ y = rng[i.dst[1]]
                     ELSE y \in after /\ y # rng[i.dst[1]]

SoundAt(before, i, after, rng, C, R) ==
  /\ \A r \in C : r \in UsesBy(i, rng) \/ (r \in after /\ r \notin DefsBy(i, rng)) => r \in before
  /\ \A x, y \in C : Clash(i, rng, after, x, y) /\ x # y => << x, y >> \in R

Sound(A, c, rng, C, R) ==
  \A b \in DOMAIN c : \A p \in 1 .. Len(c[b]) :
    SoundAt(A[b][p - 1], c[b][p], A[b][p], rng, C, R)

(* The same across blocks, for those that the liveness pass visits. *)
Flows(A, c, C) ==
  \A b \in Visited : \A s \in function.succ[b] \cap Visited :
    \A r \in C : r \in A[s][0] => r \in A[b][Len(c[b])]

-----------------------------------------------------------------------------
(* Up and down a block. *)
LEMMA Ascends ==
  ASSUME NEW n \in Nat, NEW T, 0 \in T, \A p \in 1 .. n : p - 1 \in T => p \in T
  PROVE  \A p \in 0 .. n : p \in T
<1> DEFINE U == { k \in Nat : k <= n => k \in T }
<1>1. 0 \in U
  OBVIOUS
<1>2. ASSUME NEW k \in Nat, k \in U PROVE k + 1 \in U
  <2> SUFFICES ASSUME k + 1 <= n PROVE k + 1 \in T
    OBVIOUS
  <2>1. k + 1 \in 1 .. n /\ (k + 1) - 1 = k /\ k \in T
    BY <1>2
  <2> QED
    BY <2>1
<1>3. Nat \subseteq U
  <2> HIDE DEF U
  <2> QED
    BY <1>1, <1>2, Induction
<1> QED
  BY <1>3

LEMMA Descends ==
  ASSUME NEW n \in Nat, NEW T, NEW m \in 0 .. n, m \in T, \A p \in 1 .. n : p \in T => p - 1 \in T
  PROVE  \A p \in 0 .. m : p \in T
<1> DEFINE U == { k \in Nat : k <= m => m - k \in T }
<1>1. 0 \in U
  OBVIOUS
<1>2. ASSUME NEW k \in Nat, k \in U PROVE k + 1 \in U
  <2> SUFFICES ASSUME k + 1 <= m PROVE m - (k + 1) \in T
    OBVIOUS
  <2>1. m - k \in 1 .. n /\ (m - k) - 1 = m - (k + 1) /\ m - k \in T
    BY <1>2
  <2> QED
    BY <2>1
<1>3. Nat \subseteq U
  <2> HIDE DEF U
  <2> QED
    BY <1>1, <1>2, Induction
<1> QED
  <2>1. ASSUME NEW p \in 0 .. m PROVE p \in T
    <3>1. m - p \in U /\ m - (m - p) = p /\ m - p <= m
      BY <1>3
    <3> QED
      BY <3>1
  <2> QED
    BY <2>1

(* What the code reads and writes, in terms of `range'. *)
LEMMA UsesAndDefs ==
  ASSUME NEW i, NEW r, r # SP
  PROVE  /\ r \in Uses(i) <=> r \in UsesBy(i, range)
         /\ r \in Defs(i) <=> r \in DefsBy(i, range)
  BY DEF Uses, Defs, UsesBy, DefsBy, Written

LEMMA EdgesAreClashes ==
  ASSUME NEW i, NEW after, NEW e \in Edges(i, after)
  PROVE  e = << e[1], e[2] >> /\ Clash(i, range, after, e[1], e[2])
<1> DEFINE first == range[i.dst[1]]
           rest == IF i.both THEN after \cup {first} ELSE after \ {first}
<1>1. i.dst # << >>
  BY DEF Edges
<1>2. e \in {first} \X after \/ (Len(i.dst) = 2 /\ e \in {range[i.dst[2]]} \X rest)
  BY <1>1 DEF Edges
<1> QED
  BY <1>1, <1>2 DEF Clash

LEMMA ClashesAreEdges ==
  ASSUME NEW i, NEW after, NEW x, NEW y, Clash(i, range, after, x, y)
  PROVE  << x, y >> \in Edges(i, after)
  BY DEF Edges, Clash
-----------------------------------------------------------------------------
(* The liveness pass.                                                      *)

LEMMA VisitedAreBlocks ==
  ASSUME Shape
  PROVE  Visited \subseteq Blocks
<1> DEFINE N == Cardinality(Blocks)
           S == SUBSET Blocks
           grown(t) == { b \in Blocks : b \in t \/ function.succ[b] \cap t # {} }
           next == [e \in (1 .. N) \X S |-> grown(e[2])]
           Is(g) == g = [n \in 0 .. N |-> IF n = 0 THEN function.ends ELSE grown(g[n-1])]
<1>1. N \in Nat
  <2>1. Blocks = 1 .. Len(code) /\ Len(code) \in Nat
    BY CodeShape DEF Shape, CodeTyped
  <2> QED
    BY <2>1, FS_Interval
<1>2. function.ends \in S
  BY FunctionsAssumption DEF Shape, Blocks
<1>3. next \in [(1 .. N) \X S -> S]
  OBVIOUS
<1>4. \E g : Is(g)
  <2>1. PICK g \in [0 .. N -> S] : Recurs(g, N, function.ends, next)
    <3> HIDE DEF next, S, N
    <3> QED
      BY <1>1, <1>2, <1>3, RecursionExists
  <2>2. ASSUME NEW n \in 0 .. N
        PROVE g[n] = IF n = 0 THEN function.ends ELSE grown(g[n-1])
    <3>1. CASE n = 0
      BY <2>1, <3>1 DEF Recurs
    <3>2. CASE n # 0
      <4>1. n \in 1 .. N /\ n - 1 \in 0 .. N
        BY <1>1, <3>2
      <4>2. g[n] = next[<< n, g[n-1] >>] /\ g[n-1] \in S
        BY <2>1, <4>1 DEF Recurs
      <4> QED
        BY <3>2, <4>1, <4>2
    <3> QED
      BY <3>1, <3>2
  <2> HIDE DEF grown, N, S
  <2>3. Is(g)
    BY <2>1, <2>2
  <2> QED
    BY <2>3
<1>5. Visited = (CHOOSE g : Is(g))[N]
  BY DEF Visited
<1>6. ASSUME NEW g, Is(g) PROVE g[N] \subseteq Blocks
  <2>1. N \in 0 .. N
    BY <1>1
  <2> QED
    BY <1>2, <1>6, <2>1
<1> HIDE DEF Is
<1> QED
  BY <1>4, <1>5, <1>6

(* What holds at the end of a block and is not assigned in it, and what is *)
(* used before it is assigned, is held at its start.                       *)
LEMMA EquationIsHeld ==
  ASSUME Shape, NEW b \in Blocks, NEW A, NEW C, NEW R, SP \notin C,
         Sound(A, code, range, C, R),
         \A r \in C : r \in LiveOut(b) => r \in A[b][Len(code[b])],
         NEW r \in C, r \in Equation(b)
  PROVE  r \in A[b][0]
<1> DEFINE N == Len(code[b])
           T == { p \in 0 .. N : r \in A[b][p] }
<1>1. N \in Nat /\ b \in DOMAIN code /\ DOMAIN code[b] = 1 .. N
  BY CodeShape
<1>2. ASSUME NEW p \in 1 .. N
      PROVE r \in Uses(code[b][p]) \/ (p \in T /\ r \notin Defs(code[b][p])) => p - 1 \in T
  <2>1. SoundAt(A[b][p - 1], code[b][p], A[b][p], range, C, R)
    BY <1>1 DEF Sound
  <2>2. r # SP
    OBVIOUS
  <2>3. p - 1 \in 0 .. N
    BY <1>1
  <2> QED
    BY <2>1, <2>2, <2>3, UsesAndDefs DEF SoundAt
<1>3. CASE r \in UsedBeforeDef(code[b])
  <2>1. PICK p \in 1 .. N : r \in Uses(code[b][p]) /\ \A q \in 1 .. p - 1 : r \notin Defs(code[b][q])
    BY <1>1, <1>3 DEF UsedBeforeDef
  <2>2. p - 1 \in T /\ p - 1 \in Nat
    BY <1>1, <1>2, <2>1
  <2>3. \A q \in 1 .. p - 1 : q \in T => q - 1 \in T
    BY <1>1, <1>2, <2>1
  <2>4. 0 \in T
    <3> HIDE DEF T
    <3> QED
      BY <2>2, <2>3, Descends
  <2> QED
    BY <2>4
<1>4. CASE r \in LiveOut(b) \ Assigned(code[b])
  <2>1. \A p \in 1 .. N : r \notin Defs(code[b][p])
    BY <1>1, <1>4 DEF Assigned
  <2>2. N \in T /\ N \in 0 .. N
    BY <1>1, <1>4
  <2>3. \A q \in 1 .. N : q \in T => q - 1 \in T
    BY <1>2, <2>1
  <2>4. 0 \in T
    <3> HIDE DEF T, N
    <3> QED
      BY <1>1, <2>2, <2>3, Descends
  <2> QED
    BY <2>4
<1> QED
  BY <1>3, <1>4 DEF Equation

(* What the pass finds live after an instruction is held there.            *)
LEMMA LiveAfterIsHeld ==
  ASSUME Shape, NEW b \in Blocks, NEW A, NEW C, NEW R, SP \notin C,
         Sound(A, code, range, C, R),
         \A r \in C : r \in LiveOut(b) => r \in A[b][Len(code[b])],
         NEW p \in 1 .. Len(code[b]), NEW r \in C, r \in LiveAfter(b)[p]
  PROVE  r \in A[b][p]
<1> DEFINE N == Len(code[b])
           T == { q \in 0 .. N : q # 0 => (r \in LiveAfter(b)[q] => r \in A[b][q]) }
<1>1. N \in Nat /\ b \in DOMAIN code
  BY CodeShape
<1>2. N \in T
  <2>1. N # 0 => LiveAfter(b)[N] = LiveOut(b)
    <3>1. \A q \in 1 .. N : q = N => LiveAfter(b)[q] = LiveOut(b)
      BY LiveAfterTyped
    <3>2. N # 0 => N \in 1 .. N
      BY <1>1
    <3> HIDE DEF N
    <3> QED
      BY <3>1, <3>2
  <2> QED
    BY <1>1, <2>1
<1>3. ASSUME NEW q \in 1 .. N, q \in T PROVE q - 1 \in T
  <2> SUFFICES ASSUME q - 1 # 0, r \in LiveAfter(b)[q - 1] PROVE r \in A[b][q - 1]
    BY <1>1
  <2>1. SoundAt(A[b][q - 1], code[b][q], A[b][q], range, C, R)
    BY <1>1 DEF Sound
  <2>2. q - 1 \in 1 .. N /\ q - 1 # N /\ (q - 1) + 1 = q
    BY <1>1
  <2>3. LiveAfter(b)[q - 1] = (LiveAfter(b)[q] \ Defs(code[b][q])) \cup Uses(code[b][q])
    BY <2>2, LiveAfterTyped
  <2> QED
    BY <1>3, <2>1, <2>3, UsesAndDefs DEF SoundAt
<1>4. \A q \in 0 .. N : q \in T
  <2>1. N \in 0 .. N
    BY <1>1
  <2> HIDE DEF T, N
  <2> QED
    BY <1>1, <1>2, <1>3, <2>1, Descends
<1>5. p \in T /\ p # 0
  BY <1>1, <1>4
<1> QED
  BY <1>5

LEMMA LiveOutIsHeld ==
  ASSUME Shape, NEW A, NEW C, Flows(A, code, C),
         \A b \in Blocks : \A r \in C : r \in liveIn[b] => r \in A[b][0],
         \A b \in Blocks : b \notin Visited => liveIn[b] = {},
         NEW b \in Blocks, NEW r \in C, r \in LiveOut(b)
  PROVE  r \in A[b][Len(code[b])]
<1>1. b \in Visited /\ \E s \in function.succ[b] : r \in liveIn[s]
  BY DEF LiveOut
<1>2. PICK s \in function.succ[b] : r \in liveIn[s]
  BY <1>1
<1>3. s \in Blocks
  BY FunctionsAssumption DEF Shape, Blocks
<1>4. s \in Visited /\ r \in A[s][0]
  BY <1>2, <1>3
<1> QED
  BY <1>1, <1>4 DEF Flows

-----------------------------------------------------------------------------
(* Interference, and what it is built from.                                *)

LEMMA ClashesInterfere ==
  ASSUME NEW b \in Blocks, NEW p \in DOMAIN code[b], NEW x \in Ranges \ {SP},
         NEW y \in Ranges \ {SP}, x # y, << x, y >> \in Edges(code[b][p], LiveAfter(b)[p])
  PROVE  y \in Interference[x]
<1> DEFINE edges == UNION { UNION { Edges(code[a][q], LiveAfter(a)[q]) : q \in DOMAIN code[a] } :
                            a \in Blocks }
           proper == { e \in edges : e[1] # e[2] /\ SP \notin {e[1], e[2]} }
<1>1. Interference = [r \in Ranges |-> { e[2] : e \in { d \in proper : d[1] = r } }
                                       \cup { e[1] : e \in { d \in proper : d[2] = r } }]
  BY DEF Interference
<1>2. << x, y >> \in edges
  OBVIOUS
<1> HIDE DEF edges
<1>3. << x, y >> \in proper
  BY <1>2
<1> HIDE DEF proper
<1>4. << x, y >> \in { d \in proper : d[1] = x }
  BY <1>3
<1>5. y \in { e[2] : e \in { d \in proper : d[1] = x } }
  BY <1>4
<1> QED
  BY <1>1, <1>5

LEMMA InterferenceClashes ==
  ASSUME Shape, NEW x \in Ranges, NEW y \in Interference[x]
  PROVE  /\ x # SP /\ y # SP /\ x # y
         /\ \E b \in Blocks : \E p \in 1 .. Len(code[b]) :
              \/ Clash(code[b][p], range, LiveAfter(b)[p], x, y)
              \/ Clash(code[b][p], range, LiveAfter(b)[p], y, x)
<1> DEFINE edges == UNION { UNION { Edges(code[a][q], LiveAfter(a)[q]) : q \in DOMAIN code[a] } :
                            a \in Blocks }
           proper == { e \in edges : e[1] # e[2] /\ SP \notin {e[1], e[2]} }
<1>1. Interference = [r \in Ranges |-> { e[2] : e \in { d \in proper : d[1] = r } }
                                       \cup { e[1] : e \in { d \in proper : d[2] = r } }]
  BY DEF Interference
<1>2. \A e \in proper : e \in edges /\ e[1] # e[2] /\ e[1] # SP /\ e[2] # SP
  OBVIOUS
<1>3. ASSUME NEW e \in edges
      PROVE \E b \in Blocks : \E p \in 1 .. Len(code[b]) :
              Clash(code[b][p], range, LiveAfter(b)[p], e[1], e[2])
  <2>1. PICK b \in Blocks : \E p \in DOMAIN code[b] : e \in Edges(code[b][p], LiveAfter(b)[p])
    BY <1>3
  <2>2. PICK p \in DOMAIN code[b] : e \in Edges(code[b][p], LiveAfter(b)[p])
    BY <2>1
  <2>3. Clash(code[b][p], range, LiveAfter(b)[p], e[1], e[2])
    BY <2>2, EdgesAreClashes
  <2>4. p \in 1 .. Len(code[b])
    BY CodeShape
  <2> QED
    BY <2>3, <2>4
<1> HIDE DEF edges, proper
<1>4. PICK e \in proper : (e[1] = x /\ e[2] = y) \/ (e[2] = x /\ e[1] = y)
  BY <1>1
<1> QED
  BY <1>2, <1>3, <1>4

-----------------------------------------------------------------------------
(* What the liveness sets annotate once they are settled.                  *)
Settled == [b \in Blocks |-> [p \in 0 .. Len(code[b]) |->
  IF p = Len(code[b]) THEN LiveOut(b)
  ELSE (LiveAfter(b)[p + 1] \ Defs(code[b][p + 1])) \cup Uses(code[b][p + 1])]]

LEMMA SettledSets ==
  ASSUME Shape, NEW b \in Blocks
  PROVE  /\ Settled[b][Len(code[b])] = LiveOut(b)
         /\ \A p \in 1 .. Len(code[b]) :
              /\ Settled[b][p] = LiveAfter(b)[p]
              /\ Settled[b][p - 1] = (Settled[b][p] \ Defs(code[b][p])) \cup Uses(code[b][p])
<1> DEFINE N == Len(code[b])
<1>1. N \in Nat
  BY CodeShape
<1>2. \A p \in 0 .. N : Settled[b][p] =
        IF p = N THEN LiveOut(b)
        ELSE (LiveAfter(b)[p + 1] \ Defs(code[b][p + 1])) \cup Uses(code[b][p + 1])
  BY DEF Settled
<1>3. Settled[b][N] = LiveOut(b)
  <2>1. N \in 0 .. N
    BY <1>1
  <2> HIDE DEF N
  <2> QED
    BY <1>2, <2>1
<1>4. \A p \in 1 .. N : Settled[b][p] = LiveAfter(b)[p]
  <2>1. \A p \in 1 .. N : p \in 0 .. N
    BY <1>1
  <2>2. \A p \in 1 .. N : LiveAfter(b)[p] =
          IF p = N THEN LiveOut(b)
          ELSE (LiveAfter(b)[p+1] \ Defs(code[b][p+1])) \cup Uses(code[b][p+1])
    BY LiveAfterTyped
  <2> HIDE DEF N
  <2> QED
    BY <1>2, <2>1, <2>2
<1>5. ASSUME NEW p \in 1 .. N
      PROVE Settled[b][p - 1] = (Settled[b][p] \ Defs(code[b][p])) \cup Uses(code[b][p])
  <2>1. p - 1 \in 0 .. N /\ p - 1 # N /\ (p - 1) + 1 = p
    BY <1>1
  <2>2. Settled[b][p - 1] = (LiveAfter(b)[(p - 1) + 1] \ Defs(code[b][(p - 1) + 1]))
                              \cup Uses(code[b][(p - 1) + 1])
    BY <1>2, <2>1
  <2> QED
    BY <1>4, <2>1, <2>2
<1> QED
  BY <1>3, <1>4, <1>5

LEMMA StartIsEquation ==
  ASSUME Shape, NEW b \in Blocks, NEW r \in Settled[b][0]
  PROVE  r \in Equation(b)
<1> DEFINE N == Len(code[b])
           T == { p \in 0 .. N : r \in Settled[b][p] /\ \A q \in 1 .. p : r \notin Defs(code[b][q]) }
<1>1. N \in Nat /\ DOMAIN code[b] = 1 .. N
  BY CodeShape
<1>2. SUFFICES ASSUME r \notin UsedBeforeDef(code[b]) PROVE r \in LiveOut(b) \ Assigned(code[b])
  BY DEF Equation
<1>3. 0 \in T
  BY <1>1
<1>4. ASSUME NEW p \in 1 .. N, p - 1 \in T PROVE p \in T
  <2>1. r \in Settled[b][p - 1] /\ \A q \in 1 .. p - 1 : r \notin Defs(code[b][q])
    BY <1>4
  <2>2. r \notin Uses(code[b][p])
    BY <1>1, <1>2, <2>1 DEF UsedBeforeDef
  <2>3. r \in Settled[b][p] /\ r \notin Defs(code[b][p])
    BY <2>1, <2>2, SettledSets
  <2>4. \A q \in 1 .. p : q \in 1 .. p - 1 \/ q = p
    OBVIOUS
  <2>5. \A q \in 1 .. p : r \notin Defs(code[b][q])
    BY <2>1, <2>3, <2>4
  <2>6. p \in 0 .. N
    BY <1>1
  <2> QED
    BY <2>3, <2>5, <2>6
<1>5. N \in T
  <2>1. N \in 0 .. N
    BY <1>1
  <2> HIDE DEF T, N
  <2> QED
    BY <1>1, <1>3, <1>4, <2>1, Ascends
<1>6. r \in LiveOut(b)
  BY <1>5, SettledSets
<1>7. r \notin Assigned(code[b])
  BY <1>1, <1>5 DEF Assigned
<1> QED
  BY <1>6, <1>7

-----------------------------------------------------------------------------
(* The annotations that the invariant speaks of: of all the live ranges,   *)
(* with the neighbors they have, and of those that have a register.        *)
Tracked == Ranges \ {SP}
Adjacent == { e \in Ranges \X Ranges : e[2] \in neighbors[e[1]] }
Colored == { r \in Ranges \ {SP} : reg[r] # NoReg }
Different == { e \in Ranges \X Ranges : reg[e[1]] # reg[e[2]] }

Annotates(A) == Sound(A, code, range, Tracked, Adjacent) /\ Flows(A, code, Tracked)
ColorsApart(A) == Sound(A, code, range, Colored, Different) /\ Flows(A, code, Colored)
Held(A) == \A b \in Blocks : \A r \in Colored : r \in liveIn[b] => r \in A[b][0]

OnlyVisitedLive == \A b \in Blocks : b \notin Visited => liveIn[b] = {}

LEMMA SettledAnnotates ==
  ASSUME Shape, OnlyVisitedLive, Unsettled = {}
  PROVE  /\ Sound(Settled, code, range, Tracked, { e \in Ranges \X Ranges : e[2] \in Interference[e[1]] })
         /\ Flows(Settled, code, Tracked)
<1> DEFINE R == { e \in Ranges \X Ranges : e[2] \in Interference[e[1]] }
<1>1. DOMAIN code = Blocks
  BY CodeShape
<1>2. ASSUME NEW b \in Blocks, NEW p \in 1 .. Len(code[b])
      PROVE SoundAt(Settled[b][p - 1], code[b][p], Settled[b][p], range, Tracked, R)
  <2>1. /\ Settled[b][p] = LiveAfter(b)[p]
        /\ Settled[b][p - 1] = (Settled[b][p] \ Defs(code[b][p])) \cup Uses(code[b][p])
    BY SettledSets
  <2>2. ASSUME NEW r \in Tracked,
               r \in UsesBy(code[b][p], range)
                 \/ (r \in Settled[b][p] /\ r \notin DefsBy(code[b][p], range))
        PROVE r \in Settled[b][p - 1]
    <3>1. r # SP
      BY DEF Tracked
    <3> QED
      BY <2>1, <2>2, <3>1, UsesAndDefs
  <2>3. ASSUME NEW x \in Tracked, NEW y \in Tracked,
               Clash(code[b][p], range, Settled[b][p], x, y), x # y
        PROVE << x, y >> \in R
    <3>1. << x, y >> \in Edges(code[b][p], LiveAfter(b)[p])
      BY <2>1, <2>3, ClashesAreEdges
    <3>2. p \in DOMAIN code[b] /\ x \in Ranges \ {SP} /\ y \in Ranges \ {SP}
      BY CodeShape DEF Tracked
    <3>3. y \in Interference[x]
      BY <2>3, <3>1, <3>2, ClashesInterfere
    <3> QED
      BY <3>2, <3>3
  <2> HIDE DEF R
  <2> QED
    BY <2>2, <2>3 DEF SoundAt
<1>3. ASSUME NEW b \in Visited, NEW s \in function.succ[b] \cap Visited, NEW r \in Tracked,
             r \in Settled[s][0]
      PROVE r \in Settled[b][Len(code[b])]
  <2>1. b \in Blocks /\ s \in Blocks
    BY VisitedAreBlocks
  <2>2. r \in Equation(s)
    BY <1>3, <2>1, StartIsEquation
  <2>3. liveIn[s] = Equation(s)
    BY DEF Unsettled
  <2>4. r \in LiveOut(b)
    BY <2>2, <2>3 DEF LiveOut
  <2> QED
    BY <2>1, <2>4, SettledSets
<1> HIDE DEF R
<1>4. Sound(Settled, code, range, Tracked, R)
  BY <1>1, <1>2 DEF Sound
<1>5. Flows(Settled, code, Tracked)
  BY <1>3 DEF Flows
<1> QED
  BY <1>4, <1>5 DEF R

(* Live ranges that interfere once the sets are settled have different     *)
(* registers, when an annotation says so of those that have one.           *)
LEMMA InterferenceIsColored ==
  ASSUME Shape, OnlyVisitedLive, NEW A, ColorsApart(A), Held(A),
         NEW x \in Ranges, NEW y \in Interference[x], reg[x] # NoReg
  PROVE  reg[x] # reg[y]
<1>1. SUFFICES ASSUME reg[y] # NoReg PROVE reg[x] # reg[y]
  OBVIOUS
<1>2. y \in Ranges
  BY InterferenceIsMutual
<1>3. x # SP /\ y # SP /\ x # y
  BY InterferenceClashes
<1>4. x \in Colored /\ y \in Colored
  BY <1>1, <1>2, <1>3 DEF Colored
<1>5. PICK b \in Blocks : \E p \in 1 .. Len(code[b]) :
              \/ Clash(code[b][p], range, LiveAfter(b)[p], x, y)
              \/ Clash(code[b][p], range, LiveAfter(b)[p], y, x)
  BY InterferenceClashes
<1>6. PICK p \in 1 .. Len(code[b]) :
              \/ Clash(code[b][p], range, LiveAfter(b)[p], x, y)
              \/ Clash(code[b][p], range, LiveAfter(b)[p], y, x)
  BY <1>5
<1>7. ASSUME NEW r \in Colored, r \in LiveAfter(b)[p] PROVE r \in A[b][p]
  <2>1. \A t \in Colored : t \in LiveOut(b) => t \in A[b][Len(code[b])]
    BY LiveOutIsHeld DEF OnlyVisitedLive, ColorsApart, Held
  <2>2. SP \notin Colored
    BY DEF Colored
  <2> QED
    BY <1>7, <2>1, <2>2, LiveAfterIsHeld DEF ColorsApart
<1>8. SoundAt(A[b][p - 1], code[b][p], A[b][p], range, Colored, Different)
  BY CodeShape DEF ColorsApart, Sound
<1>9. ASSUME NEW v \in Colored, NEW w \in Colored, Clash(code[b][p], range, LiveAfter(b)[p], v, w)
      PROVE Clash(code[b][p], range, A[b][p], v, w)
  BY <1>7, <1>9 DEF Clash
<1>10. << x, y >> \in Different \/ << y, x >> \in Different
  BY <1>3, <1>4, <1>6, <1>8, <1>9 DEF SoundAt
<1> QED
  BY <1>10 DEF Different

(* Neighbors with different registers: what is annotated of all the live   *)
(* ranges holds of those that have a register.                             *)
LEMMA AnnotationOfColored ==
  ASSUME Shape, NEW A, Annotates(A),
         \A r \in Ranges : \A s \in neighbors[r] : reg[r] # NoReg => reg[r] # reg[s]
  PROVE  ColorsApart(A)
<1>1. Colored \subseteq Tracked
  BY DEF Colored, Tracked
<1>2. \A e \in Adjacent : e[1] \in Colored => e \in Different
  BY DEF Adjacent, Different, Colored
<1>3. ASSUME NEW b \in DOMAIN code, NEW p \in 1 .. Len(code[b])
      PROVE SoundAt(A[b][p - 1], code[b][p], A[b][p], range, Colored, Different)
  <2>1. SoundAt(A[b][p - 1], code[b][p], A[b][p], range, Tracked, Adjacent)
    BY DEF Annotates, Sound
  <2> QED
    BY <1>1, <1>2, <2>1 DEF SoundAt
<1>4. Flows(A, code, Colored)
  BY <1>1 DEF Annotates, Flows
<1> QED
  BY <1>3, <1>4 DEF ColorsApart, Sound

-----------------------------------------------------------------------------

-----------------------------------------------------------------------------
(* Coalescing.  While live ranges are merged no copy defines the stack     *)
(* pointer, and one that counts one assignment is defined at one place at  *)
(* most.                                                                   *)

Merging == pc = "coalesce" \/ (pc = "liveness" /\ resume # "color")
NoCopyToStackPointer == pc = "build" \/ Merging => \A at : ~ CopyInto(at, SP)

CountsDefinitions(r) ==
  /\ assignments[r] \in Nat
  /\ \A at : Defines(at, r) => assignments[r] >= 1
  /\ \A at, other : Defines(at, r) /\ Defines(other, r) /\ at # other => assignments[r] >= 2
Counted == Merging => \A r \in Tracked : CountsDefinitions(r)

Absorbed(r, s, d) == IF r = d THEN s ELSE r

(* One instruction, when d has become s in what it mentions.               *)
LEMMA SoundAfterMerge ==
  ASSUME NEW n, NEW i \in Instructions(n), NEW rng, NEW rng2, NEW s, NEW d,
         NEW C, NEW R, NEW R2, NEW before, NEW after,
         \A v \in 1 .. n : rng2[v] = Absorbed(rng[v], s, d),
         \A v \in 1 .. n : rng2[v] \in C => rng[v] \in C,
         \A x, y \in C : /\ << x, y >> \in R /\ Absorbed(x, s, d) # Absorbed(y, s, d)
                         => << Absorbed(x, s, d), Absorbed(y, s, d) >> \in R2,
         SoundAt(before, i, after, rng, C, R)
  PROVE  SoundAt({ Absorbed(r, s, d) : r \in before \cap C }, i,
                 { Absorbed(r, s, d) : r \in after \cap C }, rng2, C, R2)
<1> DEFINE m(r) == Absorbed(r, s, d)
           B == { m(r) : r \in before \cap C }
           E == { m(r) : r \in after \cap C }
<1>1. i \in Instr /\ WellFormed(i, 1 .. n)
  BY DEF Instructions
<1>2. i.dst \in Seq(Nat \ {0}) /\ DOMAIN i.dst = 1 .. Len(i.dst) /\ Len(i.dst) \in Nat
  BY <1>1, LenProperties DEF Instr
<1>3. /\ SeqSet(Read(i)) \subseteq 1 .. n /\ SeqSet(i.dst) \subseteq 1 .. n
      /\ \A k \in DOMAIN i.dst : i.dst[k] \in 1 .. n
  BY OperandsAreVariables
<1>4. ASSUME NEW r \in C, r \in UsesBy(i, rng2) PROVE r \in B
  <2>1. PICK v \in SeqSet(Read(i)) : r = rng2[v]
    BY <1>4 DEF UsesBy
  <2>2. v \in 1 .. n /\ rng[v] \in C /\ rng[v] \in UsesBy(i, rng) /\ r = m(rng[v])
    BY <1>3, <2>1 DEF UsesBy
  <2>3. rng[v] \in before
    BY <2>2 DEF SoundAt
  <2> QED
    BY <2>2, <2>3
<1>5. ASSUME NEW r \in C, r \in E, r \notin DefsBy(i, rng2) PROVE r \in B
  <2>1. PICK y \in after \cap C : r = m(y)
    BY <1>5
  <2>2. y \notin DefsBy(i, rng)
    <3> SUFFICES ASSUME y \in DefsBy(i, rng) PROVE r \in DefsBy(i, rng2)
      BY <1>5
    <3>1. PICK v \in SeqSet(i.dst) : y = rng[v]
      BY DEF DefsBy
    <3>2. rng2[v] = r
      BY <1>3, <2>1, <3>1
    <3> QED
      BY <3>2 DEF DefsBy
  <2>3. y \in before
    BY <2>1, <2>2 DEF SoundAt
  <2> QED
    BY <2>1, <2>3
<1>6. ASSUME NEW x \in C, NEW y \in C, Clash(i, rng2, E, x, y), x # y
      PROVE << x, y >> \in R2
  <2>1. i.dst # << >> /\ 1 \in DOMAIN i.dst
    BY <1>2, <1>6 DEF Clash
  <2> DEFINE first == rng[i.dst[1]]
             second == rng[i.dst[2]]
  <2>2. i.dst[1] \in 1 .. n /\ rng2[i.dst[1]] = m(first)
    BY <1>3, <2>1
  <2>3. Len(i.dst) = 2 => i.dst[2] \in 1 .. n /\ rng2[i.dst[2]] = m(second)
    BY <1>2, <1>3
  <2>4. SUFFICES ASSUME NEW x0 \in C, NEW y0 \in C, x = m(x0), y = m(y0),
                        Clash(i, rng, after, x0, y0)
                 PROVE << x, y >> \in R2
    <3>1. CASE x = rng2[i.dst[1]] /\ y \in E
      <4>1. PICK y0 \in after \cap C : y = m(y0)
        BY <3>1
      <4>2. first \in C /\ x = m(first)
        BY <2>2, <3>1
      <4>3. Clash(i, rng, after, first, y0)
        BY <2>1, <4>1 DEF Clash
      <4> HIDE DEF m, first
      <4> QED
        BY <2>4, <4>1, <4>2, <4>3
    <3>2. CASE Len(i.dst) = 2 /\ x = rng2[i.dst[2]] /\ y \in E /\ (i.both \/ y # rng2[i.dst[1]])
      <4>1. PICK y0 \in after \cap C : y = m(y0)
        BY <3>2
      <4>2. second \in C /\ x = m(second)
        BY <2>3, <3>2
      <4>3. i.both \/ y0 # first
        BY <2>2, <3>2, <4>1
      <4>4. Clash(i, rng, after, second, y0)
        BY <2>1, <3>2, <4>1, <4>3 DEF Clash
      <4> HIDE DEF m, second
      <4> QED
        BY <2>4, <4>1, <4>2, <4>4
    <3>3. CASE Len(i.dst) = 2 /\ x = rng2[i.dst[2]] /\ i.both /\ y = rng2[i.dst[1]]
      <4>1. second \in C /\ x = m(second) /\ first \in C /\ y = m(first)
        BY <2>2, <2>3, <3>3
      <4>2. Clash(i, rng, after, second, first)
        BY <2>1, <3>3 DEF Clash
      <4> HIDE DEF m, second, first
      <4> QED
        BY <2>4, <4>1, <4>2
    <3> QED
      BY <1>6, <3>1, <3>2, <3>3 DEF Clash
  <2>5. x0 # y0
    BY <1>6, <2>4
  <2>6. << x0, y0 >> \in R
    BY <2>4, <2>5 DEF SoundAt
  <2> QED
    BY <1>6, <2>4, <2>6
<1> HIDE DEF B, E
<1>7. SoundAt(B, i, E, rng2, C, R2)
  BY <1>4, <1>5, <1>6 DEF SoundAt
<1> QED
  BY <1>7 DEF B, E

-----------------------------------------------------------------------------
(* What a merge of d into s does, at the copy it deletes.                  *)
Absorbs(at, s, d) ==
  /\ CopyInto(at, d)
  /\ s = Source(code[at[1]][at[2]])
  /\ s \in Ranges /\ d \in Ranges /\ s # d /\ s \notin neighbors[d]
  /\ ~ RegistersConflict(s, d)
  /\ DOMAIN range' = DOMAIN range /\ \A v \in DOMAIN range : range'[v] = Absorbed(range[v], s, d)
  /\ neighbors' = [r \in Ranges |->
             IF r = d THEN {}
             ELSE IF r = s THEN neighbors[s] \cup neighbors[d]
             ELSE IF r \in neighbors[d] THEN (neighbors[r] \ {d}) \cup {s}
             ELSE neighbors[r]]
  /\ Ranges' = Ranges
  /\ reg' = [reg EXCEPT ![s] = IF @ = NoReg THEN reg[d] ELSE @]
  /\ assignments' = [assignments EXCEPT ![s] = @ + assignments[d]]
  /\ DOMAIN code' = DOMAIN code /\ function' = function
  /\ \A b \in DOMAIN code : Len(code'[b]) = Len(code[b])
  /\ \A b \in DOMAIN code : \A p \in 1 .. Len(code[b]) :
       << b, p >> # at => code'[b][p] = code[b][p]
  /\ /\ code'[at[1]][at[2]].src = << >> /\ code'[at[1]][at[2]].dst = << >>
     /\ ~ code'[at[1]][at[2]].both /\ code'[at[1]][at[2]].op = "deleted"
     /\ code'[at[1]][at[2]].id = code[at[1]][at[2]].id
     /\ code'[at[1]][at[2]].both = code[at[1]][at[2]].both

LEMMA CoalesceAbsorbs ==
  ASSUME IInv, Coalesce
  PROVE  \E at, s, d : Absorbs(at, s, d)
<1> DEFINE at == NextMerge
           i == code[at[1]][at[2]]
           s == Source(i)
           d == Destination(i)
           gone == [i EXCEPT !.op = "deleted", !.src = << >>, !.dst = << >>]
<1>1. Shape /\ Mergeable # {}
  BY DEF IInv, Coalesce
<1>2. at \in (Nat \ {0}) \X (Nat \ {0}) /\ at[1] \in Blocks /\ at[2] \in DOMAIN code[at[1]] /\ CanMerge(i)
  BY <1>1, NextMergeIsMergeable
<1>3. i \in Instructions(Len(range)) /\ i.op = "copy" /\ at[2] \in 1 .. Len(code[at[1]])
  BY <1>1, <1>2, RangesOfCode, CodeShape DEF CanMerge
<1>4. s \in Ranges /\ d \in Ranges
  BY <1>1, <1>3, RangesOfCopy
<1>5. d # s /\ s \notin neighbors[d] /\ ~ RegistersConflict(s, d)
  BY <1>2 DEF CanMerge, DoLiveRangesInterfere
<1>6. CopyInto(at, d)
  BY <1>2, <1>3 DEF CopyInto
<1>7. gone.src = << >> /\ gone.dst = << >> /\ gone.op = "deleted" /\ ~ gone.both /\ gone.id = i.id
      /\ gone.both = i.both
  BY <1>3 DEF Instructions, Instr, WellFormed
<1>8. /\ code' = [code EXCEPT ![at[1]][at[2]] = gone]
      /\ range' = [v \in DOMAIN range |-> Absorbed(range[v], s, d)]
      /\ neighbors' = [r \in Ranges |->
             IF r = d THEN {}
             ELSE IF r = s THEN neighbors[s] \cup neighbors[d]
             ELSE IF r \in neighbors[d] THEN (neighbors[r] \ {d}) \cup {s}
             ELSE neighbors[r]]
      /\ reg' = [reg EXCEPT ![s] = IF @ = NoReg THEN reg[d] ELSE @]
      /\ assignments' = [assignments EXCEPT ![s] = @ + assignments[d]]
      /\ function' = function
  BY DEF Coalesce, Absorbed
<1> HIDE DEF s, d, gone, at
<1>9. Ranges' = Ranges
  BY <1>8 DEF Ranges
<1>10. DOMAIN code = Blocks /\ \A b \in Blocks : code[b] \in Seq(Instructions(Len(range)))
  BY <1>1, CodeShape
<1> DEFINE block == [code[at[1]] EXCEPT ![at[2]] = gone]
<1>11. /\ code' = [code EXCEPT ![at[1]] = block]
       /\ DOMAIN code' = DOMAIN code
  BY <1>8
<1>12. /\ Len(block) = Len(code[at[1]]) /\ block[at[2]] = gone
       /\ \A p \in 1 .. Len(code[at[1]]) : p # at[2] => block[p] = code[at[1]][p]
  <2> DEFINE old == code[at[1]]
  <2>1. old \in Seq(Instructions(Len(range))) /\ at[2] \in 1 .. Len(old) /\ DOMAIN old = 1 .. Len(old)
    BY <1>1, <1>2, <1>3, CodeShape
  <2>2. old \in [1 .. Len(old) -> Instructions(Len(range))] /\ Len(old) \in Nat
    BY <2>1, LenProperties
  <2>3. block = [old EXCEPT ![at[2]] = gone]
    OBVIOUS
  <2> HIDE DEF block, old
  <2>4. DOMAIN block = 1 .. Len(old) /\ block[at[2]] = gone
        /\ \A p \in 1 .. Len(old) : p # at[2] => block[p] = old[p]
    BY <2>1, <2>2, <2>3
  <2>5. block \in [1 .. Len(old) -> Instructions(Len(range)) \cup {gone}]
    BY <2>2, <2>3
  <2>6. Len(block) = Len(old)
    BY <2>2, <2>5, SeqDef, LenProperties
  <2> QED
    BY <2>4, <2>6 DEF old
<1> HIDE DEF block
<1>13. /\ code'[at[1]] = block /\ at[1] \in DOMAIN code
       /\ \A b \in DOMAIN code : b # at[1] => code'[b] = code[b]
  BY <1>2, <1>10, <1>11
<1>14. /\ \A b \in DOMAIN code : Len(code'[b]) = Len(code[b])
       /\ \A b \in DOMAIN code : \A p \in 1 .. Len(code[b]) :
            << b, p >> # at => code'[b][p] = code[b][p]
       /\ code'[at[1]][at[2]] = gone
  <2>1. at = << at[1], at[2] >>
    BY <1>2
  <2>2. ASSUME NEW b \in DOMAIN code, NEW p \in 1 .. Len(code[b]), << b, p >> # at
        PROVE code'[b][p] = code[b][p]
    <3>1. CASE b = at[1]
      <4>1. p # at[2]
        BY <2>1, <2>2, <3>1
      <4> QED
        BY <1>12, <1>13, <3>1, <4>1
    <3>2. CASE b # at[1]
      BY <1>13, <3>2
    <3> QED
      BY <3>1, <3>2
  <2> QED
    BY <1>12, <1>13, <2>2
<1>15. DOMAIN range' = DOMAIN range /\ \A v \in DOMAIN range : range'[v] = Absorbed(range[v], s, d)
  BY <1>8
<1>16. Absorbs(at, s, d)
  BY <1>4, <1>5, <1>6, <1>7, <1>8, <1>9, <1>11, <1>14, <1>15 DEF Absorbs, s
<1> QED
  BY <1>16

Annotated == \E A : Annotates(A)

LEMMA VisitedStays ==
  ASSUME function' = function
  PROVE  Visited' = Visited /\ Blocks' = Blocks
  BY DEF Visited, Blocks

(* A merge carries the annotation over: what held d holds s.               *)
Renamed(E, A, s, d) ==
  \A b \in DOMAIN code : \A p \in 0 .. Len(code[b]) :
    E[b][p] = { Absorbed(r, s, d) : r \in A[b][p] \cap Tracked }

LEMMA MergeRenames ==
  ASSUME IInv, NEW A, Annotates(A), NEW at, NEW s, NEW d, Absorbs(at, s, d), d # SP
  PROVE  \E E : Annotates(E)' /\ Renamed(E, A, s, d)
<1> DEFINE m(r) == Absorbed(r, s, d)
<1>1. Annotates(A)
  OBVIOUS
<1> DEFINE B == [b \in DOMAIN code |-> [p \in 0 .. Len(code[b]) |-> { m(r) : r \in A[b][p] \cap Tracked }]]
<1>2. Shape
  BY DEF IInv
<1>3. /\ DOMAIN code = Blocks /\ DOMAIN range = 1 .. Len(range)
      /\ \A b \in DOMAIN code : Len(code[b]) \in Nat
      /\ \A v \in 1 .. Len(range) : range[v] \in Ranges
  BY <1>2, CodeShape, ElementOfSeq DEF Shape, RangesTyped
<1>4. \A b \in DOMAIN code : \A p \in 0 .. Len(code[b]) : B[b][p] = { m(r) : r \in A[b][p] \cap Tracked }
  OBVIOUS
<1> HIDE DEF B
<1>5. /\ function' = function /\ DOMAIN code' = DOMAIN code
      /\ \A b \in DOMAIN code : Len(code'[b]) = Len(code[b])
      /\ Tracked' = Tracked /\ Ranges' = Ranges
  BY DEF Absorbs, Tracked
<1>6. \A x, y \in Tracked : /\ << x, y >> \in Adjacent /\ m(x) # m(y)
                            => << m(x), m(y) >> \in Adjacent'
  <2> SUFFICES ASSUME NEW x \in Tracked, NEW y \in Tracked, y \in neighbors[x], m(x) # m(y)
               PROVE << m(x), m(y) >> \in Adjacent'
    BY DEF Adjacent
  <2>1. /\ neighbors \in [Ranges -> SUBSET Ranges]
        /\ \A r, t \in Ranges : t \in neighbors[r] => r \in neighbors[t] /\ r # t
    BY <1>2 DEF Shape, Mutual
  <2>2. x \in Ranges /\ y \in Ranges /\ x \in neighbors[y] /\ x # y
    BY <2>1 DEF Tracked
  <2>3. /\ s \in Ranges /\ d \in Ranges /\ s # d /\ s \notin neighbors[d]
        /\ neighbors' = [r \in Ranges |->
             IF r = d THEN {}
             ELSE IF r = s THEN neighbors[s] \cup neighbors[d]
             ELSE IF r \in neighbors[d] THEN (neighbors[r] \ {d}) \cup {s}
             ELSE neighbors[r]]
    BY DEF Absorbs
  <2>4. m(y) \in neighbors'[m(x)]
    <3>1. CASE x = s \/ x = d
      <4>1. m(x) = s /\ y # s /\ y # d /\ m(y) = y
        BY <2>2, <2>3, <3>1 DEF Absorbed
      <4> QED
        BY <2>3, <3>1, <4>1
    <3>2. CASE x # s /\ x # d
      <4>1. m(x) = x
        BY <3>2 DEF Absorbed
      <4>2. CASE y = d
        <5>1. x \in neighbors[d] /\ m(y) = s
          BY <2>2, <4>2 DEF Absorbed
        <5> QED
          BY <2>2, <2>3, <3>2, <4>1, <5>1
      <4>3. CASE y # d
        <5>1. m(y) = y
          BY <4>3 DEF Absorbed
        <5> QED
          BY <2>2, <2>3, <3>2, <4>1, <4>3, <5>1
      <4> QED
        BY <4>2, <4>3
    <3> QED
      BY <3>1, <3>2
  <2>5. m(x) \in Ranges /\ m(y) \in Ranges
    BY <2>2, <2>3 DEF Absorbed
  <2> QED
    BY <1>5, <2>4, <2>5 DEF Adjacent
<1>7. \A v \in 1 .. Len(range) : range'[v] = m(range[v]) /\ (range'[v] \in Tracked => range[v] \in Tracked)
  <2> TAKE v \in 1 .. Len(range)
  <2>1. range'[v] = m(range[v])
    BY <1>3 DEF Absorbs
  <2>2. range[v] = SP => range'[v] = SP
    BY <2>1 DEF Absorbed
  <2> QED
    BY <1>3, <2>1, <2>2 DEF Tracked
<1>8. ASSUME NEW b \in DOMAIN code, NEW p \in 1 .. Len(code[b])
      PROVE SoundAt(B[b][p - 1], code'[b][p], B[b][p], range', Tracked, Adjacent')
  <2>1. p \in 0 .. Len(code[b]) /\ p - 1 \in 0 .. Len(code[b])
    BY <1>3
  <2>2. /\ B[b][p] = { m(r) : r \in A[b][p] \cap Tracked }
        /\ B[b][p - 1] = { m(r) : r \in A[b][p - 1] \cap Tracked }
    BY <1>4, <2>1
  <2>3. SoundAt(A[b][p - 1], code[b][p], A[b][p], range, Tracked, Adjacent)
    BY <1>1 DEF Annotates, Sound
  <2>4. code[b][p] \in Instructions(Len(range))
    BY <1>2, <1>3, RangesOfCode
  <2>5. CASE << b, p >> # at
    <3>1. code'[b][p] = code[b][p]
      BY <2>5 DEF Absorbs
    <3> DEFINE R2 == Adjacent'
               rng2 == range'
               C == Tracked
               i == code[b][p]
               before == A[b][p - 1]
               after == A[b][p]
    <3>2. /\ i \in Instructions(Len(range))
          /\ \A v \in 1 .. Len(range) : rng2[v] = Absorbed(range[v], s, d)
          /\ \A v \in 1 .. Len(range) : rng2[v] \in C => range[v] \in C
          /\ \A x, y \in C : /\ << x, y >> \in Adjacent /\ Absorbed(x, s, d) # Absorbed(y, s, d)
                             => << Absorbed(x, s, d), Absorbed(y, s, d) >> \in R2
          /\ SoundAt(before, i, after, range, C, Adjacent)
      BY <1>6, <1>7, <2>3, <2>4
    <3> HIDE DEF R2, rng2, C, i, before, after, m
    <3>3. SoundAt({ Absorbed(r, s, d) : r \in before \cap C }, i,
                  { Absorbed(r, s, d) : r \in after \cap C }, rng2, C, R2)
      BY <3>2, SoundAfterMerge
    <3> QED
      BY <2>2, <3>1, <3>3 DEF R2, rng2, C, i, before, after, m
  <2>6. CASE << b, p >> = at
    <3> DEFINE i == code[b][p]
               j == code'[b][p]
    <3>1. at[1] = b /\ at[2] = p
      BY <2>6
    <3>2. /\ i.op = "copy" /\ Destination(i) = d /\ Source(i) = s
          /\ j.src = << >> /\ j.dst = << >> /\ ~ j.both
      BY <3>1 DEF Absorbs, CopyInto
    <3>3. UsesBy(j, range') = {}
      BY <3>2 DEF UsesBy, Read, SeqSet
    <3>4. i \in Instr /\ WellFormed(i, 1 .. Len(range))
      BY <2>4 DEF Instructions
    <3>5. /\ i.src \in Seq(Nat \ {0}) /\ i.src # << >> /\ i.dst \in Seq(Nat \ {0})
          /\ Len(i.dst) = 1 /\ ~ i.both
      BY <3>2, <3>4 DEF Instr, WellFormed
    <3>6. 1 \in DOMAIN i.src /\ DOMAIN i.dst = {1}
      BY <3>5, EmptySeq, LenProperties
    <3>7. s \in UsesBy(i, range)
      BY <3>2, <3>5, <3>6 DEF UsesBy, Read, SeqSet, Source
    <3>8. \A r : r \in DefsBy(i, range) => r = d
      BY <3>2, <3>6 DEF DefsBy, SeqSet, Destination
    <3>9. ASSUME NEW r \in Tracked, r \in B[b][p] PROVE r \in B[b][p - 1]
      <4>1. PICK y \in A[b][p] \cap Tracked : r = m(y)
        BY <2>2, <3>9
      <4>2. CASE y # d
        <5>1. y \in A[b][p - 1]
          BY <2>3, <3>8, <4>1, <4>2 DEF SoundAt
        <5> QED
          BY <2>2, <4>1, <5>1
      <4>3. CASE y = d
        <5>1. r = s /\ m(s) = s
          BY <4>1, <4>3 DEF Absorbed
        <5>2. s \in A[b][p - 1]
          BY <2>3, <3>7, <3>9, <5>1 DEF SoundAt
        <5> QED
          BY <2>2, <3>9, <5>1, <5>2
      <4> QED
        BY <4>2, <4>3
    <3>10. \A E, x, y : ~ Clash(j, range', E, x, y)
      BY <3>2 DEF Clash
    <3> HIDE DEF i, j
    <3> QED
      BY <3>3, <3>9, <3>10 DEF SoundAt, j
  <2> QED
    BY <2>5, <2>6
<1>9. \A b \in DOMAIN code : \A p \in 1 .. Len(code[b]) :
        SoundAt(B[b][p - 1], code'[b][p], B[b][p], range', Tracked, Adjacent')
  BY <1>8
<1>10. ASSUME NEW b \in Visited, NEW t \in function.succ[b] \cap Visited, NEW r \in Tracked,
              r \in B[t][0]
       PROVE r \in B[b][Len(code[b])]
  <2>1. b \in DOMAIN code /\ t \in DOMAIN code
    BY <1>2, <1>3, VisitedAreBlocks
  <2>2. 0 \in 0 .. Len(code[t]) /\ Len(code[b]) \in 0 .. Len(code[b])
    BY <1>3, <2>1
  <2>3. PICK y \in A[t][0] \cap Tracked : r = m(y)
    BY <1>4, <1>10, <2>1, <2>2
  <2>4. y \in A[b][Len(code[b])]
    BY <1>1, <2>3 DEF Annotates, Flows
  <2> QED
    BY <1>4, <2>1, <2>2, <2>3, <2>4
<1>11. PICK E : E = B
  OBVIOUS
<1>12. Sound(E, code, range, Tracked, Adjacent)'
  BY <1>5, <1>9, <1>11 DEF Sound
<1>13. Flows(E, code, Tracked)'
  <2>1. Visited' = Visited
    BY <1>5, VisitedStays
  <2>2. \A b \in Visited : b \in DOMAIN code
    BY <1>2, <1>3, VisitedAreBlocks
  <2>3. \A b \in Visited' : \A t \in function'.succ[b] \cap Visited' :
          \A r \in Tracked' : r \in E[t][0] => r \in E[b][Len(code'[b])]
    BY <1>5, <1>10, <1>11, <2>1, <2>2
  <2> QED
    BY <2>3 DEF Flows
<1>14. Annotates(E)'
  BY <1>12, <1>13 DEF Annotates
<1>15. Renamed(E, A, s, d)
  BY <1>4, <1>11 DEF Renamed
<1> QED
  BY <1>14, <1>15

LEMMA MergeKeepsAnnotation ==
  ASSUME IInv, Annotated, NEW at, NEW s, NEW d, Absorbs(at, s, d), d # SP
  PROVE  Annotated'
<1>1. PICK A : Annotates(A)
  BY DEF Annotated
<1>2. \E E : Annotates(E)'
  BY <1>1, MergeRenames
<1> QED
  BY <1>2 DEF Annotated

LEMMA CopiesAfterMerge ==
  ASSUME IInv, NEW at, NEW s, NEW d, Absorbs(at, s, d), NEW e, NEW r, CopyInto(e, r)'
  PROVE  /\ e # at
         /\ \E q \in Ranges : CopyInto(e, q) /\ r = Absorbed(q, s, d)
<1> DEFINE i == code[e[1]][e[2]]
<1>1. Shape /\ function' = function
  BY DEF IInv, Absorbs
<1>2. DOMAIN code = Blocks /\ Blocks' = Blocks
  BY <1>1, CodeShape, VisitedStays
<1>3. /\ e[1] \in Blocks /\ e[2] \in 1 .. Len(code'[e[1]]) /\ e = << e[1], e[2] >>
      /\ code'[e[1]][e[2]].op = "copy" /\ Destination(code[e[1]][e[2]])' = r
  BY <1>2 DEF CopyInto
<1>4. e[2] \in 1 .. Len(code[e[1]])
  BY <1>2, <1>3 DEF Absorbs
<1>5. e # at
  BY <1>3 DEF Absorbs
<1>6. code'[e[1]][e[2]] = i
  BY <1>2, <1>3, <1>4, <1>5 DEF Absorbs
<1>7. i \in Instructions(Len(range)) /\ i.op = "copy"
  BY <1>1, <1>3, <1>4, <1>6, RangesOfCode
<1>8. i.dst \in Seq(Nat \ {0}) /\ Len(i.dst) = 1
  BY <1>7 DEF Instructions, Instr, WellFormed
<1>9. i.dst[1] \in DOMAIN range
  <2>1. 1 \in DOMAIN i.dst
    BY <1>8, LenProperties
  <2>2. DOMAIN range = 1 .. Len(range)
    BY <1>1, CodeShape
  <2> QED
    BY <1>7, <2>1, <2>2, OperandsAreVariables
<1>10. range'[i.dst[1]] = r
  BY <1>3, <1>6 DEF Destination
<1>11. r = Absorbed(range[i.dst[1]], s, d)
  BY <1>9, <1>10 DEF Absorbs
<1>12. CopyInto(e, range[i.dst[1]]) /\ range[i.dst[1]] \in Ranges
  BY <1>1, <1>3, <1>4, <1>7, RangesOfCopy DEF CopyInto, Destination
<1> QED
  BY <1>5, <1>11, <1>12

LEMMA DefinitionsAfterMerge ==
  ASSUME IInv, NEW at, NEW s, NEW d, Absorbs(at, s, d), NEW e, NEW r, Defines(e, r)'
  PROVE  /\ e # at
         /\ \E q \in Ranges : Defines(e, q) /\ r = Absorbed(q, s, d)
<1> DEFINE i == code[e[1]][e[2]]
<1>1. Shape /\ function' = function
  BY DEF IInv, Absorbs
<1>2. DOMAIN code = Blocks /\ Blocks' = Blocks
  BY <1>1, CodeShape, VisitedStays
<1>3. /\ e[1] \in Blocks /\ e[2] \in 1 .. Len(code'[e[1]]) /\ e = << e[1], e[2] >>
      /\ \E k \in DOMAIN code'[e[1]][e[2]].dst : range'[code'[e[1]][e[2]].dst[k]] = r
  BY <1>2 DEF Defines
<1>4. e[2] \in 1 .. Len(code[e[1]])
  BY <1>2, <1>3 DEF Absorbs
<1>5. e # at
  <2>1. DOMAIN << >> = {}
    OBVIOUS
  <2> QED
    BY <1>3, <2>1 DEF Absorbs
<1>6. code'[e[1]][e[2]] = i
  BY <1>2, <1>3, <1>4, <1>5 DEF Absorbs
<1>7. i \in Instructions(Len(range))
  BY <1>1, <1>3, <1>4, RangesOfCode
<1>8. PICK k \in DOMAIN i.dst : range'[i.dst[k]] = r
  BY <1>3, <1>6
<1>9. i.dst[k] \in DOMAIN range /\ range[i.dst[k]] \in Ranges
  <2>1. DOMAIN range = 1 .. Len(range)
    BY <1>1, CodeShape
  <2>2. i.dst[k] \in 1 .. Len(range)
    BY <1>7, OperandsAreVariables
  <2> QED
    BY <1>1, <2>1, <2>2, ElementOfSeq DEF Shape, RangesTyped
<1>10. r = Absorbed(range[i.dst[k]], s, d)
  BY <1>8, <1>9 DEF Absorbs
<1>11. Defines(e, range[i.dst[k]])
  BY <1>3, <1>4 DEF Defines
<1> QED
  BY <1>5, <1>9, <1>10, <1>11

(* A copy of the stack pointer is merged into it only when it is the one   *)
(* that defines its destination; and the counts add up.                    *)
LEMMA MergeKeepsCounts ==
  ASSUME IInv, assignments \in [Ranges -> Nat], pc = "coalesce", pc' = pc,
         NoCopyToStackPointer, Counted, NEW at, NEW s, NEW d, Absorbs(at, s, d)
  PROVE  d # SP /\ NoCopyToStackPointer' /\ Counted'
<1>1. /\ s \in Ranges /\ d \in Ranges /\ s # d /\ CopyInto(at, d) /\ ~ RegistersConflict(s, d)
      /\ assignments' = [assignments EXCEPT ![s] = @ + assignments[d]]
      /\ Ranges' = Ranges
  BY DEF Absorbs
<1>2. \A e : ~ CopyInto(e, SP)
  BY DEF NoCopyToStackPointer, Merging
<1>3. d # SP /\ d \in Tracked
  BY <1>1, <1>2 DEF Tracked
<1>4. \A r \in Tracked : CountsDefinitions(r)
  BY DEF Counted, Merging
<1>c. \A e, r : CopyInto(e, r) => Defines(e, r)
  BY CopyDefines DEF IInv
<1>5. \A r \in Ranges : assignments[r] \in Nat
  OBVIOUS
<1>6. s = SP => ~ (assignments[d] > 1)
  BY <1>1 DEF RegistersConflict, IInv, Shape, RangesTyped
<1>7. ASSUME NEW e, CopyInto(e, SP)' PROVE FALSE
  <2>1. PICK q \in Ranges : CopyInto(e, q) /\ SP = Absorbed(q, s, d) /\ e # at
    BY <1>7, CopiesAfterMerge
  <2>2. q = d /\ s = SP
    BY <1>2, <2>1 DEF Absorbed
  <2>3. assignments[d] >= 2
    BY <1>1, <1>c, <1>3, <1>4, <2>1, <2>2 DEF CountsDefinitions
  <2> QED
    BY <1>1, <1>5, <1>6, <2>2, <2>3
<1>8. NoCopyToStackPointer'
  BY <1>7 DEF NoCopyToStackPointer
<1>9. ASSUME NEW r \in Tracked PROVE CountsDefinitions(r)'
  <2>1. r \in Ranges /\ CountsDefinitions(r) /\ assignments'[r] \in Nat
    BY <1>1, <1>4, <1>5, <1>9 DEF Tracked
  <2>2. CASE r # s
    <3>1. assignments'[r] = assignments[r]
      BY <1>1, <2>1, <2>2
    <3>2. ASSUME NEW e, Defines(e, r)' PROVE Defines(e, r)
      <4>1. PICK q \in Ranges : Defines(e, q) /\ r = Absorbed(q, s, d)
        BY <3>2, DefinitionsAfterMerge
      <4>2. q = r
        BY <2>2, <4>1 DEF Absorbed
      <4> QED
        BY <4>1, <4>2
    <3> QED
      BY <2>1, <3>1, <3>2 DEF CountsDefinitions
  <2>3. CASE r = s
    <3>1. assignments'[r] = assignments[s] + assignments[d]
      BY <1>1, <1>5, <2>3
    <3>2. /\ CountsDefinitions(s) /\ CountsDefinitions(d)
          /\ assignments[s] \in Nat /\ assignments[d] \in Nat /\ assignments[d] >= 1
      BY <1>1, <1>c, <1>3, <1>4, <1>5, <2>1, <2>3 DEF CountsDefinitions
    <3>3. ASSUME NEW e, Defines(e, r)' PROVE Defines(e, s) \/ Defines(e, d)
      <4>1. PICK q \in Ranges : Defines(e, q) /\ r = Absorbed(q, s, d)
        BY <3>3, DefinitionsAfterMerge
      <4>2. q = s \/ q = d
        BY <2>3, <4>1 DEF Absorbed
      <4> QED
        BY <4>1, <4>2
    <3>4. ASSUME NEW e, Defines(e, r)' PROVE assignments'[r] >= 1
      BY <3>1, <3>2
    <3>5. ASSUME NEW e, NEW f, Defines(e, r)', Defines(f, r)', e # f
          PROVE assignments'[r] >= 2
      <4>1. (Defines(e, s) \/ Defines(e, d)) /\ (Defines(f, s) \/ Defines(f, d))
        BY <3>3, <3>5
      <4>2. assignments[s] >= 2 \/ assignments[d] >= 2 \/ (assignments[s] >= 1 /\ assignments[d] >= 1)
        BY <3>2, <3>5, <4>1 DEF CountsDefinitions
      <4> QED
        BY <3>1, <3>2, <4>2
    <3> QED
      BY <2>1, <3>4, <3>5 DEF CountsDefinitions
  <2> QED
    BY <2>2, <2>3
<1>10. Counted'
  <2>1. Tracked' = Tracked
    BY <1>1 DEF Tracked
  <2> QED
    BY <1>9, <2>1 DEF Counted
<1> QED
  BY <1>3, <1>8, <1>10

(* The analyses count anew. *)
LEMMA AnalyseCounts ==
  ASSUME Shape, NEW andThen, Analyse(andThen), UNCHANGED << function, code, range, reg >>
  PROVE  Counted'
<1>1. Ranges' = Ranges /\ Tracked' = Tracked /\ Blocks' = Blocks
  BY DEF Ranges, Tracked, Blocks
<1>2. \A at, r : Defines(at, r)' => Defines(at, r)
  BY <1>1 DEF Defines
<1>3. ASSUME NEW r \in Tracked PROVE CountsDefinitions(r)'
  <2>1. assignments'[r] = Mentions(r, Written)
    BY DEF Analyse, Tracked
  <2>2. /\ Mentions(r, Written) \in Nat
        /\ \A at : Defines(at, r) => Mentions(r, Written) >= 1
        /\ \A at, other : Defines(at, r) /\ Defines(other, r) /\ at # other
                            => Mentions(r, Written) >= 2
    BY MentionsCount
  <2> DEFINE n == Mentions(r, Written)
  <2>3. assignments'[r] = n /\ n \in Nat
    BY <2>1, <2>2
  <2>4. \A at : Defines(at, r) => n >= 1
    BY <2>2
  <2>5. \A at, other : Defines(at, r) /\ Defines(other, r) /\ at # other => n >= 2
    BY <2>2
  <2> HIDE DEF n
  <2> QED
    BY <1>2, <2>3, <2>4, <2>5 DEF CountsDefinitions
<1> QED
  BY <1>1, <1>3 DEF Counted

-----------------------------------------------------------------------------
(* Spilling. *)

(* Live ranges outside C may take over from each other. *)
Agree(n, rng, rng2, C) ==
  \A v \in 1 .. n : rng2[v] = rng[v] \/ (rng[v] \notin C /\ rng2[v] \notin C)

LEMMA SoundUnder ==
  ASSUME NEW n, NEW i \in Instructions(n), NEW rng, NEW rng2, NEW C, NEW R, NEW R2,
         Agree(n, rng, rng2, C),
         \A x, y \in C : << x, y >> \in R => << x, y >> \in R2,
         NEW before, NEW after, SoundAt(before, i, after, rng, C, R)
  PROVE  SoundAt(before, i, after, rng2, C, R2)
<1>1. i \in Instr /\ WellFormed(i, 1 .. n)
  BY DEF Instructions
<1>2. i.dst \in Seq(Nat \ {0}) /\ DOMAIN i.dst = 1 .. Len(i.dst) /\ Len(i.dst) \in Nat
  BY <1>1, LenProperties DEF Instr
<1>3. /\ SeqSet(Read(i)) \subseteq 1 .. n /\ SeqSet(i.dst) \subseteq 1 .. n
      /\ \A k \in DOMAIN i.dst : i.dst[k] \in 1 .. n
  BY OperandsAreVariables
<1>4. ASSUME NEW r \in C, r \in UsesBy(i, rng2) PROVE r \in UsesBy(i, rng)
  <2>1. PICK v \in SeqSet(Read(i)) : r = rng2[v]
    BY <1>4 DEF UsesBy
  <2>2. rng[v] = r
    BY <1>3, <2>1 DEF Agree
  <2> QED
    BY <2>2 DEF UsesBy
<1>5. ASSUME NEW r \in C, r \in DefsBy(i, rng) PROVE r \in DefsBy(i, rng2)
  <2>1. PICK v \in SeqSet(i.dst) : r = rng[v]
    BY <1>5 DEF DefsBy
  <2>2. rng2[v] = r
    BY <1>3, <2>1 DEF Agree
  <2> QED
    BY <2>2 DEF DefsBy
<1>6. ASSUME NEW x \in C, NEW y \in C, Clash(i, rng2, after, x, y) PROVE Clash(i, rng, after, x, y)
  <2>1. i.dst # << >> /\ 1 \in DOMAIN i.dst
    BY <1>2, <1>6 DEF Clash
  <2>2. i.dst[1] \in 1 .. n
    BY <1>3, <2>1
  <2>3. Len(i.dst) = 2 => i.dst[2] \in 1 .. n
    BY <1>2, <1>3
  <2>4. \A z \in C : z = rng2[i.dst[1]] <=> z = rng[i.dst[1]]
    BY <2>2 DEF Agree
  <2>5. Len(i.dst) = 2 => \A z \in C : z = rng2[i.dst[2]] <=> z = rng[i.dst[2]]
    BY <2>3 DEF Agree
  <2> QED
    BY <1>6, <2>4, <2>5 DEF Clash
<1> QED
  BY <1>4, <1>5, <1>6 DEF SoundAt

(* One that mentions nothing of C is sound wherever it is put. *)
Silent(i, rng, C) == (\A r \in C : r \notin UsesBy(i, rng)) /\ (\A k \in DOMAIN i.dst : rng[i.dst[k]] \notin C)

LEMMA SilentIsSound ==
  ASSUME NEW n, NEW i \in Instructions(n), NEW rng, NEW C, NEW R, NEW at, Silent(i, rng, C)
  PROVE  SoundAt(at, i, at, rng, C, R)
<1>1. i \in Instr
  BY DEF Instructions
<1>2. i.dst \in Seq(Nat \ {0}) /\ DOMAIN i.dst = 1 .. Len(i.dst) /\ Len(i.dst) \in Nat
  BY <1>1, LenProperties DEF Instr
<1>3. ASSUME NEW x \in C, NEW y \in C PROVE ~ Clash(i, rng, at, x, y)
  <2>1. i.dst # << >> => 1 \in DOMAIN i.dst
    BY <1>2
  <2>2. Len(i.dst) = 2 => 2 \in DOMAIN i.dst
    BY <1>2
  <2> QED
    BY <2>1, <2>2 DEF Clash, Silent
<1> QED
  BY <1>3 DEF SoundAt, Silent

-----------------------------------------------------------------------------
(* The code after a replacement, position by position. *)
Spliced(c, b, k, new) ==
  /\ DOMAIN c = DOMAIN code /\ \A a \in DOMAIN code : a # b => c[a] = code[a]
  /\ Len(c[b]) = Len(code[b]) - 1 + Len(new)
  /\ \A p \in 1 .. k - 1 : c[b][p] = code[b][p]
  /\ \A j \in 1 .. Len(new) : c[b][k - 1 + j] = new[j]
  /\ \A p \in k + Len(new) .. Len(code[b]) - 1 + Len(new) : c[b][p] = code[b][p - Len(new) + 1]

LEMMA ReplaceSplices ==
  ASSUME Shape, Instruction(code, cursor), cursor \in (Nat \ {0}) \X (Nat \ {0}),
         NEW n \in Nat, Len(range) <= n, NEW new \in Seq(Instructions(n))
  PROVE  Spliced(Replace(new), cursor[1], cursor[2], new)
<1> DEFINE S == Instructions(n)
           b == cursor[1]
           k == cursor[2]
           old == code[b]
           N == Len(old)
           left == SubSeq(old, 1, k - 1)
           right == SubSeq(old, k + 1, N)
           L == Len(new)
<1>1. code \in Seq(Seq(S)) /\ b \in 1 .. Len(code)
  BY CodeGrows, CodeShape DEF Instruction
<1>2. old \in Seq(S) /\ N \in Nat /\ k \in 1 .. N /\ DOMAIN old = 1 .. N
  BY <1>1, ElementOfSeq, LenProperties DEF Instruction
<1>3. Replace(new) = [code EXCEPT ![b] = left \o new \o right]
  BY DEF Replace
<1>4. new \in Seq(S) /\ L \in Nat
  OBVIOUS
<1> HIDE DEF S, b, k, N, L
<1>5. \A i \in 1 .. N : old[i] \in S
  BY <1>2, ElementOfSeq DEF N
<1> HIDE DEF old
<1>6. left \in Seq(S) /\ Len(left) = k - 1 /\ \A i \in 1 .. k - 1 : left[i] = old[i]
  <2>1. k - 1 \in Int /\ \A i \in 1 .. k - 1 : old[i] \in S
    BY <1>2, <1>5
  <2>2. /\ left \in Seq(S) /\ Len(left) = (IF 1 <= k - 1 THEN (k - 1) - 1 + 1 ELSE 0)
        /\ \A i \in 1 .. (k - 1) - 1 + 1 : left[i] = old[1 + i - 1]
    BY <2>1, SubSeqProperties
  <2> HIDE DEF left
  <2>3. \A i \in 1 .. k - 1 : i \in 1 .. (k - 1) - 1 + 1 /\ 1 + i - 1 = i
    BY <1>2
  <2> QED
    BY <1>2, <2>2, <2>3
<1>7. right \in Seq(S) /\ Len(right) = N - k /\ \A i \in 1 .. N - k : right[i] = old[k + i]
  <2>1. k + 1 \in Int /\ N \in Int /\ \A i \in k + 1 .. N : old[i] \in S
    BY <1>2, <1>5
  <2>2. /\ right \in Seq(S) /\ Len(right) = (IF k + 1 <= N THEN N - (k + 1) + 1 ELSE 0)
        /\ \A i \in 1 .. N - (k + 1) + 1 : right[i] = old[(k + 1) + i - 1]
    BY <2>1, SubSeqProperties
  <2> HIDE DEF right
  <2>3. \A i \in 1 .. N - k : i \in 1 .. N - (k + 1) + 1 /\ (k + 1) + i - 1 = k + i
    BY <1>2
  <2> QED
    BY <1>2, <2>2, <2>3
<1> HIDE DEF left, right
<1> DEFINE ln == left \o new
           whole == ln \o right
<1>8. /\ ln \in Seq(S) /\ Len(ln) = k - 1 + L
      /\ \A i \in 1 .. k - 1 + L : ln[i] = IF i <= k - 1 THEN left[i] ELSE new[i - (k - 1)]
  <2>1. left \in Seq(S) /\ new \in Seq(S)
    BY <1>4, <1>6
  <2>2. /\ left \o new \in Seq(S) /\ Len(left \o new) = Len(left) + Len(new)
        /\ \A i \in 1 .. Len(left) + Len(new) :
             (left \o new)[i] = IF i <= Len(left) THEN left[i] ELSE new[i - Len(left)]
    BY <2>1, ConcatProperties
  <2> QED
    BY <1>6, <2>2 DEF L
<1> HIDE DEF ln
<1>9. /\ whole \in Seq(S) /\ Len(whole) = k - 1 + L + (N - k)
      /\ \A i \in 1 .. k - 1 + L + (N - k) :
           whole[i] = IF i <= k - 1 + L THEN ln[i] ELSE right[i - (k - 1 + L)]
  <2>1. ln \in Seq(S) /\ right \in Seq(S)
    BY <1>7, <1>8
  <2>2. /\ ln \o right \in Seq(S) /\ Len(ln \o right) = Len(ln) + Len(right)
        /\ \A i \in 1 .. Len(ln) + Len(right) :
             (ln \o right)[i] = IF i <= Len(ln) THEN ln[i] ELSE right[i - Len(ln)]
    BY <2>1, ConcatProperties
  <2> QED
    BY <1>7, <1>8, <2>2
<1>10. Replace(new) = [code EXCEPT ![b] = whole]
  BY <1>3 DEF ln
<1> HIDE DEF whole
<1>11. Len(whole) = N - 1 + L
  BY <1>2, <1>4, <1>9
<1>12. ASSUME NEW p \in 1 .. k - 1 PROVE whole[p] = old[p]
  <2>1. p \in 1 .. k - 1 + L + (N - k) /\ p <= k - 1 + L /\ p \in 1 .. k - 1 + L /\ p <= k - 1
    BY <1>2, <1>4
  <2> QED
    BY <1>6, <1>8, <1>9, <2>1
<1>13. ASSUME NEW j \in 1 .. L PROVE whole[k - 1 + j] = new[j]
  <2> DEFINE p == k - 1 + j
  <2>1. p \in 1 .. k - 1 + L + (N - k) /\ p <= k - 1 + L /\ p \in 1 .. k - 1 + L /\ ~ (p <= k - 1)
        /\ p - (k - 1) = j
    BY <1>2, <1>4
  <2> HIDE DEF p
  <2>2. whole[p] = new[j]
    BY <1>8, <1>9, <2>1
  <2> QED
    BY <2>2 DEF p
<1>14. ASSUME NEW p \in k + L .. N - 1 + L PROVE whole[p] = old[p - L + 1]
  <2>1. p \in 1 .. k - 1 + L + (N - k) /\ ~ (p <= k - 1 + L)
        /\ p - (k - 1 + L) \in 1 .. N - k /\ k + (p - (k - 1 + L)) = p - L + 1
    BY <1>2, <1>4
  <2>2. whole[p] = right[p - (k - 1 + L)]
    BY <1>9, <2>1
  <2> QED
    BY <1>7, <2>1, <2>2
<1>15. /\ DOMAIN Replace(new) = DOMAIN code /\ Replace(new)[b] = whole
       /\ \A a \in DOMAIN code : a # b => Replace(new)[a] = code[a]
  <2>1. b \in DOMAIN code
    BY <1>1
  <2> QED
    BY <1>10, <2>1
<1> QED
  BY <1>11, <1>12, <1>13, <1>14, <1>15 DEF Spliced, b, k, N, L, old

(* The point of the old block that a point of the new one stands for.      *)
Before(p, k, k0, L) ==
  IF p < k THEN p ELSE IF p < k - 1 + k0 THEN k - 1 ELSE IF p <= k - 1 + L THEN k ELSE p - L + 1

(* B follows A when it is sound for the new code and agrees at both ends   *)
(* of every block.                                                         *)
Follows(B, A, c, rng2, C, R2) ==
  /\ Sound(B, c, rng2, C, R2)
  /\ \A a \in Blocks : B[a][0] = A[a][0] /\ B[a][Len(c[a])] = A[a][Len(code[a])]
IsFollowed(A, c, rng2, C, R2) == \E B : Follows(B, A, c, rng2, C, R2)

(* An annotation follows the code when the instruction at the cursor gives *)
(* way to one that is as sound, among others that mention nothing of C.    *)
LEMMA SpliceKeepsSound ==
  ASSUME Shape, NEW b \in Blocks, NEW k \in 1 .. Len(code[b]),
         NEW n, Len(range) <= n, n \in Nat, NEW new \in Seq(Instructions(n)), NEW c, Spliced(c, b, k, new),
         NEW rng2, NEW C, NEW R, NEW R2, NEW A, NEW k0 \in 1 .. Len(new),
         Agree(Len(range), range, rng2, C),
         \A x, y \in C : << x, y >> \in R => << x, y >> \in R2,
         \A j \in 1 .. Len(new) : j # k0 => Silent(new[j], rng2, C),
         Sound(A, code, range, C, R),
         SoundAt(A[b][k - 1], new[k0], A[b][k], rng2, C, R2)
  PROVE  IsFollowed(A, c, rng2, C, R2)
<1> DEFINE N == Len(code[b])
           L == Len(new)
           M == N - 1 + L
           f(p) == Before(p, k, k0, L)
           B == [a \in DOMAIN code |-> IF a = b THEN [p \in 0 .. M |-> A[b][f(p)]] ELSE A[a]]
<1>1. /\ DOMAIN code = Blocks /\ N \in Nat /\ L \in Nat /\ k0 \in 1 .. L /\ k \in 1 .. N
      /\ \A a \in Blocks : Len(code[a]) \in Nat
      /\ \A a \in Blocks : \A p \in 1 .. Len(code[a]) : code[a][p] \in Instructions(Len(range))
      /\ \A j \in 1 .. L : new[j] \in Instructions(n)
  BY CodeShape, RangesOfCode, ElementOfSeq, LenProperties
<1>2. /\ DOMAIN c = DOMAIN code /\ \A a \in DOMAIN code : a # b => c[a] = code[a]
      /\ Len(c[b]) = M
      /\ \A p \in 1 .. k - 1 : c[b][p] = code[b][p]
      /\ \A j \in 1 .. L : c[b][k - 1 + j] = new[j]
      /\ \A p \in k + L .. M : c[b][p] = code[b][p - L + 1]
  BY DEF Spliced
<1>3. \A p \in 0 .. M : B[b][p] = A[b][f(p)]
  BY <1>1
<1>4. \A a \in Blocks : a # b => B[a] = A[a]
  BY <1>1
<1>5. \A a \in Blocks : \A p \in 1 .. Len(code[a]) :
        /\ SoundAt(A[a][p - 1], code[a][p], A[a][p], range, C, R)
        /\ SoundAt(A[a][p - 1], code[a][p], A[a][p], rng2, C, R2)
  <2> TAKE a \in Blocks
  <2> TAKE p \in 1 .. Len(code[a])
  <2>1. SoundAt(A[a][p - 1], code[a][p], A[a][p], range, C, R)
    BY <1>1 DEF Sound
  <2>2. code[a][p] \in Instructions(Len(range))
    BY <1>1
  <2> DEFINE i == code[a][p]
             before == A[a][p - 1]
             after == A[a][p]
             m == Len(range)
  <2>3. i \in Instructions(m) /\ SoundAt(before, i, after, range, C, R) /\ Agree(m, range, rng2, C)
    BY <2>1, <2>2
  <2> HIDE DEF i, before, after, m
  <2>4. SoundAt(before, i, after, rng2, C, R2)
    BY <2>3, SoundUnder
  <2> QED
    BY <2>1, <2>4 DEF i, before, after
<1> HIDE DEF B, N, L
<1>6. ASSUME NEW p \in 1 .. M PROVE SoundAt(B[b][p - 1], c[b][p], B[b][p], rng2, C, R2)
  <2>1. p \in 0 .. M /\ p - 1 \in 0 .. M
    BY <1>1
  <2>2. B[b][p] = A[b][f(p)] /\ B[b][p - 1] = A[b][f(p - 1)]
    BY <1>3, <2>1
  <2>3. CASE p < k
    <3>1. f(p) = p /\ f(p - 1) = p - 1 /\ p \in 1 .. k - 1 /\ p \in 1 .. N
      BY <1>1, <2>3 DEF Before
    <3>2. c[b][p] = code[b][p] /\ SoundAt(A[b][p - 1], code[b][p], A[b][p], rng2, C, R2)
      BY <1>2, <1>5, <3>1 DEF N
    <3> QED
      BY <2>2, <3>1, <3>2
  <2>4. CASE k <= p /\ p <= k - 1 + L
    <3> DEFINE j == p - k + 1
    <3>1. j \in 1 .. L /\ k - 1 + j = p /\ j \in Int
      BY <1>1, <2>4
    <3>2. c[b][p] = new[j]
      BY <1>2, <3>1
    <3>3. CASE j = k0
      <4>1. f(p) = k /\ f(p - 1) = k - 1
        BY <1>1, <2>4, <3>3 DEF Before
      <4>2. SoundAt(A[b][k - 1], new[k0], A[b][k], rng2, C, R2)
        OBVIOUS
      <4> HIDE DEF j
      <4> QED
        BY <2>2, <3>2, <3>3, <4>1, <4>2
    <3>4. CASE j # k0
      <4>1. f(p) = f(p - 1)
        <5>1. CASE j < k0
          <6>1. f(p) = k - 1
            BY <1>1, <2>4, <5>1 DEF Before
          <6>2. f(p - 1) = k - 1
            BY <1>1, <2>4, <5>1 DEF Before
          <6> QED
            BY <6>1, <6>2
        <5>2. CASE j > k0
          <6>1. f(p) = k
            BY <1>1, <2>4, <5>2 DEF Before
          <6>2. f(p - 1) = k
            BY <1>1, <2>4, <5>2 DEF Before
          <6> QED
            BY <6>1, <6>2
        <5> QED
          BY <1>1, <3>1, <3>4, <5>1, <5>2
      <4> DEFINE at == A[b][f(p)]
                 i == new[j]
      <4>2. i \in Instructions(n) /\ Silent(i, rng2, C)
        BY <1>1, <3>1, <3>4 DEF L
      <4> HIDE DEF at, i
      <4>3. SoundAt(at, i, at, rng2, C, R2)
        BY <4>2, SilentIsSound
      <4> QED
        BY <2>2, <3>2, <4>1, <4>3 DEF at, i
    <3> QED
      BY <3>3, <3>4
  <2>5. CASE p > k - 1 + L
    <3> DEFINE q == p - L + 1
    <3>1. p \in k + L .. M /\ q \in 1 .. N /\ f(p) = q
      <4>1. p \in Int /\ p <= M /\ k + L <= p /\ q <= N /\ k + 1 <= q /\ q \in Int
        BY <1>1, <2>5
      <4>2. ~ (p < k) /\ ~ (p < k - 1 + k0) /\ ~ (p <= k - 1 + L)
        BY <1>1, <2>5
      <4>3. f(p) = q
        BY <4>2 DEF Before
      <4> HIDE DEF q, f
      <4> QED
        BY <1>1, <4>1, <4>3
    <3>2. f(p - 1) = q - 1
      BY <1>1, <2>5 DEF Before
    <3>3. c[b][p] = code[b][q] /\ SoundAt(A[b][q - 1], code[b][q], A[b][q], rng2, C, R2)
      <4> HIDE DEF M
      <4>1. c[b][p] = code[b][q]
        BY <1>2, <3>1
      <4>2. q \in 1 .. Len(code[b])
        BY <3>1 DEF N
      <4> HIDE DEF q
      <4>3. SoundAt(A[b][q - 1], code[b][q], A[b][q], rng2, C, R2)
        BY <1>5, <4>2
      <4> QED
        BY <4>1, <4>3
    <3> HIDE DEF q
    <3> QED
      BY <2>2, <3>1, <3>2, <3>3
  <2> QED
    BY <1>1, <2>3, <2>4, <2>5
<1>7. Sound(B, c, rng2, C, R2)
  <2>1. ASSUME NEW a \in Blocks, NEW p \in 1 .. Len(c[a])
        PROVE SoundAt(B[a][p - 1], c[a][p], B[a][p], rng2, C, R2)
    <3>1. CASE a = b
      BY <1>2, <1>6, <3>1
    <3>2. CASE a # b
      <4>1. c[a] = code[a] /\ B[a] = A[a]
        BY <1>1, <1>2, <1>4, <3>2
      <4> QED
        BY <1>5, <4>1
    <3> QED
      BY <3>1, <3>2
  <2> QED
    BY <1>1, <1>2, <2>1 DEF Sound
<1>8. ASSUME NEW a \in Blocks
      PROVE B[a][0] = A[a][0] /\ B[a][Len(c[a])] = A[a][Len(code[a])]
  <2>1. CASE a = b
    <3>1. 0 \in 0 .. M /\ M \in 0 .. M /\ f(0) = 0
      BY <1>1 DEF Before
    <3>2. f(M) = N
      BY <1>1 DEF Before
    <3>3. B[b][0] = A[b][0] /\ B[b][M] = A[b][N]
      <4> HIDE DEF M, f
      <4> QED
        BY <1>3, <3>1, <3>2
    <3> QED
      BY <1>2, <2>1, <3>3 DEF N
  <2>2. CASE a # b
    BY <1>1, <1>2, <1>4, <2>2
  <2> QED
    BY <2>1, <2>2
<1> QED
  BY <1>7, <1>8 DEF Follows, IsFollowed

ColorsAnnotated == \E A : ColorsApart(A)

LEMMA SpillKeepsColors ==
  ASSUME IInv, pc = "spill", ~ AtEnd, ColorsAnnotated,
         NEW n \in Nat, Len(range) <= n, NEW new \in Seq(Instructions(n)), NEW k0 \in 1 .. Len(new),
         code' = Replace(new), function' = function,
         Colored' = Colored, Ranges \subseteq Ranges', \A x \in Colored : reg'[x] = reg[x],
         Agree(Len(range), range, range', Colored),
         \A j \in 1 .. Len(new) : j # k0 => Silent(new[j], range', Colored),
         \A before, after : SoundAt(before, At, after, range, Colored, Different)
                              => SoundAt(before, new[k0], after, range', Colored, Different')
  PROVE  ColorsAnnotated'
<1> DEFINE b == cursor[1]
           k == cursor[2]
<1>1. PICK A : ColorsApart(A)
  BY DEF ColorsAnnotated
<1>2. Shape
  BY DEF IInv
<1>3. Instruction(code, cursor) /\ cursor \in (Nat \ {0}) \X (Nat \ {0}) /\ b \in Blocks
  BY SpillerIsAtInstruction
<1>4. k \in 1 .. Len(code[b]) /\ DOMAIN code = Blocks
  BY <1>2, <1>3, CodeShape DEF Instruction
<1>5. Spliced(code', b, k, new)
  BY <1>2, <1>3, ReplaceSplices
<1>6. Sound(A, code, range, Colored, Different) /\ Flows(A, code, Colored)
  BY <1>1 DEF ColorsApart
<1>7. SoundAt(A[b][k - 1], code[b][k], A[b][k], range, Colored, Different)
  BY <1>3, <1>4, <1>6 DEF Sound
<1>8. SoundAt(A[b][k - 1], new[k0], A[b][k], range', Colored, Different')
  BY <1>7 DEF At
<1>9. \A x, y \in Colored : << x, y >> \in Different => << x, y >> \in Different'
  <2> SUFFICES ASSUME NEW x \in Colored, NEW y \in Colored, << x, y >> \in Different
               PROVE << x, y >> \in Different'
    OBVIOUS
  <2>1. x \in Ranges' /\ y \in Ranges' /\ reg'[x] = reg[x] /\ reg'[y] = reg[y] /\ reg[x] # reg[y]
    BY DEF Colored, Different
  <2> QED
    BY <2>1 DEF Different
<1>10. IsFollowed(A, code', range', Colored, Different')
  <2> DEFINE c == code'
             rng2 == range'
             R2 == Different'
             C == Colored
  <2>1. /\ Spliced(c, b, k, new) /\ Agree(Len(range), range, rng2, C)
        /\ \A x, y \in C : << x, y >> \in Different => << x, y >> \in R2
        /\ \A j \in 1 .. Len(new) : j # k0 => Silent(new[j], rng2, C)
        /\ Sound(A, code, range, C, Different)
        /\ SoundAt(A[b][k - 1], new[k0], A[b][k], rng2, C, R2)
    BY <1>5, <1>6, <1>8, <1>9
  <2>2. b \in Blocks /\ k \in 1 .. Len(code[b])
    BY <1>3, <1>4
  <2> HIDE DEF c, rng2, R2, C, b, k
  <2>3. IsFollowed(A, c, rng2, C, R2)
    BY <1>2, <2>1, <2>2, SpliceKeepsSound
  <2> QED
    BY <2>3 DEF c, rng2, R2, C
<1>11. PICK B : /\ Sound(B, code', range', Colored, Different')
                /\ \A a \in Blocks : /\ B[a][0] = A[a][0]
                                     /\ B[a][Len(code'[a])] = A[a][Len(code[a])]
  BY <1>10 DEF IsFollowed, Follows
<1>12. Sound(B, code, range, Colored, Different)'
  BY <1>11 DEF Sound
<1>13. Flows(B, code, Colored)'
  <2>1. Visited' = Visited /\ Visited \subseteq Blocks
    BY <1>2, VisitedStays, VisitedAreBlocks
  <2>2. \A v \in Visited : \A s \in function.succ[v] \cap Visited :
          \A r \in Colored : r \in B[s][0] => r \in B[v][Len(code'[v])]
    BY <1>6, <1>11, <2>1 DEF Flows
  <2>3. \A v \in Visited' : \A s \in function'.succ[v] \cap Visited' :
          \A r \in Colored' : r \in B[s][0] => r \in B[v][Len(code'[v])]
    BY <2>1, <2>2
  <2> QED
    BY <2>3 DEF Flows
<1>14. ColorsApart(B)'
  BY <1>12, <1>13 DEF ColorsApart
<1> QED
  BY <1>14 DEF ColorsAnnotated

-----------------------------------------------------------------------------
(* The victim has no register, and what the spiller puts around an         *)
(* instruction mentions only the victim and what stands in for it.         *)

LEMMA UntouchedColors ==
  ASSUME UNCHANGED << range, reg >>
  PROVE  /\ Colored' = Colored /\ Ranges' = Ranges /\ Agree(Len(range), range, range', Colored)
         /\ \A x \in Colored : reg'[x] = reg[x]
         /\ Different' = Different
  BY DEF Colored, Ranges, Agree, Different

LEMMA SpillAloneKeepsColors ==
  ASSUME IInv, pc = "spill", ~ AtEnd, ColorsAnnotated, UNCHANGED << range, reg, function >>,
         NEW i \in Instructions(Len(range)), code' = Replace(<< i >>),
         \A before, after : SoundAt(before, At, after, range, Colored, Different)
                              => SoundAt(before, i, after, range, Colored, Different)
  PROVE  ColorsAnnotated'
<1> DEFINE new == << i >>
<1>1. Len(range) \in Nat /\ Len(range) <= Len(range)
  BY CodeShape DEF IInv
<1>2. new \in Seq(Instructions(Len(range))) /\ Len(new) = 1 /\ new[1] = i /\ code' = Replace(new)
  OBVIOUS
<1> HIDE DEF new
<1>3. 1 \in 1 .. Len(new) /\ \A j \in 1 .. Len(new) : j # 1 => Silent(new[j], range', Colored)
  BY <1>2
<1>4. \A before, after : SoundAt(before, At, after, range, Colored, Different)
                           => SoundAt(before, new[1], after, range', Colored, Different')
  BY <1>2, UntouchedColors
<1>5. /\ Colored' = Colored /\ Ranges \subseteq Ranges' /\ Agree(Len(range), range, range', Colored)
      /\ \A x \in Colored : reg'[x] = reg[x]
  BY UntouchedColors
<1> QED
  BY <1>1, <1>2, <1>3, <1>4, <1>5, SpillKeepsColors

LEMMA SpillCopyKeepsColors ==
  ASSUME IInv, ColorsAnnotated, SpillCopy
  PROVE  ColorsAnnotated'
<1> DEFINE i == [At EXCEPT !.op = "load", !.src = << >>, !.slot = slots]
<1>1. At \in Instructions(Len(range)) /\ At.op = "copy" /\ slots \in Nat
      /\ pc = "spill" /\ ~ AtEnd /\ Len(range) \in Nat
  BY SpillerIsAtInstruction, CodeShape DEF SpillCopy, SpilledCopy, IInv, Shape, CodeTyped
<1>2. At \in Instr /\ WellFormed(At, 1 .. Len(range)) /\ ~ At.both
  BY <1>1 DEF Instructions, WellFormed
<1>3. i.src = << >> /\ i.dst = At.dst /\ i.op = "load" /\ i.both = At.both
  BY <1>2 DEF Instr
<1>4. i \in Instructions(Len(range))
  <2>1. << >> \in Seq(Nat \ {0}) /\ "load" \in Op /\ SeqSet(<< >>) = {}
    BY EmptySeq DEF Op, SeqSet
  <2>2. i \in Instr
    BY <1>1, <1>2, <2>1 DEF Instr
  <2> HIDE DEF i
  <2> QED
    BY <1>2, <1>3, <2>1, <2>2 DEF Instructions, WellFormed
<1>5. code' = Replace(<< i >>) /\ UNCHANGED << range, reg, function >>
  BY DEF SpillCopy, Spilling
<1> HIDE DEF i
<1>6. ASSUME NEW before, NEW after, SoundAt(before, At, after, range, Colored, Different)
      PROVE SoundAt(before, i, after, range, Colored, Different)
  <2>1. UsesBy(i, range) = {}
    BY <1>2, <1>3 DEF UsesBy, Read, SeqSet
  <2>2. DefsBy(i, range) = DefsBy(At, range)
    BY <1>3 DEF DefsBy
  <2>3. \A x, y : Clash(i, range, after, x, y) => Clash(At, range, after, x, y)
    BY <1>3 DEF Clash
  <2> QED
    BY <1>6, <2>1, <2>2, <2>3 DEF SoundAt
<1> QED
  BY <1>1, <1>4, <1>5, <1>6, SpillAloneKeepsColors

LEMMA SpillConstKeepsColors ==
  ASSUME IInv, ColorsAnnotated, SpillConst, reg[victim] = NoReg
  PROVE  ColorsAnnotated'
<1> DEFINE i == [At EXCEPT !.op = "constStore", !.dst = << >>, !.slot = slots]
<1>1. At \in Instructions(Len(range)) /\ At.op = "const" /\ slots \in Nat
      /\ pc = "spill" /\ ~ AtEnd /\ Len(range) \in Nat /\ Destination(At) = victim
  BY SpillerIsAtInstruction, CodeShape DEF SpillConst, SpilledConst, IInv, Shape, CodeTyped
<1>2. At \in Instr /\ WellFormed(At, 1 .. Len(range)) /\ ~ At.both /\ Len(At.dst) = 1
  BY <1>1 DEF Instructions, WellFormed
<1>3. i.src = At.src /\ i.dst = << >> /\ i.op = "constStore" /\ i.both = At.both
  BY <1>2 DEF Instr
<1>4. i \in Instructions(Len(range))
  <2>1. << >> \in Seq(Nat \ {0}) /\ "constStore" \in Op /\ SeqSet(<< >>) = {} /\ Len(<< >>) = 0
    BY EmptySeq DEF Op, SeqSet
  <2>2. i \in Instr
    BY <1>1, <1>2, <2>1 DEF Instr
  <2> HIDE DEF i
  <2> QED
    BY <1>2, <1>3, <2>1, <2>2 DEF Instructions, WellFormed
<1>5. code' = Replace(<< i >>) /\ UNCHANGED << range, reg, function >>
  BY DEF SpillConst, Spilling
<1> HIDE DEF i
<1>6. ASSUME NEW before, NEW after, SoundAt(before, At, after, range, Colored, Different)
      PROVE SoundAt(before, i, after, range, Colored, Different)
  <2>1. UsesBy(i, range) = UsesBy(At, range)
    BY <1>2, <1>3 DEF UsesBy, Read
  <2>2. \A r \in Colored : r \notin DefsBy(At, range)
    <3>1. DOMAIN At.dst = {1}
      BY <1>2, LenProperties DEF Instr
    <3>2. \A r : r \in DefsBy(At, range) => r = victim
      BY <1>1, <3>1 DEF DefsBy, SeqSet, Destination
    <3> QED
      BY <3>2 DEF Colored
  <2>3. \A x, y : ~ Clash(i, range, after, x, y)
    BY <1>3 DEF Clash
  <2> QED
    BY <1>6, <2>1, <2>2, <2>3 DEF SoundAt
<1> QED
  BY <1>1, <1>4, <1>5, <1>6, SpillAloneKeepsColors

LEMMA AccessesAreSilent ==
  ASSUME NEW v, NEW rng, NEW C, rng[v] \notin C
  PROVE  Silent(Load(v), rng, C) /\ Silent(Store(v), rng, C)
<1>1. Load(v).src = << >> /\ Load(v).dst = << v >> /\ ~ Load(v).both
      /\ Store(v).src = << v >> /\ Store(v).dst = << >> /\ ~ Store(v).both
  BY DEF Load, Store
<1>2. DOMAIN << >> = {} /\ DOMAIN << v >> = {1} /\ << v >>[1] = v
  OBVIOUS
<1>3. SeqSet(Read(Load(v))) = {} /\ SeqSet(Read(Store(v))) = {v}
  BY <1>1, <1>2 DEF Read, SeqSet
<1> QED
  BY <1>1, <1>2, <1>3 DEF Silent, UsesBy

LEMMA SpillOperandsKeepsColors ==
  ASSUME IInv, ColorsAnnotated, SpillOperands, reg[victim] = NoReg
  PROVE  ColorsAnnotated'
<1> DEFINE read == { v \in SeqSet(Read(At)) : range[v] = victim }
           new == Len(reg) + 1
           dummy == Len(range) + 1
           loaded == read # {}
           range1 == [v \in DOMAIN range |-> IF v \in read THEN new ELSE range[v]]
           stored == { k \in DOMAIN At.dst : range1[At.dst[k]] \in {victim, new} }
           before == IF loaded THEN << Load(dummy) >> ELSE << >>
           pick(k) == IF Cardinality(stored) = 2 THEN 3 - k ELSE Min(stored)
           after == [k \in 1 .. Cardinality(stored) |-> Store(At.dst[pick(k)])]
           n == IF loaded THEN dummy ELSE Len(range)
<1>1. /\ Shape /\ pc = "spill" /\ ~ AtEnd /\ slots \in Nat
      /\ At \in Instructions(Len(range))
      /\ Len(range) \in Nat /\ Len(reg) \in Nat /\ Ranges = 1 .. Len(reg)
      /\ DOMAIN range = 1 .. Len(range)
  BY SpillerIsAtInstruction, CodeShape DEF IInv, Shape, CodeTyped, SpillOperands
<1>2. /\ code' = Replace(before \o << At >> \o after)
      /\ loaded => range' = Append(range1, new) /\ reg' = Append(reg, NoReg)
      /\ ~ loaded => UNCHANGED << range, reg >>
      /\ function' = function
  BY DEF SpillOperands, AddLiveRange
<1>3. /\ At.dst \in Seq(Nat \ {0}) /\ DOMAIN At.dst = 1 .. Len(At.dst) /\ Len(At.dst) \in Nat
      /\ Len(At.dst) <= 2
      /\ \A k \in DOMAIN At.dst : At.dst[k] \in 1 .. Len(range)
  BY <1>1, OperandsAreVariables, LenProperties DEF Instructions, Instr, WellFormed
<1>4. stored \subseteq 1 .. Len(At.dst) /\ IsFiniteSet(stored)
      /\ Cardinality(stored) \in Nat /\ Cardinality(stored) <= Len(At.dst)
  <2>1. stored \subseteq 1 .. Len(At.dst)
    BY <1>3
  <2>2. IsFiniteSet(1 .. Len(At.dst)) /\ Cardinality(1 .. Len(At.dst)) = Len(At.dst)
    BY <1>3, FS_Interval
  <2> HIDE DEF stored
  <2> QED
    BY <2>1, <2>2, FS_Subset, FS_CardinalityType
<1>5. n \in Nat /\ Len(range) <= n /\ (loaded => dummy \in 1 .. n)
  BY <1>1
(* Every store is of a destination that is spilled. *)
<1>6. ASSUME NEW k \in 1 .. Cardinality(stored)
      PROVE pick(k) \in stored /\ At.dst[pick(k)] \in 1 .. Len(range)
  <2> HIDE DEF stored
  <2>1. stored # {}
    BY <1>4, FS_EmptySet
  <2>2. pick(k) \in stored
    <3>1. CASE Cardinality(stored) = 2
      <4>1. stored \subseteq {1, 2}
        BY <1>3, <1>4
      <4>2. ASSUME NEW e \in {1, 2} PROVE e \in stored
        <5> SUFFICES ASSUME e \notin stored PROVE FALSE
          OBVIOUS
        <5> DEFINE f == IF e = 1 THEN 2 ELSE 1
        <5>1. stored \subseteq {f}
          BY <4>1
        <5> HIDE DEF f
        <5>2. IsFiniteSet({f}) /\ Cardinality({f}) = 1
          BY FS_Singleton
        <5>3. Cardinality(stored) <= 1
          BY <5>1, <5>2, FS_Subset
        <5> QED
          BY <3>1, <5>3
      <4>3. 3 - k \in {1, 2}
        BY <3>1
      <4> QED
        BY <3>1, <4>2, <4>3
    <3>2. CASE Cardinality(stored) # 2
      <4>1. stored \subseteq Nat
        BY <1>4
      <4> QED
        BY <2>1, <3>2, <4>1, MinIsSmallest
    <3> QED
      BY <3>1, <3>2
  <2> QED
    BY <1>3, <1>4, <2>2
(* No live range that has a register is touched. *)
<1>7. victim \notin Colored /\ new \notin Colored
  BY <1>1 DEF Colored
<1>8. \A v \in 1 .. Len(range) : /\ range1[v] = range[v] \/ (range[v] = victim /\ range1[v] = new)
                                 /\ range'[v] = range1[v]
  <2>1. \A v \in 1 .. Len(range) : range1[v] = range[v] \/ (range[v] = victim /\ range1[v] = new)
    BY <1>1
  <2>2. CASE loaded
    <3>1. \A v \in DOMAIN range : range[v] \in Nat
      BY <1>1, ElementOfSeq DEF Shape, RangesTyped
    <3>2. range1 \in [DOMAIN range -> Nat] /\ range \in Seq(Nat)
      <4>1. Ranges \subseteq Nat
        BY <1>1
      <4>2. range \in Seq(Nat)
        BY <1>1, <4>1, SeqMonotonic DEF Shape, RangesTyped
      <4>3. new \in Nat
        BY <1>1
      <4> HIDE DEF new, read
      <4> QED
        BY <3>1, <4>2, <4>3
    <3> HIDE DEF range1
    <3>3. range1 \in Seq(Nat) /\ Len(range1) = Len(range)
      BY <3>2, SameLength
    <3>4. new \in Nat
      BY <1>1
    <3> HIDE DEF new
    <3>5. \A v \in 1 .. Len(range) : Append(range1, new)[v] = range1[v]
      BY <3>3, <3>4, AppendProperties
    <3> QED
      BY <1>2, <2>1, <2>2, <3>5
  <2>3. CASE ~ loaded
    <3>1. \A v \in 1 .. Len(range) : range1[v] = range[v]
      BY <1>1, <2>3
    <3> HIDE DEF range1
    <3> QED
      BY <1>2, <2>1, <2>3, <3>1
  <2> QED
    BY <2>2, <2>3
<1>9. loaded => range'[dummy] = new
  <2> SUFFICES ASSUME loaded PROVE range'[dummy] = new
    OBVIOUS
  <2>1. range' = Append(range1, new)
    BY <1>2
  <2>2. range1 \in [1 .. Len(range) -> Nat]
    <3>1. \A v \in 1 .. Len(range) : range[v] \in Nat
      BY <1>1, ElementOfSeq DEF Shape, RangesTyped
    <3>2. new \in Nat
      BY <1>1
    <3> HIDE DEF new, read
    <3> QED
      BY <1>1, <3>1, <3>2
  <2>3. new \in Nat
    BY <1>1
  <2> HIDE DEF range1, new
  <2>4. range1 \in Seq(Nat) /\ Len(range1) = Len(range)
    BY <1>1, <2>2, SeqDef, LenProperties
  <2>5. Append(range1, new)[Len(range) + 1] = new
    BY <2>3, <2>4, AppendProperties
  <2> QED
    BY <2>1, <2>5
<1>10. Agree(Len(range), range, range', Colored)
  <2> HIDE DEF range1, new
  <2> QED
    BY <1>7, <1>8 DEF Agree
<1>11. Ranges \subseteq Ranges' /\ (\A x \in Ranges : reg'[x] = reg[x])
       /\ (\A x \in Ranges' : x \in Ranges \/ reg'[x] = NoReg)
  <2>1. CASE loaded
    <3>1. reg \in Seq(Nat) /\ NoReg \in Nat /\ reg' = Append(reg, NoReg)
      BY <1>1, <1>2, <2>1 DEF Shape, RangesTyped, NoReg
    <3>2. /\ reg' \in Seq(Nat) /\ Len(reg') = Len(reg) + 1
          /\ \A r \in 1 .. Len(reg) : reg'[r] = reg[r]
          /\ reg'[Len(reg) + 1] = NoReg
      BY <3>1, AppendProperties
    <3>3. Ranges' = 1 .. Len(reg) + 1
      BY <3>2, LenProperties DEF Ranges
    <3> QED
      BY <1>1, <3>2, <3>3
  <2>2. CASE ~ loaded
    BY <1>2, <2>2 DEF Ranges
  <2> QED
    BY <2>1, <2>2
<1>12. Colored' = Colored /\ \A x \in Colored : reg'[x] = reg[x]
  BY <1>11 DEF Colored
<1> HIDE DEF n, pick, stored, read
<1>13. before \in Seq(Instructions(n)) /\ Len(before) \in Nat
       /\ \A j \in 1 .. Len(before) : Silent(before[j], range', Colored)
  <2>1. CASE loaded
    <3>1. Load(dummy) \in Instructions(n)
      BY <1>1, <1>5, <2>1, AccessesTyped
    <3>2. Silent(Load(dummy), range', Colored)
      <4>1. range'[dummy] \notin Colored
        BY <1>7, <1>9, <2>1
      <4> DEFINE rng == range'
                 C == Colored
                 v == dummy
      <4>2. rng[v] \notin C
        BY <4>1
      <4> HIDE DEF rng, C, v
      <4>3. Silent(Load(v), rng, C)
        BY <4>2, AccessesAreSilent
      <4> QED
        BY <4>3 DEF rng, C, v
    <3>3. before = << Load(dummy) >>
      BY <2>1
    <3> HIDE DEF before
    <3>4. Len(before) = 1 /\ before[1] = Load(dummy) /\ before \in Seq(Instructions(n))
      BY <3>1, <3>3
    <3> QED
      BY <3>2, <3>4
  <2>2. CASE ~ loaded
    <3>1. before = << >>
      BY <2>2
    <3> HIDE DEF before
    <3> QED
      BY <3>1, EmptySeq
  <2> QED
    BY <2>1, <2>2
<1>14. after \in Seq(Instructions(n)) /\ Len(after) = Cardinality(stored)
       /\ \A j \in 1 .. Len(after) : Silent(after[j], range', Colored)
  <2>1. \A k \in 1 .. Cardinality(stored) : Store(At.dst[pick(k)]) \in Instructions(n)
    <3> TAKE k \in 1 .. Cardinality(stored)
    <3> DEFINE v == At.dst[pick(k)]
    <3>1. v \in 1 .. n
      BY <1>1, <1>5, <1>6
    <3> HIDE DEF v
    <3>2. Store(v) \in Instructions(n)
      BY <1>1, <1>5, <3>1, AccessesTyped
    <3> QED
      BY <3>2 DEF v
  <2>2. after \in [1 .. Cardinality(stored) -> Instructions(n)]
    BY <2>1
  <2>3. ASSUME NEW k \in 1 .. Cardinality(stored)
        PROVE Silent(Store(At.dst[pick(k)]), range', Colored)
    <3> DEFINE v == At.dst[pick(k)]
               rng == range'
               C == Colored
    <3>1. pick(k) \in stored /\ v \in 1 .. Len(range)
      BY <1>6
    <3>2. range1[v] \in {victim, new}
      BY <3>1 DEF stored, read
    <3>3. range'[v] \notin Colored
      <4> HIDE DEF v, range1, new
      <4> QED
        BY <1>7, <1>8, <3>1, <3>2
    <3>4. rng[v] \notin C
      BY <3>3
    <3> HIDE DEF rng, C, v
    <3>5. Silent(Store(v), rng, C)
      BY <3>4, AccessesAreSilent
    <3> QED
      BY <3>5 DEF rng, C, v
  <2>4. \A k \in 1 .. Cardinality(stored) : after[k] = Store(At.dst[pick(k)])
    OBVIOUS
  <2> HIDE DEF after
  <2>5. after \in Seq(Instructions(n)) /\ Len(after) = Cardinality(stored)
    BY <1>4, <2>2, SeqDef, LenProperties
  <2> QED
    BY <2>3, <2>4, <2>5
<1> HIDE DEF before, after
<1>15. << At >> \in Seq(Instructions(n)) /\ Len(<< At >>) = 1 /\ << At >>[1] = At
  BY <1>1, <1>5, InstructionsGrow
<1> DEFINE one == << At >>
           ln == before \o one
           whole == ln \o after
           k0 == Len(before) + 1
<1>16. /\ ln \in Seq(Instructions(n)) /\ Len(ln) = k0
       /\ \A j \in 1 .. k0 : ln[j] = IF j <= Len(before) THEN before[j] ELSE At
  <2> HIDE DEF one
  <2>1. one \in Seq(Instructions(n)) /\ Len(one) = 1 /\ one[1] = At
    BY <1>15 DEF one
  <2>2. /\ ln \in Seq(Instructions(n)) /\ Len(ln) = Len(before) + Len(one)
        /\ \A j \in 1 .. Len(before) + Len(one) :
             ln[j] = IF j <= Len(before) THEN before[j] ELSE one[j - Len(before)]
    BY <1>13, <2>1, ConcatProperties
  <2> HIDE DEF ln
  <2>3. \A j \in 1 .. k0 : ~ (j <= Len(before)) => j - Len(before) = 1
    BY <1>13
  <2> QED
    BY <1>13, <2>1, <2>2, <2>3
<1> HIDE DEF ln
<1>17. /\ whole \in Seq(Instructions(n)) /\ Len(whole) = k0 + Len(after)
       /\ \A j \in 1 .. k0 + Len(after) : whole[j] = IF j <= k0 THEN ln[j] ELSE after[j - k0]
  <2>1. /\ whole \in Seq(Instructions(n)) /\ Len(whole) = Len(ln) + Len(after)
        /\ \A j \in 1 .. Len(ln) + Len(after) :
             whole[j] = IF j <= Len(ln) THEN ln[j] ELSE after[j - Len(ln)]
    BY <1>14, <1>16, ConcatProperties
  <2> HIDE DEF whole, k0
  <2> QED
    BY <1>16, <2>1
<1>18. code' = Replace(whole)
  BY <1>2 DEF ln
<1> HIDE DEF whole
<1>19. k0 \in 1 .. Len(whole) /\ whole[k0] = At
  <2>1. Len(after) \in Nat /\ k0 \in Nat /\ k0 >= 1 /\ ~ (k0 <= Len(before))
    BY <1>4, <1>13, <1>14
  <2> HIDE DEF k0
  <2> QED
    BY <1>16, <1>17, <2>1
<1>20. ASSUME NEW j \in 1 .. Len(whole), j # k0 PROVE Silent(whole[j], range', Colored)
  <2>0. Len(after) \in Nat /\ Len(before) \in Nat
    BY <1>4, <1>13, <1>14
  <2>1. CASE j < k0
    <3>1. j \in 1 .. Len(before) /\ j \in 1 .. k0 /\ j \in 1 .. k0 + Len(after) /\ j <= k0
      BY <1>17, <2>0, <2>1
    <3>2. whole[j] = before[j]
      BY <1>16, <1>17, <3>1
    <3> QED
      BY <1>13, <3>1, <3>2
  <2>2. CASE j > k0
    <3>1. j - k0 \in 1 .. Len(after) /\ ~ (j <= k0) /\ j \in 1 .. k0 + Len(after)
      BY <1>17, <2>0, <2>2
    <3>2. whole[j] = after[j - k0]
      BY <1>17, <3>1
    <3> QED
      BY <1>14, <3>1, <3>2
  <2> QED
    BY <1>17, <1>20, <2>0, <2>1, <2>2
<1>21. ASSUME NEW from, NEW to, SoundAt(from, At, to, range, Colored, Different)
       PROVE SoundAt(from, At, to, range', Colored, Different')
  <2>1. \A x, y \in Colored : << x, y >> \in Different => << x, y >> \in Different'
    BY <1>11 DEF Colored, Different
  <2> DEFINE m == Len(range)
             i == At
             rng2 == range'
             R2 == Different'
  <2>2. /\ i \in Instructions(m) /\ Agree(m, range, rng2, Colored)
        /\ \A x, y \in Colored : << x, y >> \in Different => << x, y >> \in R2
        /\ SoundAt(from, i, to, range, Colored, Different)
    BY <1>1, <1>10, <1>21, <2>1
  <2> HIDE DEF m, i, rng2, R2
  <2>3. SoundAt(from, i, to, rng2, Colored, R2)
    BY <2>2, SoundUnder
  <2> QED
    BY <2>3 DEF i, rng2, R2
<1> HIDE DEF k0
<1> QED
  BY <1>1, <1>2, <1>5, <1>10, <1>11, <1>12, <1>17, <1>18, <1>19, <1>20, <1>21, SpillKeepsColors

-----------------------------------------------------------------------------
(* Neighbors that have different registers keep them different.            *)

LEMMA CoalesceKeepsColors ==
  ASSUME IInv, ColoringProper, Coalesce
  PROVE  ColoringProper'
<1> DEFINE at == NextMerge
           i == code[at[1]][at[2]]
           s == Source(i)
           d == Destination(i)
<1>1. Shape /\ Mergeable # {}
  BY DEF IInv, Coalesce
<1>2. at[1] \in Blocks /\ at[2] \in DOMAIN code[at[1]] /\ CanMerge(i)
  BY <1>1, NextMergeIsMergeable
<1>3. s \in Ranges /\ d \in Ranges
  <2>1. i \in Instructions(Len(range)) /\ i.op = "copy"
    BY <1>1, <1>2, RangesOfCode, CodeShape DEF CanMerge
  <2> QED
    BY <1>1, <2>1, RangesOfCopy
<1>4. d # s /\ s \notin neighbors[d] /\ ~ RegistersConflict(s, d)
  BY <1>2 DEF CanMerge, DoLiveRangesInterfere
<1>5. /\ neighbors' = [r \in Ranges |->
             IF r = d THEN {}
             ELSE IF r = s THEN neighbors[s] \cup neighbors[d]
             ELSE IF r \in neighbors[d] THEN (neighbors[r] \ {d}) \cup {s}
             ELSE neighbors[r]]
      /\ reg' = [reg EXCEPT ![s] = IF @ = NoReg THEN reg[d] ELSE @]
  BY DEF Coalesce
<1> HIDE DEF at, i, s, d
<1>6. reg \in [Ranges -> Nat] /\ DOMAIN reg = Ranges
  BY <1>1, LenProperties DEF Shape, RangesTyped, Ranges
<1>7. Ranges' = Ranges
  BY <1>5, <1>6 DEF Ranges
<1>8. /\ neighbors \in [Ranges -> SUBSET Ranges]
      /\ \A r, t \in Ranges : t \in neighbors[r] => r \in neighbors[t] /\ r # t
  BY <1>1 DEF Shape, Mutual
<1>9. \A r, t \in Ranges : t \in neighbors[r] /\ reg[r] # NoReg => reg[r] # reg[t]
  BY DEF ColoringProper, Coalesce
<1> DEFINE c == IF reg[s] = NoReg THEN reg[d] ELSE reg[s]
<1>10. /\ \A r \in Ranges : r # s => reg'[r] = reg[r]
       /\ reg'[s] = c
  BY <1>3, <1>5, <1>6
(* No neighbor of the two has the register they share from now on. *)
<1>11. ASSUME NEW t \in neighbors[s] \cup neighbors[d], c # NoReg PROVE reg[t] # c
  <2>1. t \in Ranges
    BY <1>3, <1>8
  <2>2. CASE reg[s] = NoReg
    BY <1>3, <1>4, <1>9, <1>11, <2>1, <2>2 DEF RegistersConflict, NeighborsUse
  <2>3. CASE reg[s] # NoReg /\ reg[d] = NoReg
    BY <1>3, <1>4, <1>9, <1>11, <2>1, <2>3 DEF RegistersConflict, NeighborsUse
  <2>4. CASE reg[s] # NoReg /\ reg[d] # NoReg
    BY <1>3, <1>4, <1>9, <1>11, <2>1, <2>4 DEF RegistersConflict
  <2> QED
    BY <2>2, <2>3, <2>4
<1> HIDE DEF c
<1>12. ASSUME NEW r \in Ranges, NEW t \in neighbors'[r], reg'[r] # NoReg
       PROVE reg'[r] # reg'[t]
  <2>1. r # d
    BY <1>3, <1>5, <1>12
  <2>2. CASE r = s
    <3>1. t \in neighbors[s] \cup neighbors[d]
      BY <1>3, <1>4, <1>5, <1>12, <2>2
    <3>2. t \in Ranges /\ t # s
      BY <1>3, <1>4, <1>8, <3>1
    <3> QED
      BY <1>10, <1>11, <1>12, <2>2, <3>1, <3>2
  <2>3. CASE r # s /\ t = s
    <3>1. r \in neighbors[s] \cup neighbors[d]
      BY <1>3, <1>5, <1>8, <1>12, <2>1, <2>3
    <3>2. reg'[r] = reg[r] /\ reg'[t] = c
      BY <1>10, <2>3
    <3> QED
      BY <1>11, <1>12, <3>1, <3>2
  <2>4. CASE r # s /\ t # s
    <3>1. t \in neighbors[r]
      BY <1>5, <1>12, <2>1, <2>4
    <3>2. t \in Ranges
      BY <1>8, <3>1
    <3> QED
      BY <1>9, <1>10, <1>12, <2>4, <3>1, <3>2
  <2> QED
    BY <2>2, <2>3, <2>4
<1> QED
  BY <1>7, <1>12 DEF ColoringProper

LEMMA ColorKeepsColors ==
  ASSUME IInv, ColoringProper, NEW r \in queue, Color(r)
  PROVE  ColoringProper'
<1>1. reg \in [Ranges -> Nat] /\ DOMAIN reg = Ranges
      /\ neighbors \in [Ranges -> SUBSET Ranges]
      /\ \A q, t \in Ranges : t \in neighbors[q] => q \in neighbors[t] /\ q # t
  BY LenProperties DEF IInv, Shape, RangesTyped, Mutual, Ranges
<1>2. reg' = [reg EXCEPT ![r] = Allocated(r)] /\ neighbors' = neighbors
  BY DEF Color
<1>3. Ranges' = Ranges
  BY <1>1, <1>2 DEF Ranges
<1>4. \A q, t \in Ranges : t \in neighbors[q] /\ reg[q] # NoReg => reg[q] # reg[t]
  BY DEF ColoringProper, Color
<1>5. ASSUME NEW t \in neighbors[r], r \in Ranges, Allocated(r) # NoReg
      PROVE Allocated(r) # reg[t]
  <2>1. t \in Ranges
    BY <1>1, <1>5
  <2>2. CASE reg[r] # NoReg
    BY <1>4, <1>5, <2>1, <2>2 DEF Allocated
  <2>3. CASE reg[r] = NoReg
    <3>1. Free(r) # {} /\ Allocated(r) = Min(Free(r))
      BY <1>5, <2>3 DEF Allocated
    <3>2. Free(r) \subseteq Nat
      BY DEF Free
    <3>3. Allocated(r) \in Free(r)
      BY <3>1, <3>2, MinIsSmallest
    <3> QED
      BY <3>3 DEF Free, Taken
  <2> QED
    BY <2>2, <2>3
<1>6. ASSUME NEW q \in Ranges, NEW t \in neighbors'[q], reg'[q] # NoReg
      PROVE reg'[q] # reg'[t]
  <2>1. t \in Ranges /\ q \in neighbors[t] /\ t \in neighbors[q] /\ q # t
    BY <1>1, <1>2, <1>6
  <2>2. CASE q = r
    BY <1>1, <1>2, <1>5, <1>6, <2>1, <2>2
  <2>3. CASE t = r
    <3>1. reg'[t] = Allocated(r) /\ reg'[q] = reg[q]
      BY <1>1, <1>2, <2>1, <2>3
    <3>2. Allocated(r) = NoReg \/ Allocated(r) # reg[q]
      BY <1>5, <2>1, <2>3
    <3> QED
      BY <1>6, <3>1, <3>2
  <2>4. CASE q # r /\ t # r
    BY <1>1, <1>2, <1>4, <1>6, <2>1, <2>4
  <2> QED
    BY <2>2, <2>3, <2>4
<1> QED
  BY <1>3, <1>6 DEF ColoringProper

-----------------------------------------------------------------------------
(***************************************************************************)
(* What keeps the colours apart.  While live ranges are merged and         *)
(* coloured the neighbors account for an annotation of the whole code; the *)
(* spiller carries one of the coloured live ranges through the code it     *)
(* rewrites, and the liveness sets that are then computed anew find no     *)
(* more than that annotation holds.                                        *)
(***************************************************************************)
HeldApart == \E A : ColorsApart(A) /\ Held(A)
ColorsKept ==
  /\ pc \in {"coalesce", "color"} => Annotated
  /\ pc = "spill" => ColorsAnnotated /\ reg[victim] = NoReg
  /\ pc = "liveness" /\ resume # "precolor" => HeldApart
CInv ==
  /\ OnlyVisitedLive /\ NoCopyToStackPointer /\ Counted
  /\ ColorsKept /\ ColoringProper
Known == IInv /\ Typed /\ CInv

LEMMA MaxIsLargest ==
  ASSUME NEW n \in Nat, NEW T, T \subseteq 1 .. n, T # {}
  PROVE  Max(T) \in T
<1>1. T \subseteq Int /\ \A y \in T : y <= n
  OBVIOUS
<1>2. PICK x \in T : \A y \in T : y <= x
  BY <1>1, HighestExists
<1>3. \A y \in T : x >= y
  BY <1>1, <1>2
<1> QED
  BY <1>3 DEF Max

LEMMA CopiesStay ==
  ASSUME UNCHANGED << function, code, range >>, NEW at, NEW r
  PROVE  CopyInto(at, r)' <=> CopyInto(at, r)
  BY DEF CopyInto, Destination, Blocks

LEMMA DefinitionsStay ==
  ASSUME UNCHANGED << function, code, range >>, NEW at, NEW r
  PROVE  Defines(at, r)' <=> Defines(at, r)
  BY DEF Defines, Blocks

LEMMA CountsStay ==
  ASSUME UNCHANGED << function, code, range, assignments >>, Ranges' = Ranges,
         Merging' => Merging, pc' # "build", NoCopyToStackPointer, Counted
  PROVE  NoCopyToStackPointer' /\ Counted'
<1>1. ASSUME Merging' PROVE \A at : ~ CopyInto(at, SP)'
  BY <1>1, CopiesStay DEF NoCopyToStackPointer, SP
<1>2. ASSUME Merging', NEW r \in Tracked' PROVE CountsDefinitions(r)'
  <2>1. CountsDefinitions(r)
    BY <1>2 DEF Counted, Tracked
  <2>2. \A at : Defines(at, r)' <=> Defines(at, r)
    BY DefinitionsStay
  <2> QED
    BY <2>1, <2>2 DEF CountsDefinitions
<1> QED
  BY <1>1, <1>2 DEF NoCopyToStackPointer, Counted, SP

LEMMA AnnotationStays ==
  ASSUME UNCHANGED << function, code, range, neighbors >>, Ranges' = Ranges, Annotated
  PROVE  Annotated'
<1>1. PICK A : Annotates(A)
  BY DEF Annotated
<1>2. Visited' = Visited
  BY VisitedStays
<1>3. Tracked' = Tracked /\ Adjacent' = Adjacent
  BY DEF Tracked, Adjacent
<1>4. Annotates(A)'
  BY <1>1, <1>2, <1>3 DEF Annotates, Sound, Flows
<1> QED
  BY <1>4 DEF Annotated

LEMMA ColorsApartStays ==
  ASSUME UNCHANGED << function, code, range, reg >>, NEW A, ColorsApart(A)
  PROVE  ColorsApart(A)'
<1>1. Visited' = Visited
  BY VisitedStays
<1>2. Colored' = Colored /\ Different' = Different
  BY DEF Colored, Different, Ranges
<1> QED
  BY <1>1, <1>2 DEF ColorsApart, Sound, Flows

(* Before the liveness sets are computed they hold nothing. *)
LEMMA EmptiedIsHeld ==
  ASSUME UNCHANGED << function, code, range, reg >>, NEW A, ColorsApart(A),
         liveIn' = [b \in Blocks |-> {}]
  PROVE  HeldApart'
<1>1. ColorsApart(A)'
  BY ColorsApartStays
<1>2. Held(A)'
  BY DEF Held, Blocks
<1> QED
  BY <1>1, <1>2 DEF HeldApart

LEMMA NothingIsLive ==
  ASSUME function' = function, liveIn' = [b \in Blocks |-> {}]
  PROVE  OnlyVisitedLive'
  BY DEF OnlyVisitedLive, Blocks

LEMMA LiveStays ==
  ASSUME OnlyVisitedLive, UNCHANGED << function, liveIn >>
  PROVE  OnlyVisitedLive'
  BY VisitedStays DEF OnlyVisitedLive

(* Proper colours, as the annotations speak of them. *)
LEMMA ProperIsApart ==
  ASSUME Known, pc \in {"coalesce", "color"}
  PROVE  \E A : ColorsApart(A)
<1>1. PICK A : Annotates(A)
  BY DEF Known, CInv, ColorsKept, Annotated
<1>2. \A r \in Ranges : \A s \in neighbors[r] : reg[r] # NoReg => reg[r] # reg[s]
  BY DEF Known, CInv, ColoringProper
<1>3. ColorsApart(A)
  BY <1>1, <1>2, AnnotationOfColored DEF Known, IInv
<1> QED
  BY <1>3

-----------------------------------------------------------------------------
LEMMA InitColors == Init => CInv
<1> SUFFICES ASSUME Init PROVE CInv
  OBVIOUS
<1>1. OnlyVisitedLive
  BY DEF Init, OnlyVisitedLive, Blocks
<1>2. NoCopyToStackPointer
  <2> SUFFICES ASSUME NEW at, CopyInto(at, SP) PROVE FALSE
    BY DEF NoCopyToStackPointer
  <2>1. /\ function \in Functions /\ code = function.blocks /\ range = function.name
        /\ at[1] \in DOMAIN function.blocks /\ at[2] \in 1 .. Len(code[at[1]])
        /\ code[at[1]][at[2]].op = "copy" /\ range[code[at[1]][at[2]].dst[1]] = SP
    BY DEF Init, CopyInto, Destination, Blocks
  <2>2. at[2] \in DOMAIN code[at[1]]
    BY <2>1, InitInvariant, CodeShape DEF IInv, Blocks
  <2> QED
    BY <2>1, <2>2, FunctionsAssumption
<1>3. Counted /\ ColorsKept /\ ColoringProper
  BY DEF Init, Counted, Merging, ColorsKept, ColoringProper
<1> QED
  BY <1>1, <1>2, <1>3 DEF CInv

LEMMA BuildColors ==
  ASSUME Known, Build
  PROVE  CInv'
<1>1. UNCHANGED << function, code, range, reg >> /\ Analyse("precolor")
  BY DEF Build
<1>2. pc' = "liveness" /\ resume' = "precolor" /\ liveIn' = [b \in Blocks |-> {}]
  BY <1>1 DEF Analyse
<1>3. OnlyVisitedLive'
  BY <1>1, <1>2, NothingIsLive
<1>4. Counted'
  BY <1>1, AnalyseCounts DEF Known, IInv
<1>5. NoCopyToStackPointer'
  <2>1. \A at : ~ CopyInto(at, SP)
    BY DEF Known, CInv, NoCopyToStackPointer, Build
  <2> QED
    BY <1>1, <2>1, CopiesStay DEF NoCopyToStackPointer, SP
<1>6. ColorsKept' /\ ColoringProper'
  BY <1>2 DEF ColorsKept, ColoringProper
<1> QED
  BY <1>3, <1>4, <1>5, <1>6 DEF CInv

LEMMA VisitBlockColors ==
  ASSUME Known, VisitBlock
  PROVE  CInv'
<1> DEFINE w == Max(Unsettled)
<1>1. Shape /\ OnlyVisitedLive
  BY DEF Known, IInv, CInv
<1>2. w \in Visited /\ w \in Blocks
  <2>1. Unsettled \subseteq 1 .. Len(code) /\ Len(code) \in Nat /\ Unsettled # {}
    BY <1>1, VisitedAreBlocks, CodeShape DEF Unsettled, VisitBlock, Shape, CodeTyped
  <2>2. w \in Unsettled
    BY <2>1, MaxIsLargest
  <2> QED
    BY <1>1, <2>2, VisitedAreBlocks DEF Unsettled
<1>3. /\ liveIn' = [liveIn EXCEPT ![w] = Equation(w)] /\ pc = "liveness"
      /\ UNCHANGED << function, pc, code, range, reg, resume, assignments >>
  BY DEF VisitBlock, costs
<1> HIDE DEF w
<1>4. DOMAIN liveIn = Blocks /\ Blocks' = Blocks /\ Ranges' = Ranges /\ Visited' = Visited
  BY <1>1, <1>3, VisitedStays DEF Shape, LiveTyped, Ranges
<1>5. OnlyVisitedLive'
  BY <1>1, <1>2, <1>3, <1>4 DEF OnlyVisitedLive
<1>6. NoCopyToStackPointer' /\ Counted'
  BY <1>3, <1>4, CountsStay DEF Known, CInv, Merging
<1>7. ASSUME resume # "precolor" PROVE HeldApart'
  <2>1. PICK A : ColorsApart(A) /\ Held(A)
    BY <1>3, <1>7 DEF Known, CInv, ColorsKept, HeldApart
  <2>2. Sound(A, code, range, Colored, Different) /\ Flows(A, code, Colored) /\ SP \notin Colored
    BY <2>1 DEF ColorsApart, Colored
  <2>3. \A b \in Blocks : \A r \in Colored : r \in liveIn[b] => r \in A[b][0]
    BY <2>1 DEF Held
  <2>4. \A b \in Blocks : b \notin Visited => liveIn[b] = {}
    BY <1>1 DEF OnlyVisitedLive
  <2>5. \A r \in Colored : r \in LiveOut(w) => r \in A[w][Len(code[w])]
    BY <1>1, <1>2, <2>2, <2>3, <2>4, LiveOutIsHeld
  <2>6. \A r \in Colored : r \in Equation(w) => r \in A[w][0]
    BY <1>1, <1>2, <2>2, <2>5, EquationIsHeld
  <2>7. ColorsApart(A)'
    BY <1>3, <2>1, ColorsApartStays
  <2>8. Held(A)'
    <3>1. Colored' = Colored
      BY <1>3 DEF Colored, Ranges
    <3> QED
      BY <1>3, <1>4, <2>3, <2>6, <3>1 DEF Held
  <2> QED
    BY <2>7, <2>8 DEF HeldApart
<1>8. ColorsKept' /\ ColoringProper'
  BY <1>3, <1>7 DEF ColorsKept, ColoringProper
<1> QED
  BY <1>5, <1>6, <1>8 DEF CInv

(* The sets the pass has settled on annotate the interference built of them. *)
LEMMA BuiltAnnotation ==
  ASSUME Known, BuildInterference
  PROVE  Ranges' = Ranges /\ \E E : E = Settled /\ Annotates(E)'
<1>1. Shape /\ OnlyVisitedLive /\ Unsettled = {} /\ pc = "liveness"
      /\ UNCHANGED << function, code, range >> /\ neighbors' = Interference
  BY DEF Known, IInv, CInv, BuildInterference
<1>2. Ranges' = Ranges
  <2>1. CASE resume = "precolor"
    <3>1. reg' = function.home /\ Len(function.home) = Len(reg) /\ function.home \in Seq(Nat)
      BY <1>1, <2>1, FunctionsAssumption DEF BuildInterference, Shape, BeforePrecolor, Function
    <3> QED
      BY <1>1, <3>1, LenProperties DEF Ranges, Shape, RangesTyped
  <2>2. CASE resume # "precolor"
    BY <2>2 DEF BuildInterference, Ranges
  <2> QED
    BY <2>1, <2>2
<1>3. PICK E : E = Settled
  OBVIOUS
<1>4. /\ Sound(E, code, range, Tracked, { e \in Ranges \X Ranges : e[2] \in Interference[e[1]] })
      /\ Flows(E, code, Tracked)
  BY <1>1, <1>3, SettledAnnotates
<1>5. Tracked' = Tracked
      /\ Adjacent' = { e \in Ranges \X Ranges : e[2] \in Interference[e[1]] }
  BY <1>1, <1>2 DEF Tracked, Adjacent
<1>6. Visited' = Visited
  BY <1>1, VisitedStays
<1>7. Annotates(E)'
  BY <1>1, <1>4, <1>5, <1>6 DEF Annotates, Sound, Flows
<1> QED
  BY <1>2, <1>3, <1>7

LEMMA BuildInterferenceColors ==
  ASSUME Known, BuildInterference, resume = "precolor" => ColoringProper'
  PROVE  CInv'
<1>1. Shape /\ OnlyVisitedLive /\ Unsettled = {} /\ pc = "liveness"
      /\ pc' \in {"coalesce", "color"} /\ (pc' = "coalesce" => resume # "color")
      /\ UNCHANGED << function, code, range, liveIn, resume, assignments >>
      /\ neighbors' = Interference
  BY DEF Known, IInv, CInv, BuildInterference, liveness, costs
<1>2. Ranges' = Ranges
  BY BuiltAnnotation
<1>3. OnlyVisitedLive'
  BY <1>1, LiveStays
<1>4. NoCopyToStackPointer' /\ Counted'
  BY <1>1, <1>2, CountsStay DEF Known, CInv, Merging
<1>5. Annotated'
  BY BuiltAnnotation DEF Annotated
<1>6. ColoringProper'
  <2> SUFFICES ASSUME resume # "precolor" PROVE ColoringProper'
    OBVIOUS
  <2>1. PICK A : ColorsApart(A) /\ Held(A)
    BY <1>1 DEF Known, CInv, ColorsKept, HeldApart
  <2>2. reg' = reg
    BY DEF BuildInterference
  <2>3. \A x \in Ranges : \A y \in Interference[x] : reg[x] # NoReg => reg[x] # reg[y]
    BY <1>1, <2>1, InterferenceIsColored
  <2> QED
    BY <1>1, <1>2, <2>2, <2>3 DEF ColoringProper
<1>7. ColorsKept'
  BY <1>1, <1>5 DEF ColorsKept
<1> QED
  BY <1>3, <1>4, <1>6, <1>7 DEF CInv

LEMMA CoalesceColors ==
  ASSUME Known, Coalesce
  PROVE  CInv'
<1>1. IInv /\ ColoringProper /\ OnlyVisitedLive /\ pc = "coalesce" /\ pc' = pc
      /\ Annotated /\ NoCopyToStackPointer /\ Counted
      /\ assignments \in [Ranges -> Nat] /\ UNCHANGED << function, liveIn >>
  BY DEF Known, CInv, ColorsKept, Typed, CostsTyped, Coalesce, liveness
<1>2. PICK at, s, d : Absorbs(at, s, d)
  BY <1>1, CoalesceAbsorbs
<1>3. d # SP /\ NoCopyToStackPointer' /\ Counted'
  BY <1>1, <1>2, MergeKeepsCounts
<1>4. Annotated'
  BY <1>1, <1>2, <1>3, MergeKeepsAnnotation
<1>5. OnlyVisitedLive' /\ ColoringProper'
  BY <1>1, LiveStays, CoalesceKeepsColors
<1>6. ColorsKept'
  BY <1>1, <1>4 DEF ColorsKept
<1> QED
  BY <1>3, <1>5, <1>6 DEF CInv

LEMMA EndRoundColors ==
  ASSUME Known, EndRound
  PROVE  CInv'
<1>1. /\ pc = "coalesce" /\ UNCHANGED << function, code, range, reg, neighbors >>
      /\ Ranges' = Ranges
  BY DEF EndRound, Ranges
<1>2. CASE merged
  <2>1. Analyse("coalesce") /\ pc' = "liveness" /\ resume' = "coalesce"
        /\ liveIn' = [b \in Blocks |-> {}]
    BY <1>2 DEF EndRound, Analyse
  <2>2. OnlyVisitedLive'
    BY <1>1, <2>1, NothingIsLive
  <2>3. Counted'
    BY <1>1, <2>1, AnalyseCounts DEF Known, IInv
  <2>4. NoCopyToStackPointer'
    <3>1. \A at : ~ CopyInto(at, SP)
      BY <1>1 DEF Known, CInv, NoCopyToStackPointer, Merging
    <3> QED
      BY <1>1, <3>1, CopiesStay DEF NoCopyToStackPointer, SP
  <2>5. HeldApart'
    BY <1>1, <2>1, ProperIsApart, EmptiedIsHeld
  <2>6. ColorsKept' /\ ColoringProper'
    BY <2>1, <2>5 DEF ColorsKept, ColoringProper
  <2> QED
    BY <2>2, <2>3, <2>4, <2>6 DEF CInv
<1>3. CASE ~ merged
  <2>1. pc' = "color" /\ UNCHANGED << liveIn, assignments >>
    BY <1>3 DEF EndRound, costs, liveness
  <2>2. OnlyVisitedLive'
    BY <1>1, <2>1, LiveStays DEF Known, CInv
  <2>3. NoCopyToStackPointer' /\ Counted'
    BY <2>1 DEF NoCopyToStackPointer, Counted, Merging
  <2>4. Annotated'
    BY <1>1, AnnotationStays DEF Known, CInv, ColorsKept
  <2>5. ColoringProper'
    BY <1>1, <2>1 DEF Known, CInv, ColoringProper
  <2>6. ColorsKept'
    BY <2>1, <2>4 DEF ColorsKept
  <2> QED
    BY <2>2, <2>3, <2>5, <2>6 DEF CInv
<1> QED
  BY <1>2, <1>3

LEMMA ColorColors ==
  ASSUME Known, NEW r \in queue, Color(r)
  PROVE  CInv'
<1>1. /\ pc = "color" /\ pc' = "color" /\ UNCHANGED << function, code, range, neighbors, liveIn >>
      /\ reg' = [reg EXCEPT ![r] = Allocated(r)]
  BY DEF Color, liveness
<1>2. Ranges' = Ranges
  BY <1>1 DEF Ranges
<1>3. OnlyVisitedLive'
  BY <1>1, LiveStays DEF Known, CInv
<1>4. NoCopyToStackPointer' /\ Counted'
  BY <1>1 DEF NoCopyToStackPointer, Counted, Merging
<1>5. Annotated'
  BY <1>1, <1>2, AnnotationStays DEF Known, CInv, ColorsKept
<1>6. ColoringProper'
  BY ColorKeepsColors DEF Known, CInv
<1>7. ColorsKept'
  BY <1>1, <1>5 DEF ColorsKept
<1> QED
  BY <1>3, <1>4, <1>6, <1>7 DEF CInv

LEMMA StartSpillColors ==
  ASSUME Known, NEW r \in queue, StartSpill(r)
  PROVE  CInv'
<1>1. /\ pc = "color" /\ pc' = "spill" /\ victim' = r
      /\ UNCHANGED << function, code, range, reg, liveIn >> /\ Allocated(r) = NoReg
  BY DEF StartSpill, liveness
<1>2. OnlyVisitedLive'
  BY <1>1, LiveStays DEF Known, CInv
<1>3. NoCopyToStackPointer' /\ Counted' /\ ColoringProper'
  BY <1>1 DEF NoCopyToStackPointer, Counted, Merging, ColoringProper
<1>4. ColorsAnnotated'
  <2>1. PICK A : ColorsApart(A)
    BY <1>1, ProperIsApart
  <2>2. ColorsApart(A)'
    BY <1>1, <2>1, ColorsApartStays
  <2> QED
    BY <2>2 DEF ColorsAnnotated
<1>5. reg'[victim'] = NoReg
  BY <1>1 DEF Allocated
<1>6. ColorsKept'
  BY <1>1, <1>4, <1>5 DEF ColorsKept
<1> QED
  BY <1>2, <1>3, <1>6 DEF CInv

LEMMA SpillColors ==
  ASSUME Known, SpillCopy \/ SpillConst \/ SpillOperands
  PROVE  CInv'
<1>1. pc = "spill" /\ pc' = "spill" /\ UNCHANGED << function, liveIn, victim >>
  BY DEF SpillCopy, SpillConst, SpillOperands, liveness
<1>2. IInv /\ ColorsAnnotated /\ reg[victim] = NoReg
  BY <1>1 DEF Known, CInv, ColorsKept
<1>3. OnlyVisitedLive'
  BY <1>1, LiveStays DEF Known, CInv
<1>4. NoCopyToStackPointer' /\ Counted' /\ ColoringProper'
  BY <1>1 DEF NoCopyToStackPointer, Counted, Merging, ColoringProper
<1>5. ColorsAnnotated'
  BY <1>2, SpillCopyKeepsColors, SpillConstKeepsColors, SpillOperandsKeepsColors
<1>6. reg'[victim] = NoReg
  <2>1. CASE reg' = reg
    BY <1>2, <2>1
  <2>2. CASE reg' = Append(reg, NoReg)
    <3>1. victim \in 1 .. Len(reg) /\ reg \in Seq(Nat) /\ NoReg \in Nat
      BY CodeShape DEF Known, IInv, Typed, Kept, Shape, RangesTyped, NoReg
    <3> QED
      BY <1>2, <2>2, <3>1, AppendProperties
  <2> QED
    BY <2>1, <2>2 DEF SpillCopy, SpillConst, SpillOperands, AddLiveRange
<1>7. ColorsKept'
  BY <1>1, <1>5, <1>6 DEF ColorsKept
<1> QED
  BY <1>3, <1>4, <1>7 DEF CInv

LEMMA RestartColors ==
  ASSUME Known, Restart
  PROVE  CInv'
<1>1. /\ pc = "spill" /\ Analyse("color") /\ UNCHANGED << function, code, range, reg >>
  BY DEF Restart
<1>2. pc' = "liveness" /\ resume' = "color" /\ liveIn' = [b \in Blocks |-> {}]
  BY <1>1 DEF Analyse
<1>3. OnlyVisitedLive'
  BY <1>1, <1>2, NothingIsLive
<1>4. NoCopyToStackPointer' /\ Counted' /\ ColoringProper'
  BY <1>2 DEF NoCopyToStackPointer, Counted, Merging, ColoringProper
<1>5. HeldApart'
  <2>1. PICK A : ColorsApart(A)
    BY <1>1 DEF Known, CInv, ColorsKept, ColorsAnnotated
  <2> QED
    BY <1>1, <1>2, <2>1, EmptiedIsHeld
<1>6. ColorsKept'
  BY <1>2, <1>5 DEF ColorsKept
<1> QED
  BY <1>3, <1>4, <1>6 DEF CInv

LEMMA AllColoredColors ==
  ASSUME Known, AllColored
  PROVE  CInv'
<1>1. pc = "color" /\ pc' = "done" /\ UNCHANGED << function, liveIn, neighbors, reg >>
  BY DEF AllColored, liveness
<1>2. OnlyVisitedLive'
  BY <1>1, LiveStays DEF Known, CInv
<1>3. NoCopyToStackPointer' /\ Counted' /\ ColorsKept'
  BY <1>1 DEF NoCopyToStackPointer, Counted, Merging, ColorsKept
<1>4. ColoringProper'
  BY <1>1 DEF Known, CInv, ColoringProper, Ranges
<1> QED
  BY <1>2, <1>3, <1>4 DEF CInv

LEMMA StutterColors ==
  ASSUME CInv, UNCHANGED vars
  PROVE  CInv'
<1>1. UNCHANGED << function, pc, code, range, reg, neighbors, liveIn, resume, victim, assignments >>
      /\ Ranges' = Ranges
  BY DEF vars, liveness, costs, Ranges
<1>2. OnlyVisitedLive'
  BY <1>1, LiveStays DEF CInv
<1>3. Counted' /\ NoCopyToStackPointer'
  <2>1. \A at, r : CopyInto(at, r)' <=> CopyInto(at, r)
    BY <1>1, CopiesStay
  <2>a. \A at, r : Defines(at, r)' <=> Defines(at, r)
    BY <1>1, DefinitionsStay
  <2>2. Merging' = Merging /\ Tracked' = Tracked
    BY <1>1 DEF Merging, Tracked
  <2>3. Counted'
    BY <1>1, <2>a, <2>2 DEF CInv, Counted, CountsDefinitions
  <2>4. NoCopyToStackPointer'
    BY <1>1, <2>1, <2>2 DEF CInv, NoCopyToStackPointer, SP
  <2> QED
    BY <2>3, <2>4
<1>4. ColoringProper'
  BY <1>1 DEF CInv, ColoringProper
<1>5. ASSUME pc \in {"coalesce", "color"} PROVE Annotated'
  BY <1>1, <1>5, AnnotationStays DEF CInv, ColorsKept
<1>6. ASSUME pc = "spill" PROVE ColorsAnnotated' /\ reg'[victim'] = NoReg
  BY <1>1, <1>6, ColorsApartStays DEF CInv, ColorsKept, ColorsAnnotated
<1>7. ASSUME pc = "liveness", resume # "precolor" PROVE HeldApart'
  <2>1. PICK A : ColorsApart(A) /\ Held(A)
    BY <1>7 DEF CInv, ColorsKept, HeldApart
  <2>2. ColorsApart(A)' /\ Held(A)'
    BY <1>1, <2>1, ColorsApartStays DEF Held, Colored, Blocks
  <2> QED
    BY <2>2 DEF HeldApart
<1>8. ColorsKept'
  BY <1>1, <1>5, <1>6, <1>7 DEF ColorsKept
<1> QED
  BY <1>2, <1>3, <1>4, <1>8 DEF CInv

LEMMA NextColors ==
  Known /\ [Next]_vars /\ [BuildInterference /\ resume = "precolor" => ColoringProper']_vars
  => CInv'
<1> SUFFICES ASSUME Known, [Next]_vars,
                    [BuildInterference /\ resume = "precolor" => ColoringProper']_vars
             PROVE CInv'
  OBVIOUS
<1>1. CASE UNCHANGED vars
  BY <1>1, StutterColors DEF Known
<1>2. CASE Build
  BY <1>2, BuildColors
<1>3. CASE VisitBlock
  BY <1>3, VisitBlockColors
<1>4. CASE BuildInterference /\ ~ UNCHANGED vars
  BY <1>4, BuildInterferenceColors
<1>5. CASE Coalesce
  BY <1>5, CoalesceColors
<1>6. CASE EndRound
  BY <1>6, EndRoundColors
<1>7. CASE \E r \in queue : Color(r)
  BY <1>7, ColorColors
<1>8. CASE \E r \in queue : StartSpill(r)
  BY <1>8, StartSpillColors
<1>9. CASE AllColored
  BY <1>9, AllColoredColors
<1>10. CASE SpillCopy \/ SpillConst \/ SpillOperands
  BY <1>10, SpillColors
<1>11. CASE Restart
  BY <1>11, RestartColors
<1> QED
  BY <1>1, <1>2, <1>3, <1>4, <1>5, <1>6, <1>7, <1>8, <1>9, <1>10, <1>11 DEF Next

(* Two live ranges that interfere never have one register, as long as the  *)
(* function's own precolouring gives none that interfere the same one      *)
(* (precolor_function).  Nothing later can: neither a merge that passes a  *)
(* register on, nor the colouring, nor the interference that is computed   *)
(* anew after merges and after spills, when the colours that are left are  *)
(* those of the code as it was (allocate_registers_for_function).          *)
THEOREM ColorsStayProper ==
  Spec /\ [][BuildInterference /\ resume = "precolor" => ColoringProper']_vars
  => []ColoringProper
<1>1. Init => Known
  BY InitInvariant, InitTyped, InitColors DEF Known
<1>2. Known /\ [Next]_vars /\ [BuildInterference /\ resume = "precolor" => ColoringProper']_vars
      => Known'
  BY NextInvariant, NextTyped, NextColors DEF Known
<1>3. Known => ColoringProper
  BY DEF Known, CInv
<1> QED
  BY <1>1, <1>2, <1>3, PTL DEF Spec
=============================================================================
