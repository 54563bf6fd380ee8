------------------------- MODULE AllocatedCodeProofs -------------------------
(***************************************************************************)
(* The code the allocator leaves computes what it was given, for any       *)
(* function whose structures are shared as temporaries are, any number of  *)
(* registers and any number of spills.                                     *)
(*                                                                         *)
(* That each operand finds its value is not inductive: the source has been *)
(* merged and spilled by the time it runs.  What carries over is a set of  *)
(* claims: for every point of the code and every variable, the live ranges *)
(* and stack slots that hold its value.  The claims justify each other: an *)
(* instruction gives them, or leaves the place alone and does not assign   *)
(* the variable.  They are shown to exist when the precolouring has its    *)
(* interference (every live range claims its variable while it is live),   *)
(* to pass through a merge, which renames live ranges, and through what    *)
(* the spiller makes of each instruction, which moves them to the slot and *)
(* back; once every live range has a register, they are true of the run.   *)
(*                                                                         *)
(*   Coded       what each instruction of the code stands for              *)
(*   Faithful    there are claims, and what an operand reads is claimed    *)
(*   Followed    in the run, the claims at hand are true                   *)
(***************************************************************************)
EXTENDS AllocatedCode, AllocatorColorProofs, Integers

-----------------------------------------------------------------------------
(***************************************************************************)
(* The source, and what the code still has of it.                          *)
(***************************************************************************)
SourceOf(f) == UNION { SeqSet(f.blocks[b]) : b \in DOMAIN f.blocks }
OriginalIn(f, i) == CHOOSE o \in SourceOf(f) : o.id = i.id
Names(f) == DOMAIN f.home
SetBy(f, i) == IF i.id = 0 THEN {} ELSE Sets(f, OriginalIn(f, i))
CopyLike(f, i) == i.id # 0 /\ OriginalIn(f, i).op = "copy"
From(f, i) == f.name[OriginalIn(f, i).src[1]]
To(f, i) == f.name[OriginalIn(f, i).dst[1]]

Matched(f, i) ==
  IF i.id = 0
  THEN /\ ~ i.both
       /\ \/ i.op = "load" /\ i.src = << >> /\ Len(i.dst) = 1 /\ i.dst[1] \notin DOMAIN f.name
          \/ i.op = "store" /\ i.dst = << >> /\ Len(i.src) = 1
  ELSE LET o == OriginalIn(f, i) IN
       /\ o \in SourceOf(f) /\ o.id = i.id /\ i.both = o.both
       /\ \/ i.op = o.op /\ i.src = o.src /\ i.dst = o.dst
          \/ i.op = "deleted" /\ o.op = "copy" /\ i.src = << >> /\ i.dst = << >>
          \/ i.op = "load" /\ o.op = "copy" /\ i.src = << >> /\ i.dst = o.dst
          \/ i.op = "constStore" /\ o.op = "const" /\ i.src = << >> /\ i.dst = << >>

(***************************************************************************)
(* Claims.  A place is a live range, or the negative of a stack slot.  At  *)
(* a point of the code, h[n] is a set of places that are claimed to hold   *)
(* the value of variable n.  N[v] are the variables whose value structure  *)
(* v is there for: its own, and for one the spiller has made those of the  *)
(* operands it stands in for.                                              *)
(***************************************************************************)
Stores(i) == i.op \in {"store", "constStore"}
WritesTo(i, place, x) ==
  \/ \E k \in DOMAIN i.dst : x = place[i.dst[k]]
  \/ Stores(i) /\ x = - i.slot
Given(f, i, place, N, n, x) ==
  \/ \E k \in DOMAIN i.dst : x = place[i.dst[k]] /\ n \in N[i.dst[k]]
  \/ i.op = "store" /\ x = - i.slot /\ n \in N[i.src[1]]
  \/ i.op = "constStore" /\ x = - i.slot /\ n = To(f, i)
Keeps(f, i, h, n, x) ==
  \/ n \notin SetBy(f, i) /\ x \in h[n]
  \/ CopyLike(f, i) /\ n = To(f, i) /\ x \in h[From(f, i)]
(* The variables whose claims before i are carried over to n. *)
Looked(f, i, n) == {n} \cup (IF CopyLike(f, i) THEN {From(f, i)} ELSE {})
Justified(f, i, place, N, h, n, x) ==
  \/ Given(f, i, place, N, n, x)
  \/ ~ WritesTo(i, place, x) /\ Keeps(f, i, h, n, x)

Fetched(f, i, N) == IF i.id = 0 THEN N[i.dst[1]] ELSE {From(f, i)}
Needs(f, i, place, N, h) ==
  /\ \A v \in SeqSet(Read(i)) : \A n \in N[v] : place[v] \in h[n]
  /\ i.op = "load" => \A n \in Fetched(f, i, N) : - i.slot \in h[n]
Fits(f, i, place, N, h, a) ==
  /\ Needs(f, i, place, N, h)
  /\ \A n \in Names(f) : \A x \in a[n] : Justified(f, i, place, N, h, n, x)

(* A claim that is justified stays so when what justifies it moves along.  *)
LEMMA JustifiedVia ==
  ASSUME NEW f, NEW i, NEW place, NEW place2, NEW N, NEW N2, NEW h, NEW h2, NEW n, NEW x, NEW y,
         Justified(f, i, place, N, h, n, x),
         \A k \in DOMAIN i.dst : /\ x = place[i.dst[k]] => y = place2[i.dst[k]]
                                 /\ N[i.dst[k]] \subseteq N2[i.dst[k]],
         i.op = "store" => N[i.src[1]] \subseteq N2[i.src[1]],
         Stores(i) /\ x = - i.slot => y = - i.slot,
         ~ WritesTo(i, place, x)
           => ~ WritesTo(i, place2, y) /\ \A m \in Looked(f, i, n) : x \in h[m] => y \in h2[m]
  PROVE  Justified(f, i, place2, N2, h2, n, y)
<1>1. CASE Given(f, i, place, N, n, x)
  <2>1. Given(f, i, place2, N2, n, y)
    BY <1>1 DEF Given, Stores
  <2> QED
    BY <2>1 DEF Justified
<1>2. CASE ~ WritesTo(i, place, x) /\ Keeps(f, i, h, n, x)
  <2>1. Keeps(f, i, h2, n, y)
    BY <1>2 DEF Keeps, Looked
  <2> QED
    BY <1>2, <2>1 DEF Justified
<1> QED
  BY <1>1, <1>2 DEF Justified

-----------------------------------------------------------------------------
(* What the source is made of, and what is left of an instruction of it.   *)
LEMMA SourceFacts ==
  ASSUME NEW f \in Functions, Disciplined(f), NEW o \in SourceOf(f)
  PROVE  /\ o \in Instr /\ o.id # 0 /\ o.op \in {"copy", "const", "op"}
         /\ o.op = "copy" => Len(o.src) = 1 /\ Len(o.dst) = 1 /\ ~ o.both
         /\ o.op = "const" => o.src = << >> /\ Len(o.dst) = 1 /\ ~ o.both
         /\ DOMAIN o.src = 1 .. Len(o.src) /\ DOMAIN o.dst = 1 .. Len(o.dst)
         /\ Len(o.src) \in Nat /\ Len(o.dst) \in Nat /\ Len(o.dst) <= 2
         /\ \A k \in DOMAIN o.src : o.src[k] \in DOMAIN f.name /\ f.name[o.src[k]] \in Names(f)
         /\ \A k \in DOMAIN o.dst : o.dst[k] \in DOMAIN f.name /\ f.name[o.dst[k]] \in Names(f)
         /\ o.both => o.dst # << >>
         /\ \A other \in SourceOf(f) : other.id = o.id => other = o
         /\ Len(o.dst) = 2 => f.name[o.dst[1]] # f.name[o.dst[2]]
<1>1. PICK b \in DOMAIN f.blocks : o \in SeqSet(f.blocks[b])
  BY DEF SourceOf
<1>2. PICK p \in DOMAIN f.blocks[b] : o = f.blocks[b][p]
  BY <1>1 DEF SeqSet
<1>3. f \in Function /\ WellFormed(o, DOMAIN f.name)
      /\ \A i \in DOMAIN f.name : f.name[i] \in DOMAIN f.home
  BY <1>2, FunctionsAssumption
<1>4. o \in Instr
  BY <1>2, <1>3, ElementOfSeq DEF Function
<1>5. /\ DOMAIN o.src = 1 .. Len(o.src) /\ DOMAIN o.dst = 1 .. Len(o.dst)
      /\ Len(o.src) \in Nat /\ Len(o.dst) \in Nat
  BY <1>4, LenProperties DEF Instr
<1>6. \A other \in SourceOf(f) : other.id = o.id => other = o
  <2> SUFFICES ASSUME NEW other \in SourceOf(f), other.id = o.id PROVE other = o
    OBVIOUS
  <2>1. PICK c \in DOMAIN f.blocks : other \in SeqSet(f.blocks[c])
    BY DEF SourceOf
  <2>2. PICK q \in DOMAIN f.blocks[c] : other = f.blocks[c][q]
    BY <2>1 DEF SeqSet
  <2> QED
    BY <1>2, <2>2 DEF Disciplined, Numbered
<1>7. o.id # 0 /\ o.op \in {"copy", "const", "op"}
      /\ (o.op = "copy" => Len(o.src) = 1) /\ (o.op = "const" => o.src = << >>)
  BY <1>2 DEF Disciplined, SourceKinds
<1>8. /\ \A k \in DOMAIN o.src : o.src[k] \in DOMAIN f.name
      /\ \A k \in DOMAIN o.dst : o.dst[k] \in DOMAIN f.name
  BY <1>3 DEF WellFormed, SeqSet
<1>9. Len(o.dst) = 2 => f.name[o.dst[1]] # f.name[o.dst[2]]
  BY <1>2 DEF Disciplined, HomesApart
<1> QED
  BY <1>3, <1>4, <1>5, <1>6, <1>7, <1>8, <1>9 DEF WellFormed, Names

(* An instruction of the code has the operands of its original, or lost    *)
(* some; one without an original loads or stores.                          *)
LEMMA MatchedFacts ==
  ASSUME NEW f \in Functions, Disciplined(f), NEW i, Matched(f, i), i.id # 0
  PROVE  LET o == OriginalIn(f, i) IN
         /\ o \in SourceOf(f) /\ o.id = i.id /\ i.both = o.both
         /\ i.dst = o.dst \/ i.dst = << >>
         /\ i.src = o.src \/ i.src = << >>
         /\ i.op \in {"copy", "const", "op"} => i.op = o.op /\ i.src = o.src /\ i.dst = o.dst
         /\ i.op \in {"copy", "load"} => CopyLike(f, i)
         /\ i.op \in {"copy", "load"} => i.dst = o.dst /\ Len(i.dst) = 1
         /\ i.op = "constStore" => o.op = "const" /\ i.dst = << >>
         /\ i.op # "store"
         /\ CopyLike(f, i) => From(f, i) \in Names(f) /\ To(f, i) \in Names(f) /\ SetBy(f, i) = {To(f, i)}
         /\ i.both => i.op = "op"
         /\ i.op = "deleted" => CopyLike(f, i) /\ i.src = << >> /\ i.dst = << >>
<1> DEFINE o == OriginalIn(f, i)
<1>1. /\ o \in SourceOf(f) /\ o.id = i.id /\ i.both = o.both
      /\ \/ i.op = o.op /\ i.src = o.src /\ i.dst = o.dst
         \/ i.op = "deleted" /\ o.op = "copy" /\ i.src = << >> /\ i.dst = << >>
         \/ i.op = "load" /\ o.op = "copy" /\ i.src = << >> /\ i.dst = o.dst
         \/ i.op = "constStore" /\ o.op = "const" /\ i.src = << >> /\ i.dst = << >>
  BY DEF Matched
<1> HIDE DEF o
<1>2. /\ o.op \in {"copy", "const", "op"}
      /\ o.op = "copy" => Len(o.src) = 1 /\ Len(o.dst) = 1 /\ ~ o.both
      /\ o.op = "const" => o.src = << >> /\ Len(o.dst) = 1 /\ ~ o.both
      /\ DOMAIN o.src = 1 .. Len(o.src) /\ DOMAIN o.dst = 1 .. Len(o.dst)
      /\ \A k \in DOMAIN o.src : f.name[o.src[k]] \in Names(f)
      /\ \A k \in DOMAIN o.dst : f.name[o.dst[k]] \in Names(f)
  BY <1>1, SourceFacts
<1>3. o.op = "copy" => /\ f.name[o.src[1]] \in Names(f) /\ f.name[o.dst[1]] \in Names(f)
                       /\ Sets(f, o) = { f.name[o.dst[1]] }
  <2> SUFFICES ASSUME o.op = "copy"
               PROVE /\ f.name[o.src[1]] \in Names(f) /\ f.name[o.dst[1]] \in Names(f)
                     /\ Sets(f, o) = { f.name[o.dst[1]] }
    OBVIOUS
  <2>1. DOMAIN o.src = {1} /\ DOMAIN o.dst = {1}
    BY <1>2
  <2> QED
    BY <1>2, <2>1 DEF Sets, SeqSet
<1>4. CopyLike(f, i) <=> o.op = "copy"
  BY DEF CopyLike, o
<1>5. CopyLike(f, i) => From(f, i) \in Names(f) /\ To(f, i) \in Names(f) /\ SetBy(f, i) = {To(f, i)}
  BY <1>3, <1>4 DEF From, To, SetBy, o
<1>6. /\ i.dst = o.dst \/ i.dst = << >>
      /\ i.src = o.src \/ i.src = << >>
      /\ i.op # "store" /\ i.both => i.op = "op"
  BY <1>1, <1>2
<1>7. /\ i.op \in {"copy", "const", "op"} => i.op = o.op /\ i.src = o.src /\ i.dst = o.dst
      /\ i.op \in {"copy", "load"} => o.op = "copy" /\ i.dst = o.dst /\ Len(i.dst) = 1
      /\ i.op = "constStore" => o.op = "const" /\ i.dst = << >>
      /\ i.op = "deleted" => o.op = "copy" /\ i.src = << >> /\ i.dst = << >>
  BY <1>1, <1>2
<1>8. i.both => i.op = "op"
  BY <1>1, <1>2
<1>9. i.op # "store"
  BY <1>1, <1>2
<1> QED
  BY <1>1, <1>4, <1>5, <1>6, <1>7, <1>8, <1>9 DEF o

-----------------------------------------------------------------------------
(***************************************************************************)
(* The code of the allocator, which is the source with operands moved to   *)
(* the stack.  While a live range is spilled, the instructions before the  *)
(* cursor are rewritten; those from the cursor on still mention the victim *)
(* where its stack slot is meant.                                          *)
(***************************************************************************)
Indices(b) == 1 .. Len(code[b])
Handled(b, p) == b < cursor[1] \/ (b = cursor[1] /\ p < cursor[2])
Slotted == [v \in DOMAIN range |-> IF range[v] = victim THEN - slots ELSE range[v]]
PlaceAt(b, p) == IF pc = "spill" /\ ~ Handled(b, p) THEN Slotted ELSE range

Early == pc = "build" \/ (pc = "liveness" /\ resume = "precolor")
Uncolored == pc = "build" \/ Merging
Memory(i) == i.op \in {"load", "store", "constStore"}
Dummy(i) == i.op = "load" /\ i.id = 0

Untouched ==
  Early => /\ code = function.blocks /\ range = function.name
           /\ reg = [r \in DOMAIN function.home |-> IF r = SP THEN RSP ELSE NoReg]
FromSource ==
  /\ DOMAIN function.name \subseteq DOMAIN range
  /\ \A b \in Blocks : \A p \in Indices(b) : Matched(function, code[b][p])
(* The operands that keep their value while they are mentioned further on. *)
Closing(f, i) == { v \in Operands(i) : WrittenWhenSettled(f) \/ (i.op # "store" /\ v \in SeqSet(Read(i))) }
ReadLast ==
  \A a, b \in Blocks : a < b =>
    \A q \in Indices(a), r \in Indices(b) : Closing(function, code[a][q]) \cap Operands(code[b][r]) = {}
(* An instruction that writes two registers writes them both. *)
TwoColored ==
  ~ Early => \A b \in Blocks : \A p \in Indices(b) : Len(code[b][p].dst) = 2 =>
    /\ RegOf(code[b][p].dst[1]) # NoReg /\ RegOf(code[b][p].dst[2]) # NoReg
    /\ RegOf(code[b][p].dst[1]) # RegOf(code[b][p].dst[2])
OnlyStackPointer == \A r \in Ranges : reg[r] = RSP => r = SP
SlotsKnown ==
  /\ Uncolored => slots = 0
  /\ pc = "spill" => slots # 0
  /\ \A b \in Blocks : \A p \in Indices(b) : Memory(code[b][p]) =>
       /\ code[b][p].slot \in 1 .. slots
       /\ pc = "spill" /\ ~ Handled(b, p) => code[b][p].slot # slots
(* What has been rewritten reads the victim to store it, right after the   *)
(* instruction that computes it.                                           *)
VictimStored ==
  pc = "spill" => \A b \in Blocks : \A p \in Indices(b) : Handled(b, p) =>
    \A v \in SeqSet(Read(code[b][p])) : range[v] = victim =>
      code[b][p].op = "store" /\ p > 1 /\ code[b][p - 1].dst = << v >>
(* What a load puts into a live range of its own is read after it only. *)
LoadsFirst ==
  \A b \in Blocks : \A q, l \in Indices(b) :
    q < l /\ code[b][q].id # 0 /\ Dummy(code[b][l]) =>
      \A v \in SeqSet(Read(code[b][q])) : range[v] # range[code[b][l].dst[1]]
(* An operand that a store reads is spilled only where all are settled.    *)
StoresSettled ==
  pc = "spill" => \A b \in Blocks : \A p \in Indices(b) :
    ~ Handled(b, p) /\ code[b][p].op = "store" /\ range[code[b][p].src[1]] = victim
      => WrittenWhenSettled(function)
StackPointerStays ==
  Uncolored =>
    \/ \A b \in Blocks : \A p \in Indices(b) : \A k \in DOMAIN code[b][p].dst : range[code[b][p].dst[k]] # SP
    \/ \A b \in Blocks : \A p \in Indices(b) : code[b][p].op = "copy" => Source(code[b][p]) # SP

(* The live range is that of an operand that is in a slot already. *)
Respilled(r) ==
  \E b \in Blocks : \E p \in Indices(b) : code[b][p].op = "store" /\ range[code[b][p].src[1]] = r

Coded ==
  /\ Disciplined(function)
  /\ Untouched /\ FromSource /\ ReadLast /\ TwoColored /\ OnlyStackPointer
  /\ SlotsKnown /\ VictimStored /\ LoadsFirst /\ StoresSettled /\ StackPointerStays

(***************************************************************************)
(* The claims W about this code: W[b][p][n] after instruction p of block b.*)
(***************************************************************************)
Named(N) ==
  /\ DOMAIN N = DOMAIN range
  /\ \A v \in DOMAIN N : N[v] \subseteq Names(function)
  /\ \A v \in DOMAIN function.name : N[v] = {function.name[v]}
Steady(N) ==
  \A b \in Blocks : \A q, r \in Indices(b) : q < r =>
    \A v \in Closing(function, code[b][q]) \cap Operands(code[b][r]) :
      /\ v \notin SeqSet(code[b][r].dst)
      /\ \A m \in q .. r : \/ m = q /\ v \in SeqSet(code[b][q].dst)
                          \/ N[v] \cap SetBy(function, code[b][m]) = {}

Fitting(W, N) ==
  \A b \in Blocks : \A p \in Indices(b) :
    Fits(function, code[b][p], PlaceAt(b, p), N, W[b][p - 1], W[b][p])
Passed(W) ==
  \A b \in Blocks : \A s \in function.succ[b] : \A n \in Names(function) :
    W[s][0][n] \subseteq W[b][Len(code[b])][n]
Located(W) ==
  \A b \in Blocks : \A p \in 0 .. Len(code[b]) : \A n \in Names(function) :
    \A x \in W[b][p][n] : x \in Ranges \/ (x \in Int /\ x < 0 /\ - x <= slots)
Arrived(W) ==
  \A n \in Names(function) : \A x \in W[1][0][n] :
    \/ x = SP /\ n = SP
    \/ x \in Ranges /\ n \in function.params /\ reg[x] = function.home[n]
AtStore(b, p) ==
  /\ p < Len(code[b]) /\ Handled(b, p + 1)
  /\ code[b][p + 1].op = "store" /\ range[code[b][p + 1].src[1]] = victim
Raw(W) ==
  pc = "spill" => \A b \in Blocks : \A p \in 0 .. Len(code[b]) : \A n \in Names(function) :
    victim \in W[b][p][n] => AtStore(b, p)
Claims(W, N) == Fitting(W, N) /\ Passed(W) /\ Located(W) /\ Arrived(W) /\ Raw(W)

Within(W, A) ==
  \A b \in Blocks : \A p \in 0 .. Len(code[b]) : \A n \in Names(function) :
    \A x \in W[b][p][n] : x < 0 \/ x = SP \/ x \in A[b][p]

Claimed(N, W) == Named(N) /\ Steady(N) /\ Claims(W, N)
Faithful ==
  /\ pc \in {"liveness", "color", "spill"} /\ ~ Early => \E N, W : Claimed(N, W)
  /\ pc = "coalesce" => \E N, W, A : Claimed(N, W) /\ Annotates(A) /\ Within(W, A)

(* One fact of the shape of the code that most steps need. *)
LEMMA CodeFacts ==
  ASSUME Shape, Coded, NEW b \in Blocks, NEW p \in Indices(b)
  PROVE  /\ code[b][p] \in Instr /\ Matched(function, code[b][p])
         /\ code[b][p] \in Instructions(Len(range))
         /\ DOMAIN code[b][p].src = 1 .. Len(code[b][p].src) /\ Len(code[b][p].src) \in Nat
         /\ DOMAIN code[b][p].dst = 1 .. Len(code[b][p].dst) /\ Len(code[b][p].dst) \in Nat
         /\ Len(code[b][p].dst) <= 2
         /\ \A k \in DOMAIN code[b][p].dst : code[b][p].dst[k] \in DOMAIN range
                                              /\ range[code[b][p].dst[k]] \in Ranges
         /\ \A k \in DOMAIN code[b][p].src : code[b][p].src[k] \in DOMAIN range
                                              /\ range[code[b][p].src[k]] \in Ranges
         /\ \A v \in SeqSet(Read(code[b][p])) : v \in DOMAIN range /\ range[v] \in Ranges
<1> DEFINE i == code[b][p]
<1>1. i \in Instructions(Len(range)) /\ DOMAIN range = 1 .. Len(range)
  BY RangesOfCode, CodeShape DEF Indices
<1>2. i \in Instr /\ WellFormed(i, 1 .. Len(range))
  BY <1>1 DEF Instructions
<1>3. /\ DOMAIN i.src = 1 .. Len(i.src) /\ DOMAIN i.dst = 1 .. Len(i.dst)
      /\ Len(i.src) \in Nat /\ Len(i.dst) \in Nat
  BY <1>2, LenProperties DEF Instr
<1>4. \A v \in DOMAIN range : range[v] \in Ranges
  BY <1>1, ElementOfSeq DEF Shape, RangesTyped
<1>5. SeqSet(i.src) \cup SeqSet(i.dst) \subseteq DOMAIN range /\ SeqSet(Read(i)) \subseteq DOMAIN range
  BY <1>1, OperandsAreVariables
<1>6. Matched(function, i)
  BY DEF Coded, FromSource
<1> HIDE DEF i
<1>7. /\ \A k \in DOMAIN i.dst : i.dst[k] \in DOMAIN range
      /\ \A k \in DOMAIN i.src : i.src[k] \in DOMAIN range
  BY <1>5 DEF SeqSet
<1> QED
  BY <1>1, <1>2, <1>3, <1>4, <1>5, <1>6, <1>7 DEF WellFormed, i

-----------------------------------------------------------------------------
(* The start.                                                              *)
LEMMA OriginalOfSource ==
  ASSUME NEW f \in Functions, Disciplined(f), NEW o \in SourceOf(f)
  PROVE  OriginalIn(f, o) = o /\ Matched(f, o)
<1>1. OriginalIn(f, o) \in SourceOf(f) /\ OriginalIn(f, o).id = o.id
  BY DEF OriginalIn
<1>2. OriginalIn(f, o) = o
  BY <1>1, SourceFacts
<1>3. o.id # 0
  BY SourceFacts
<1> QED
  BY <1>1, <1>2, <1>3 DEF Matched

LEMMA InitCoded ==
  ASSUME Init, Disciplined(function)
  PROVE  Coded
<1>1. /\ function \in Functions /\ pc = "build" /\ code = function.blocks /\ range = function.name
      /\ reg = [r \in DOMAIN function.home |-> IF r = SP THEN RSP ELSE NoReg]
      /\ slots = 0
  BY DEF Init
<1>2. Shape
  BY InitInvariant DEF IInv
<1>3. \A b \in Blocks : Indices(b) = DOMAIN function.blocks[b] /\ b \in DOMAIN function.blocks
  BY <1>1, <1>2, CodeShape DEF Indices, Blocks
<1>4. \A b \in Blocks : \A p \in Indices(b) : code[b][p] \in SourceOf(function)
  BY <1>1, <1>3 DEF SourceOf, SeqSet
<1>5. \A b \in Blocks : \A p \in Indices(b) : /\ Matched(function, code[b][p])
                                              /\ code[b][p].op \in {"copy", "const", "op"}
                                              /\ code[b][p].id # 0
  BY <1>1, <1>4, OriginalOfSource, SourceFacts
<1>6. FromSource
  BY <1>1, <1>5 DEF FromSource
<1>7. ReadLast
  <2>1. ASSUME NEW a \in Blocks, NEW b \in Blocks, a < b, NEW q \in Indices(a), NEW r \in Indices(b)
        PROVE Closing(function, code[a][q]) \cap Operands(code[b][r]) = {}
    <3>1. /\ SeqSet(Read(code[a][q])) \cap Operands(code[b][r]) = {}
          /\ WrittenWhenSettled(function) => Operands(code[a][q]) \cap Operands(code[b][r]) = {}
      BY <1>1, <1>3, <2>1 DEF Disciplined, ReadInLastBlock, WrittenWhenSettled
    <3> QED
      BY <3>1 DEF Closing
  <2> QED
    BY <2>1 DEF ReadLast
<1>8. SlotsKnown
  BY <1>1, <1>5 DEF SlotsKnown, Memory
<1>9. VictimStored /\ TwoColored /\ Untouched /\ StoresSettled
  BY <1>1 DEF VictimStored, TwoColored, Untouched, StoresSettled, Early
<1>10. LoadsFirst
  BY <1>5 DEF LoadsFirst, Dummy
<1>11. OnlyStackPointer
  BY <1>1, KAssumption DEF OnlyStackPointer, Ranges, NoReg, RSP
<1>12. StackPointerStays
  <2>1. CASE \A b \in DOMAIN function.blocks : \A p \in DOMAIN function.blocks[b] :
               SP \notin Sets(function, function.blocks[b][p])
    <3>1. ASSUME NEW b \in Blocks, NEW p \in Indices(b), NEW k \in DOMAIN code[b][p].dst
          PROVE range[code[b][p].dst[k]] # SP
      BY <1>1, <1>3, <2>1 DEF Sets, SeqSet
    <3> QED
      BY <3>1 DEF StackPointerStays
  <2>2. CASE \A b \in DOMAIN function.blocks : \A p \in DOMAIN function.blocks[b] :
               function.blocks[b][p].op = "copy" => function.name[function.blocks[b][p].src[1]] # SP
    BY <1>1, <1>3, <2>2 DEF StackPointerStays, Source
  <2> QED
    BY <2>1, <2>2 DEF Disciplined, StackPointerFixed
<1> QED
  BY <1>6, <1>7, <1>8, <1>9, <1>10, <1>11, <1>12 DEF Coded

LEMMA LookedAreNames ==
  ASSUME Shape, Coded, NEW b \in Blocks, NEW p \in Indices(b), NEW n \in Names(function)
  PROVE  Looked(function, code[b][p], n) \subseteq Names(function)
<1>1. function \in Functions /\ Disciplined(function) /\ Matched(function, code[b][p])
  BY CodeFacts DEF Shape, Coded
<1>2. CopyLike(function, code[b][p]) => From(function, code[b][p]) \in Names(function)
  BY <1>1, MatchedFacts DEF CopyLike
<1> QED
  BY <1>2 DEF Looked

(* What a load fetches, and what an instruction reads, are variables. *)
LEMMA FetchedAreNames ==
  ASSUME Shape, Coded, NEW N, Named(N), NEW b \in Blocks, NEW p \in Indices(b)
  PROVE  /\ code[b][p].op = "load" => Fetched(function, code[b][p], N) \subseteq Names(function)
         /\ \A v \in SeqSet(Read(code[b][p])) : N[v] \subseteq Names(function)
<1> DEFINE i == code[b][p]
<1>1. function \in Functions /\ Disciplined(function) /\ Matched(function, i)
  BY CodeFacts DEF Shape, Coded
<1>2. ASSUME i.op = "load", i.id = 0 PROVE N[i.dst[1]] \subseteq Names(function)
  <2>1. Len(i.dst) = 1
    BY <1>1, <1>2 DEF Matched
  <2>2. i.dst[1] \in DOMAIN range
    BY <2>1, CodeFacts
  <2> QED
    BY <2>2 DEF Named
<1>3. ASSUME i.op = "load", i.id # 0 PROVE From(function, i) \in Names(function)
  BY <1>1, <1>3, MatchedFacts
<1>4. \A v \in SeqSet(Read(i)) : N[v] \subseteq Names(function)
  BY CodeFacts DEF Named
<1> QED
  BY <1>2, <1>3, <1>4 DEF Fetched

-----------------------------------------------------------------------------
(* Claims about live ranges that are not live can be given up.             *)
Restricted(W, A) ==
  [b \in Blocks |-> [p \in 0 .. Len(code[b]) |-> [n \in Names(function) |->
    { x \in W[b][p][n] : x < 0 \/ x = SP \/ x \in A[b][p] }]]]

LEMMA Restricts ==
  ASSUME Shape, Coded, pc # "spill", Visited = Blocks, NEW N, NEW W, NEW A, NEW R,
         Named(N), Fitting(W, N), Passed(W), Located(W),
         Sound(A, code, range, Tracked, R), Flows(A, code, Tracked)
  PROVE  /\ Fitting(Restricted(W, A), N) /\ Passed(Restricted(W, A)) /\ Located(Restricted(W, A))
         /\ Within(Restricted(W, A), A)
         /\ \A b \in Blocks : \A p \in 0 .. Len(code[b]) : \A n \in Names(function) :
              Restricted(W, A)[b][p][n] = { x \in W[b][p][n] : x < 0 \/ x = SP \/ x \in A[b][p] }
<1> DEFINE V == Restricted(W, A)
<1>1. \A b \in Blocks : \A p \in 0 .. Len(code[b]) : \A n \in Names(function) :
        V[b][p][n] = { x \in W[b][p][n] : x < 0 \/ x = SP \/ x \in A[b][p] }
  BY DEF Restricted
<1>2. \A b \in Blocks : Len(code[b]) \in Nat
  BY CodeShape
<1> HIDE DEF V
<1>3. Located(V)
  BY <1>1 DEF Located
<1>4. Within(V, A)
  BY <1>1 DEF Within
<1>5. Passed(V)
  <2> SUFFICES ASSUME NEW b \in Blocks, NEW s \in function.succ[b], NEW n \in Names(function),
                      NEW x \in V[s][0][n]
               PROVE x \in V[b][Len(code[b])][n]
    BY DEF Passed
  <2>1. s \in Blocks
    BY FunctionsAssumption DEF Shape, Blocks
  <2>2. 0 \in 0 .. Len(code[s]) /\ Len(code[b]) \in 0 .. Len(code[b])
    BY <1>2, <2>1
  <2>3. x \in W[s][0][n] /\ (x < 0 \/ x = SP \/ x \in A[s][0])
    BY <1>1, <2>1, <2>2
  <2>4. x \in W[b][Len(code[b])][n]
    BY <2>3 DEF Passed
  <2>5. x \in Ranges \/ x < 0
    BY <2>1, <2>2, <2>3 DEF Located
  <2>6. x < 0 \/ x = SP \/ x \in A[b][Len(code[b])]
    BY <2>1, <2>3, <2>5 DEF Flows, Tracked
  <2> QED
    BY <1>1, <2>2, <2>4, <2>6
<1>6. ASSUME NEW b \in Blocks, NEW p \in Indices(b)
      PROVE Fits(function, code[b][p], PlaceAt(b, p), N, V[b][p - 1], V[b][p])
  <2> DEFINE i == code[b][p]
             h == W[b][p - 1]
             h2 == V[b][p - 1]
  <2>1. p - 1 \in 0 .. Len(code[b]) /\ p \in 0 .. Len(code[b]) /\ p \in 1 .. Len(code[b])
    BY <1>2, <1>6 DEF Indices
  <2>2. PlaceAt(b, p) = range
    BY DEF PlaceAt
  <2>3. Fits(function, i, range, N, h, W[b][p])
    BY <2>2 DEF Fitting
  <2>4. DOMAIN code = Blocks
    BY CodeShape
  <2>5. SoundAt(A[b][p - 1], i, A[b][p], range, Tracked, R)
    BY <2>1, <2>4 DEF Sound
  <2>6. ASSUME NEW v \in SeqSet(Read(i)), NEW n \in N[v]
        PROVE range[v] \in h2[n]
    <3>1. range[v] \in h[n]
      BY <2>3, <2>6 DEF Fits, Needs
    <3>2. n \in Names(function) /\ range[v] \in Ranges
      BY <2>6, FetchedAreNames, CodeFacts
    <3>3. range[v] = SP \/ range[v] \in A[b][p - 1]
      BY <2>5, <3>2 DEF SoundAt, Tracked, UsesBy
    <3> QED
      BY <1>1, <2>1, <3>1, <3>2, <3>3
  <2>7. ASSUME i.op = "load", NEW n \in Fetched(function, i, N)
        PROVE - i.slot \in h2[n]
    <3>1. - i.slot \in h[n]
      BY <2>3, <2>7 DEF Fits, Needs
    <3>2. n \in Names(function)
      BY <2>7, FetchedAreNames
    <3>3. i.slot \in 1 .. slots /\ slots \in Nat
      BY <2>7 DEF Coded, SlotsKnown, Memory, Shape, CodeTyped
    <3>4. - i.slot < 0
      BY <3>3
    <3> QED
      BY <1>1, <2>1, <3>1, <3>2, <3>4
  <2>8. ASSUME NEW n \in Names(function), NEW x \in V[b][p][n]
        PROVE Justified(function, i, range, N, h2, n, x)
    <3>1. x \in W[b][p][n] /\ (x < 0 \/ x = SP \/ x \in A[b][p])
      BY <1>1, <2>1, <2>8
    <3>2. x \in Ranges \/ x < 0
      BY <2>1, <3>1 DEF Located
    <3>3. Justified(function, i, range, N, h, n, x)
      BY <2>3, <3>1 DEF Fits
    <3>4. ASSUME ~ WritesTo(i, range, x) PROVE \A m \in Looked(function, i, n) : x \in h[m] => x \in h2[m]
      <4>1. x \notin DefsBy(i, range)
        BY <3>4 DEF WritesTo, DefsBy, SeqSet
      <4>2. x < 0 \/ x = SP \/ x \in A[b][p - 1]
        BY <2>5, <3>1, <3>2, <4>1 DEF SoundAt, Tracked
      <4> QED
        BY <1>1, <2>1, <4>2, LookedAreNames
    <3> HIDE DEF i, h, h2
    <3> QED
      BY <3>3, <3>4, JustifiedVia
  <2> QED
    BY <2>2, <2>6, <2>7, <2>8 DEF Fits, Needs
<1>7. Fitting(V, N)
  BY <1>6 DEF Fitting
<1> QED
  BY <1>1, <1>3, <1>4, <1>5, <1>7 DEF V

-----------------------------------------------------------------------------
(* Steps that leave the code alone leave the claims alone. *)
LEMMA NamesStay ==
  ASSUME UNCHANGED << function, code, range >>, NEW N, Named(N), Steady(N)
  PROVE  Named(N)' /\ Steady(N)'
<1>1. Blocks' = Blocks /\ \A b : Indices(b)' = Indices(b)
  BY DEF Blocks, Indices
<1> QED
  BY <1>1 DEF Named, Steady, Closing, Names

LEMMA FittingStays ==
  ASSUME Shape, UNCHANGED << function, code, range >>, pc' # "spill", pc = "spill" => AtEnd,
         NEW W, NEW N, Fitting(W, N)
  PROVE  Fitting(W, N)'
<1>1. ASSUME NEW b \in Blocks, NEW p \in Indices(b) PROVE PlaceAt(b, p) = range
  <2>1. b \in 1 .. Len(code) /\ cursor[1] \in Nat
    BY CodeShape DEF Shape, CursorInCode
  <2>2. pc = "spill" => Handled(b, p)
    BY <2>1, CodeShape DEF Handled, AtEnd
  <2> QED
    BY <2>2 DEF PlaceAt
<1>2. \A b, p : PlaceAt(b, p)' = range
  BY DEF PlaceAt
<1>3. \A b \in Blocks : \A p \in Indices(b) : Fits(function, code[b][p], range, N, W[b][p - 1], W[b][p])
  BY <1>1 DEF Fitting
<1> QED
  BY <1>2, <1>3 DEF Fitting, Blocks, Indices

LEMMA PlacesStay ==
  ASSUME UNCHANGED << function, code, slots >>, Ranges' = Ranges, NEW W, Passed(W), Located(W)
  PROVE  Passed(W)' /\ Located(W)'
  BY DEF Passed, Located, Blocks

LEMMA WithinStays ==
  ASSUME UNCHANGED << function, code >>, NEW W, NEW A, Within(W, A)
  PROVE  Within(W, A)'
  BY DEF Within, Blocks

LEMMA ParametersHaveHomes ==
  ASSUME NEW f, Disciplined(f)
  PROVE  \A n \in f.params : f.home[n] # NoReg
  BY DEF Disciplined, ParametersApart

(* A live range that has a register keeps it, and so do the parameters.    *)
LEMMA ArrivedStays ==
  ASSUME Disciplined(function), function' = function, Ranges' = Ranges,
         \A x \in Ranges : reg[x] # NoReg => reg'[x] = reg[x], NEW W, Arrived(W)
  PROVE  Arrived(W)'
<1>1. \A n \in function.params : function.home[n] # NoReg
  BY ParametersHaveHomes
<1> QED
  BY <1>1 DEF Arrived

LEMMA ClaimedStays ==
  ASSUME Shape, Disciplined(function), UNCHANGED << function, code, range, slots >>, pc' # "spill",
         pc = "spill" => AtEnd, Ranges' = Ranges,
         \A x \in Ranges : reg[x] # NoReg => reg'[x] = reg[x], NEW N, NEW W, Claimed(N, W)
  PROVE  Claimed(N, W)'
<1>1. Named(N)' /\ Steady(N)'
  BY NamesStay DEF Claimed
<1>2. Fitting(W, N)' /\ Passed(W)' /\ Located(W)' /\ Arrived(W)'
  BY FittingStays, PlacesStay, ArrivedStays DEF Claimed, Claims
<1>3. Raw(W)'
  BY DEF Raw
<1> QED
  BY <1>1, <1>2, <1>3 DEF Claimed, Claims

-----------------------------------------------------------------------------
(* At the precolouring, every live range claims its variable while it is   *)
(* live.                                                                   *)
LEMMA SourceIsSteady ==
  ASSUME Shape, Coded, Early, NEW N, \A v \in DOMAIN function.name : N[v] = {function.name[v]}
  PROVE  Steady(N)
<1>1. /\ function \in Functions /\ code = function.blocks /\ Disciplined(function)
      /\ \A b \in Blocks : Indices(b) = DOMAIN function.blocks[b] /\ b \in DOMAIN function.blocks
  BY CodeShape DEF Shape, Coded, Untouched, Blocks, Indices
<1>2. ASSUME NEW b \in Blocks, NEW p \in Indices(b)
      PROVE /\ code[b][p] \in SourceOf(function)
            /\ SetBy(function, code[b][p]) = Sets(function, function.blocks[b][p])
            /\ Operands(code[b][p]) \subseteq DOMAIN function.name
  <2>1. code[b][p] \in SourceOf(function)
    BY <1>1 DEF SourceOf, SeqSet
  <2>2. OriginalIn(function, code[b][p]) = code[b][p] /\ code[b][p].id # 0
    BY <1>1, <2>1, OriginalOfSource, SourceFacts
  <2>3. Operands(code[b][p]) \subseteq DOMAIN function.name
    BY <1>1, <2>1, SourceFacts DEF Operands, SeqSet
  <2> QED
    BY <1>1, <2>1, <2>2, <2>3 DEF SetBy
<1> SUFFICES ASSUME NEW b \in Blocks, NEW q \in Indices(b), NEW r \in Indices(b), q < r,
                    NEW v \in Closing(function, code[b][q]) \cap Operands(code[b][r])
             PROVE /\ v \notin SeqSet(code[b][r].dst)
                   /\ \A m \in q .. r : \/ m = q /\ v \in SeqSet(code[b][q].dst)
                                        \/ N[v] \cap SetBy(function, code[b][m]) = {}
  BY DEF Steady
<1>0. v \in Operands(code[b][q])
  BY DEF Closing
<1>3. /\ v \notin SeqSet(function.blocks[b][r].dst)
      /\ \A m \in q .. r : \/ m = q /\ v \in SeqSet(function.blocks[b][q].dst)
                           \/ function.name[v] \notin Sets(function, function.blocks[b][m])
  <2>1. SettledAfter(function, b, q, v)
    <3>1. b \in DOMAIN function.blocks /\ q \in DOMAIN function.blocks[b] /\ code[b][q] = function.blocks[b][q]
      BY <1>1
    <3>2. CASE WrittenWhenSettled(function)
      BY <1>0, <3>1, <3>2 DEF WrittenWhenSettled
    <3>3. CASE ~ WrittenWhenSettled(function)
      <4>1. v \in SeqSet(Read(function.blocks[b][q]))
        BY <3>1, <3>3 DEF Closing
      <4> QED
        BY <1>1, <3>1, <4>1 DEF Disciplined, ReadWhenSettled
    <3> QED
      BY <3>2, <3>3
  <2> QED
    BY <1>1, <2>1 DEF SettledAfter
<1>4. N[v] = {function.name[v]}
  BY <1>0, <1>2
<1>5. \A m \in q .. r : m \in Indices(b)
  BY CodeShape DEF Indices
<1>6. \A m \in q .. r : SetBy(function, code[b][m]) = Sets(function, function.blocks[b][m])
  BY <1>2, <1>5
<1> QED
  BY <1>1, <1>3, <1>4, <1>6

LEMMA SourceClaims ==
  ASSUME Shape, Coded, pc = "liveness", Early, Visited = Blocks
  PROVE  LET N == [v \in DOMAIN range |-> {range[v]}]
             W == [b \in Blocks |-> [p \in 0 .. Len(code[b]) |-> [n \in Names(function) |-> {n}]]]
         IN Named(N) /\ Fitting(W, N) /\ Passed(W) /\ Located(W)
<1> DEFINE N == [v \in DOMAIN range |-> {range[v]}]
           W == [b \in Blocks |-> [p \in 0 .. Len(code[b]) |-> [n \in Names(function) |-> {n}]]]
<1>1. /\ function \in Functions /\ code = function.blocks /\ Disciplined(function) /\ range = function.name
      /\ \A b \in Blocks : /\ Indices(b) = DOMAIN function.blocks[b] /\ b \in DOMAIN function.blocks
                           /\ Len(code[b]) \in Nat
      /\ \A v \in DOMAIN function.name : function.name[v] \in Names(function)
      /\ DOMAIN reg = Names(function)
  BY CodeShape, FunctionsAssumption DEF Shape, Coded, Untouched, Blocks, Indices, Names
<1>2. \A v \in DOMAIN range : N[v] = {range[v]} /\ DOMAIN N = DOMAIN range
  OBVIOUS
<1>3. \A b \in Blocks : \A p \in 0 .. Len(code[b]) : \A n \in Names(function) : W[b][p][n] = {n}
  OBVIOUS
<1> HIDE DEF N, W
<1>4. Named(N)
  <2>1. DOMAIN N = DOMAIN range
    BY DEF N
  <2> QED
    BY <1>1, <1>2, <2>1 DEF Named
<1>5. Located(W)
  BY <1>1, <1>3 DEF Located, Ranges
<1>6. Passed(W)
  <2>1. \A b \in Blocks : function.succ[b] \subseteq Blocks
    BY FunctionsAssumption DEF Shape, Blocks
  <2>2. \A b \in Blocks : 0 \in 0 .. Len(code[b]) /\ Len(code[b]) \in 0 .. Len(code[b])
    BY <1>1
  <2> QED
    BY <1>3, <2>1, <2>2 DEF Passed
<1>7. ASSUME NEW b \in Blocks, NEW p \in Indices(b)
      PROVE Fits(function, code[b][p], PlaceAt(b, p), N, W[b][p - 1], W[b][p])
  <2> DEFINE i == code[b][p]
             h == W[b][p - 1]
  <2>1. p - 1 \in 0 .. Len(code[b]) /\ p \in 0 .. Len(code[b])
    BY <1>1, <1>7 DEF Indices
  <2>2. PlaceAt(b, p) = range
    BY DEF PlaceAt
  <2>3. i \in SourceOf(function)
    BY <1>1 DEF SourceOf, SeqSet
  <2>4. i.id # 0 /\ i.op \in {"copy", "const", "op"} /\ OriginalIn(function, i) = i
    BY <1>1, <2>3, SourceFacts, OriginalOfSource
  <2>5. \A n \in Names(function) : h[n] = {n} /\ W[b][p][n] = {n}
    BY <1>3, <2>1
  <2>6. \A v \in SeqSet(Read(i)) : v \in DOMAIN range
    BY CodeFacts
  <2> HIDE DEF h, i
  <2>7. Needs(function, i, range, N, h)
    BY <1>1, <1>2, <2>4, <2>5, <2>6 DEF Needs
  <2>8. ASSUME NEW n \in Names(function), NEW x \in W[b][p][n]
        PROVE Justified(function, i, range, N, h, n, x)
    <3>1. x = n
      BY <2>5, <2>8
    <3>2. CASE \E k \in DOMAIN i.dst : range[i.dst[k]] = n
      <4>1. PICK k \in DOMAIN i.dst : range[i.dst[k]] = n
        BY <3>2
      <4>2. i.dst[k] \in DOMAIN range
        BY <1>1, <2>3, SourceFacts
      <4> QED
        BY <1>2, <3>1, <4>1, <4>2 DEF Justified, Given
    <3>3. CASE ~ \E k \in DOMAIN i.dst : range[i.dst[k]] = n
      <4>1. n \notin SetBy(function, i)
        BY <1>1, <2>4, <3>3 DEF SetBy, Sets, SeqSet
      <4>2. ~ WritesTo(i, range, x)
        BY <2>4, <3>1, <3>3 DEF WritesTo, Stores
      <4> QED
        BY <2>5, <3>1, <4>1, <4>2 DEF Justified, Keeps
    <3> QED
      BY <3>2, <3>3
  <2> QED
    BY <2>2, <2>7, <2>8 DEF Fits, h, i
<1>8. Fitting(W, N)
  BY <1>7 DEF Fitting
<1> QED
  BY <1>4, <1>5, <1>6, <1>8 DEF N, W

LiveClaims(N, V, A) ==
  /\ Named(N) /\ Steady(N) /\ Fitting(V, N) /\ Passed(V) /\ Located(V) /\ Within(V, A)
  /\ \A b \in Blocks : \A p \in 0 .. Len(code[b]) : \A n \in Names(function) : V[b][p][n] \subseteq {n}

LEMMA LiveSourceClaims ==
  ASSUME Shape, Coded, pc = "liveness", Early, Visited = Blocks, NEW A, NEW R,
         Sound(A, code, range, Tracked, R), Flows(A, code, Tracked)
  PROVE  \E N, V : LiveClaims(N, V, A)
<1> DEFINE N0 == [v \in DOMAIN range |-> {range[v]}]
           W0 == [b \in Blocks |-> [p \in 0 .. Len(code[b]) |-> [n \in Names(function) |-> {n}]]]
<1>1. PICK N : N = N0
  OBVIOUS
<1>2. PICK W : W = W0
  OBVIOUS
<1>3. Named(N) /\ Fitting(W, N) /\ Passed(W) /\ Located(W)
  BY <1>1, <1>2, SourceClaims
<1>4. \A b \in Blocks : \A p \in 0 .. Len(code[b]) : \A n \in Names(function) : W[b][p][n] = {n}
  BY <1>2
<1>5. PICK V : V = Restricted(W, A)
  OBVIOUS
<1>6. /\ Fitting(V, N) /\ Passed(V) /\ Located(V) /\ Within(V, A)
      /\ \A b \in Blocks : \A p \in 0 .. Len(code[b]) : \A n \in Names(function) :
           V[b][p][n] = { x \in W[b][p][n] : x < 0 \/ x = SP \/ x \in A[b][p] }
  <2>1. pc # "spill"
    OBVIOUS
  <2> QED
    BY <2>1, <1>3, <1>5, Restricts
<1>7. Steady(N)
  <2>1. \A v \in DOMAIN function.name : N[v] = {function.name[v]}
    BY <1>3 DEF Named
  <2> QED
    BY <2>1, SourceIsSteady
<1>8. \A b \in Blocks : \A p \in 0 .. Len(code[b]) : \A n \in Names(function) : V[b][p][n] \subseteq {n}
  BY <1>4, <1>6
<1> QED
  BY <1>3, <1>6, <1>7, <1>8 DEF LiveClaims

LEMMA PrecoloringClaims ==
  ASSUME Known, Coded, BuildInterference, resume = "precolor", Visited = Blocks,
         liveIn[1] \subseteq function.params
  PROVE  Faithful'
<1>1. /\ Shape /\ OnlyVisitedLive /\ Unsettled = {} /\ pc = "liveness" /\ Early /\ pc' = "coalesce"
      /\ UNCHANGED << function, code, range, slots >> /\ reg' = function.home
  BY DEF Known, IInv, CInv, BuildInterference, Early
<1>2. PICK A : A = Settled /\ Annotates(A)'
  BY BuiltAnnotation
<1>3. Ranges' = Ranges
  BY BuiltAnnotation
<1>4. PICK R : Sound(A, code, range, Tracked, R) /\ Flows(A, code, Tracked)
  BY <1>1, <1>2, SettledAnnotates
<1>5a. PICK N, V : LiveClaims(N, V, A)
  BY <1>1, <1>4, LiveSourceClaims
<1>5. /\ Named(N) /\ Steady(N) /\ Fitting(V, N) /\ Passed(V) /\ Located(V) /\ Within(V, A)
      /\ \A b \in Blocks : \A p \in 0 .. Len(code[b]) : \A n \in Names(function) :
           V[b][p][n] \subseteq {n}
  BY <1>5a DEF LiveClaims
<1>6. 1 \in Blocks
  <2>1. Blocks = 1 .. Len(code) /\ Len(code) \in Nat /\ code = function.blocks /\ code # << >>
    BY <1>1, CodeShape DEF Coded, Untouched, Disciplined, Shape, CodeTyped
  <2>2. Len(code) # 0
    BY <1>1, <2>1, EmptySeq DEF Shape, CodeTyped
  <2> QED
    BY <2>1, <2>2
<1>7. Arrived(V)'
  <2> SUFFICES ASSUME NEW n \in Names(function), NEW x \in V[1][0][n]
               PROVE \/ x = SP /\ n = SP
                     \/ x \in Ranges /\ n \in function.params /\ function.home[n] = function.home[x]
    BY <1>1, <1>3 DEF Arrived
  <2>1. 0 \in 0 .. Len(code[1])
    BY <1>1, <1>6, CodeShape
  <2>2. x = n /\ (x < 0 \/ x = SP \/ x \in A[1][0])
    BY <1>5, <1>6, <2>1 DEF Within
  <2>3. n \in Ranges /\ ~ (n < 0)
    <3>1. DOMAIN reg = Names(function)
      BY <1>1 DEF Coded, Untouched, Names
    <3> QED
      BY <1>1, <3>1, CodeShape DEF Ranges
  <2>4. CASE x \in A[1][0]
    <3>1. x \in Equation(1)
      BY <1>1, <1>2, <1>6, <2>4, StartIsEquation
    <3>2. liveIn[1] = Equation(1)
      BY <1>1, <1>6 DEF Unsettled
    <3> QED
      BY <2>2, <2>3, <3>1, <3>2
  <2> QED
    BY <2>2, <2>3, <2>4
<1>8. Named(N)' /\ Steady(N)'
  BY <1>1, <1>5, NamesStay
<1>9. Fitting(V, N)' /\ Passed(V)' /\ Located(V)' /\ Within(V, A)'
  <2>1. Fitting(V, N)'
    BY <1>1, <1>5, FittingStays
  <2>2. Passed(V)' /\ Located(V)' /\ Within(V, A)'
    BY <1>1, <1>3, <1>5, PlacesStay, WithinStays
  <2> QED
    BY <2>1, <2>2
<1>10. Raw(V)'
  BY <1>1 DEF Raw
<1> QED
  BY <1>1, <1>2, <1>7, <1>8, <1>9, <1>10 DEF Faithful, Claimed, Claims

-----------------------------------------------------------------------------
(* The steps that leave the code alone. *)
LEMMA CodedStays ==
  ASSUME Coded, UNCHANGED << function, code, range, slots >>, pc' # "spill",
         Uncolored' => Uncolored, Untouched', TwoColored', OnlyStackPointer'
  PROVE  Coded'
<1>1. Blocks' = Blocks /\ \A b : Indices(b)' = Indices(b)
  BY DEF Blocks, Indices
<1>2. FromSource' /\ ReadLast' /\ LoadsFirst'
  BY <1>1 DEF Coded, FromSource, ReadLast, LoadsFirst
<1>3. SlotsKnown' /\ VictimStored' /\ StoresSettled' /\ StackPointerStays'
  BY <1>1 DEF Coded, SlotsKnown, VictimStored, StoresSettled, StackPointerStays, Source, SP
<1> QED
  BY <1>2, <1>3 DEF Coded

LEMMA RegistersStay ==
  ASSUME Coded, UNCHANGED << function, code, range, reg >>, Early' => Early, Early => Early'
  PROVE  Untouched' /\ TwoColored' /\ OnlyStackPointer'
<1>1. Blocks' = Blocks /\ \A b : Indices(b)' = Indices(b)
  BY DEF Blocks, Indices
<1> QED
  BY <1>1 DEF Coded, Untouched, TwoColored, OnlyStackPointer, RegOf, Ranges, NoReg, RSP, SP

LEMMA ColoringCodes ==
  ASSUME Known, Coded, UNCHANGED << function, code, range >>, ~ Early, ~ Early', Ranges' = Ranges,
         \A x \in Ranges : reg[x] # NoReg => reg'[x] = reg[x],
         \A x \in Ranges : reg'[x] = RSP => reg[x] = RSP
  PROVE  Untouched' /\ TwoColored' /\ OnlyStackPointer'
<1>1. Blocks' = Blocks /\ \A b : Indices(b)' = Indices(b)
  BY DEF Blocks, Indices
<1>2. OnlyStackPointer' /\ Untouched'
  BY DEF Coded, Untouched, OnlyStackPointer, RSP, SP
<1>3. TwoColored'
  <2> SUFFICES ASSUME NEW b \in Blocks, NEW p \in Indices(b), Len(code[b][p].dst) = 2
               PROVE /\ RegOf(code[b][p].dst[1])' # NoReg /\ RegOf(code[b][p].dst[2])' # NoReg
                     /\ RegOf(code[b][p].dst[1])' # RegOf(code[b][p].dst[2])'
    BY <1>1 DEF TwoColored, NoReg
  <2>1. /\ RegOf(code[b][p].dst[1]) # NoReg /\ RegOf(code[b][p].dst[2]) # NoReg
        /\ RegOf(code[b][p].dst[1]) # RegOf(code[b][p].dst[2])
    BY DEF Coded, TwoColored
  <2>2. range[code[b][p].dst[1]] \in Ranges /\ range[code[b][p].dst[2]] \in Ranges
    BY CodeFacts DEF Known, IInv
  <2> QED
    BY <2>1, <2>2 DEF RegOf
<1> QED
  BY <1>2, <1>3

LEMMA BuildFaithful ==
  ASSUME Known, Coded, Build
  PROVE  Coded' /\ Faithful'
<1>1. /\ UNCHANGED << function, code, range, slots, reg >>
      /\ pc = "build" /\ pc' = "liveness" /\ resume' = "precolor"
  BY DEF Build, Analyse
<1>2. Early /\ Early' /\ Uncolored /\ pc' # "spill"
  BY <1>1 DEF Early, Uncolored
<1>3. Coded'
  BY <1>1, <1>2, RegistersStay, CodedStays
<1>4. Faithful'
  BY <1>1, <1>2 DEF Faithful
<1> QED
  BY <1>3, <1>4

LEMMA VisitBlockFaithful ==
  ASSUME Known, Coded, Faithful, VisitBlock
  PROVE  Coded' /\ Faithful'
<1>1. /\ UNCHANGED << function, code, range, slots, reg >>
      /\ pc = "liveness" /\ pc' = "liveness" /\ resume' = resume
  BY DEF VisitBlock
<1>2. (Early' <=> Early) /\ (Uncolored' <=> Uncolored) /\ pc' # "spill" /\ Ranges' = Ranges
  BY <1>1 DEF Early, Uncolored, Merging, Ranges
<1>3. Coded'
  BY <1>1, <1>2, RegistersStay, CodedStays
<1>4. Faithful'
  <2> SUFFICES ASSUME ~ Early PROVE \E N, W : Claimed(N, W)'
    BY <1>1, <1>2 DEF Faithful
  <2>1. PICK N, W : Claimed(N, W)
    BY <1>1 DEF Faithful
  <2>2. Claimed(N, W)'
    BY <1>1, <1>2, <2>1, ClaimedStays DEF Known, IInv, Coded
  <2> QED
    BY <2>2
<1> QED
  BY <1>3, <1>4

LEMMA EndRoundFaithful ==
  ASSUME Known, Coded, Faithful, EndRound
  PROVE  Coded' /\ Faithful'
<1>1. /\ UNCHANGED << function, code, range, slots, reg >> /\ pc = "coalesce"
      /\ (pc' = "liveness" /\ resume' = "coalesce") \/ pc' = "color"
  BY DEF EndRound, Analyse
<1>2. ~ Early /\ ~ Early' /\ Uncolored /\ pc' # "spill" /\ Ranges' = Ranges
  BY <1>1 DEF Early, Uncolored, Merging, Ranges
<1>3. Coded'
  BY <1>1, <1>2, RegistersStay, CodedStays
<1>4. Faithful'
  <2>1. PICK N, W, A : Claimed(N, W) /\ Annotates(A) /\ Within(W, A)
    BY <1>1 DEF Faithful
  <2>2. Claimed(N, W)'
    BY <1>1, <1>2, <2>1, ClaimedStays DEF Known, IInv, Coded
  <2> QED
    BY <1>1, <2>2 DEF Faithful
<1> QED
  BY <1>3, <1>4

LEMMA RestartFaithful ==
  ASSUME Known, Coded, Faithful, Restart
  PROVE  Coded' /\ Faithful'
<1>1. /\ UNCHANGED << function, code, range, slots, reg >> /\ pc = "spill" /\ AtEnd
      /\ pc' = "liveness" /\ resume' = "color"
  BY DEF Restart, Analyse
<1>2. ~ Early /\ ~ Early' /\ ~ Uncolored' /\ pc' # "spill" /\ Ranges' = Ranges
  BY <1>1 DEF Early, Uncolored, Merging, Ranges
<1>3. Coded'
  BY <1>1, <1>2, RegistersStay, CodedStays
<1>4. Faithful'
  <2>1. PICK N, W : Claimed(N, W)
    BY <1>1, <1>2 DEF Faithful
  <2>2. Claimed(N, W)'
    BY <1>1, <1>2, <2>1, ClaimedStays DEF Known, IInv, Coded
  <2> QED
    BY <1>1, <2>2 DEF Faithful
<1> QED
  BY <1>3, <1>4

LEMMA ColorFaithful ==
  ASSUME Known, Coded, Faithful, NEW r \in queue, Color(r)
  PROVE  Coded' /\ Faithful'
<1>1. /\ UNCHANGED << function, code, range, slots >> /\ pc = "color" /\ pc' = "color"
      /\ reg' = [reg EXCEPT ![r] = Allocated(r)]
  BY DEF Color
<1>2. ~ Early /\ ~ Early' /\ ~ Uncolored' /\ pc' # "spill"
  BY <1>1 DEF Early, Uncolored, Merging
<1>3. r \in Ranges
  BY DEF Known, Typed, Kept
<1>4. Ranges' = Ranges
  BY <1>1 DEF Ranges
<1>5. \A x \in Ranges : reg[x] # NoReg => reg'[x] = reg[x]
  BY <1>1, <1>3 DEF Allocated, Ranges
<1>6. \A x \in Ranges : reg'[x] = RSP => reg[x] = RSP
  <2>1. Free(r) # {} => Min(Free(r)) \in 1 .. K
    <3>1. Free(r) \subseteq 1 .. K /\ Free(r) \subseteq Nat
      BY KAssumption DEF Free
    <3> QED
      BY <3>1, MinIsSmallest
  <2>2. Allocated(r) = RSP => reg[r] = RSP
    BY <2>1, KAssumption DEF Allocated, RSP, NoReg
  <2> QED
    BY <1>1, <1>3, <2>2 DEF Ranges
<1>7. Coded'
  BY <1>1, <1>2, <1>4, <1>5, <1>6, ColoringCodes, CodedStays
<1>8. Faithful'
  <2>1. PICK N, W : Claimed(N, W)
    BY <1>1, <1>2 DEF Faithful
  <2>2. Claimed(N, W)'
    BY <1>1, <1>2, <1>4, <1>5, <2>1, ClaimedStays DEF Known, IInv, Coded
  <2> QED
    BY <1>1, <2>2 DEF Faithful
<1> QED
  BY <1>7, <1>8

LEMMA EntryIsBlock ==
  ASSUME Shape, Coded
  PROVE  1 \in Blocks
<1>1. Blocks = 1 .. Len(code) /\ Len(code) \in Nat /\ Len(code) = Len(function.blocks) /\ function.blocks # << >>
  BY CodeShape DEF Coded, Disciplined, Shape, CodeTyped
<1>2. function.blocks \in Seq(Seq(Instr))
  BY FunctionsAssumption DEF Shape, Function
<1>3. Len(function.blocks) # 0
  BY <1>1, <1>2, EmptySeq
<1> QED
  BY <1>1, <1>3

LEMMA ClaimedWithin ==
  ASSUME Shape, Coded, pc # "spill", Visited = Blocks, NEW N, NEW W, NEW A, NEW R, Claimed(N, W),
         Sound(A, code, range, Tracked, R), Flows(A, code, Tracked)
  PROVE  \E V : Claimed(N, V) /\ Within(V, A)
<1>1. PICK V : V = Restricted(W, A)
  OBVIOUS
<1>2. /\ Fitting(V, N) /\ Passed(V) /\ Located(V) /\ Within(V, A)
      /\ \A b \in Blocks : \A p \in 0 .. Len(code[b]) : \A n \in Names(function) :
           V[b][p][n] = { x \in W[b][p][n] : x < 0 \/ x = SP \/ x \in A[b][p] }
  BY <1>1, Restricts DEF Claimed, Claims
<1>3. 1 \in Blocks /\ 0 \in 0 .. Len(code[1])
  BY EntryIsBlock, CodeShape
<1>4. Arrived(V)
  BY <1>2, <1>3 DEF Claimed, Claims, Arrived
<1>5. Raw(V)
  BY DEF Raw
<1> QED
  BY <1>2, <1>4, <1>5 DEF Claimed, Claims

LEMMA BuildInterferenceFaithful ==
  ASSUME Known, Coded, Faithful, BuildInterference, Visited = Blocks,
         resume = "precolor" => liveIn[1] \subseteq function.params
  PROVE  Coded' /\ Faithful'
<1>1. /\ Shape /\ OnlyVisitedLive /\ Unsettled = {} /\ pc = "liveness"
      /\ UNCHANGED << function, code, range, slots, resume >> /\ pc' \in {"coalesce", "color"}
      /\ pc' = "color" <=> resume = "color"
      /\ resume \in {"precolor", "coalesce", "color"}
  BY DEF Known, IInv, CInv, BuildInterference, liveness, Typed, ControlTyped
<1>2. Ranges' = Ranges /\ \E E : E = Settled /\ Annotates(E)'
  BY BuiltAnnotation
<1>3. PICK A : A = Settled /\ Annotates(A)'
  BY <1>2
<1>4. ~ Early' /\ pc' # "spill" /\ (Uncolored' => Uncolored) /\ pc # "spill"
  BY <1>1 DEF Early, Uncolored, Merging
<1>5. CASE resume = "precolor"
  <2>1. /\ function \in Functions /\ Disciplined(function) /\ code = function.blocks
        /\ range = function.name /\ reg' = function.home
        /\ \A b \in Blocks : Indices(b) = DOMAIN function.blocks[b] /\ b \in DOMAIN function.blocks
    BY <1>1, <1>5, CodeShape DEF Coded, Untouched, Early, Shape, BuildInterference, Indices, Blocks
  <2>2. OnlyStackPointer'
    BY <2>1, <1>2 DEF Disciplined, ParametersApart, OnlyStackPointer, Ranges, RSP, SP
  <2>3. TwoColored'
    <3>1. Blocks' = Blocks /\ \A b : Indices(b)' = Indices(b)
      BY <1>1 DEF Blocks, Indices
    <3>2. ASSUME NEW b \in Blocks, NEW p \in Indices(b), Len(code[b][p].dst) = 2
          PROVE /\ RegOf(code[b][p].dst[1])' # NoReg /\ RegOf(code[b][p].dst[2])' # NoReg
                /\ RegOf(code[b][p].dst[1])' # RegOf(code[b][p].dst[2])'
      <4>1. \A v : RegOf(v)' = function.home[function.name[v]]
        BY <1>1, <2>1 DEF RegOf
      <4>2. b \in DOMAIN function.blocks /\ p \in DOMAIN function.blocks[b]
            /\ code[b][p] = function.blocks[b][p]
        BY <2>1, <3>2
      <4> QED
        BY <1>1, <2>1, <3>2, <4>1, <4>2 DEF Disciplined, HomesApart
    <3> QED
      BY <1>1, <3>1, <3>2 DEF TwoColored, NoReg
  <2>4. Coded'
    BY <1>1, <1>4, <2>2, <2>3, CodedStays DEF Untouched
  <2> QED
    BY <1>5, <2>4, PrecoloringClaims
<1>6. CASE resume # "precolor"
  <2>1. reg' = reg /\ ~ Early
    BY <1>1, <1>6 DEF BuildInterference, Early
  <2>2. Coded'
    BY <1>1, <1>4, <2>1, RegistersStay, CodedStays
  <2>3. PICK N, W : Claimed(N, W)
    BY <1>1, <2>1 DEF Faithful
  <2>4. ASSUME NEW V, Claimed(N, V) PROVE Claimed(N, V)'
    BY <1>1, <1>2, <1>4, <2>1, <2>4, ClaimedStays DEF Coded
  <2>5. PICK R : Sound(A, code, range, Tracked, R) /\ Flows(A, code, Tracked)
    BY <1>1, <1>3, SettledAnnotates
  <2>6. PICK V : Claimed(N, V) /\ Within(V, A)
    BY <1>1, <1>4, <2>3, <2>5, ClaimedWithin
  <2>7. Claimed(N, V)' /\ Within(V, A)' /\ Annotates(A)'
    BY <1>1, <1>3, <2>4, <2>6, WithinStays
  <2>8. Faithful'
    BY <1>1, <2>7 DEF Faithful
  <2> QED
    BY <2>2, <2>8
<1> QED
  BY <1>5, <1>6

-----------------------------------------------------------------------------
(* When a live range is renamed, its claims are: m maps places to places.  *)
Moved(W, m) ==
  [b \in Blocks |-> [p \in 0 .. Len(code[b]) |-> [n \in Names(function) |-> { m[x] : x \in W[b][p][n] }]]]

Moves(f, i, place, place2, N, h, h2, a, a2, m) ==
  /\ \A n \in Names(f) : h2[n] = { m[x] : x \in h[n] } /\ a2[n] = { m[x] : x \in a[n] }
  /\ \A v \in SeqSet(Read(i)) : place2[v] = m[place[v]] /\ N[v] \subseteq Names(f)
  /\ \A k \in DOMAIN i.dst : place2[i.dst[k]] = m[place[i.dst[k]]]
  /\ Memory(i) => m[- i.slot] = - i.slot
  /\ i.op = "load" => Fetched(f, i, N) \subseteq Names(f)
  /\ \A n \in Names(f) : Looked(f, i, n) \subseteq Names(f)
  /\ \A n \in Names(f) : \A x \in a[n] : ~ WritesTo(i, place, x) => ~ WritesTo(i, place2, m[x])

LEMMA FitsMoved ==
  ASSUME NEW f, NEW i, NEW place, NEW place2, NEW N, NEW h, NEW h2, NEW a, NEW a2, NEW m,
         Fits(f, i, place, N, h, a), Moves(f, i, place, place2, N, h, h2, a, a2, m)
  PROVE  Fits(f, i, place2, N, h2, a2)
<1> USE DEF Moves
<1>1. Needs(f, i, place2, N, h2)
  <2>1. ASSUME NEW v \in SeqSet(Read(i)), NEW n \in N[v] PROVE place2[v] \in h2[n]
    <3>1. place[v] \in h[n] /\ n \in Names(f)
      BY DEF Fits, Needs
    <3> QED
      BY <3>1
  <2>2. ASSUME i.op = "load", NEW n \in Fetched(f, i, N) PROVE - i.slot \in h2[n]
    <3>1. - i.slot \in h[n] /\ n \in Names(f) /\ m[- i.slot] = - i.slot
      BY <2>2 DEF Fits, Needs, Memory
    <3> QED
      BY <3>1
  <2> QED
    BY <2>1, <2>2 DEF Needs
<1>2. ASSUME NEW n \in Names(f), NEW y \in a2[n] PROVE Justified(f, i, place2, N, h2, n, y)
  <2>1. PICK x \in a[n] : y = m[x]
    OBVIOUS
  <2>2. Justified(f, i, place, N, h, n, x)
    BY DEF Fits
  <2>3. \A k \in DOMAIN i.dst : x = place[i.dst[k]] => y = place2[i.dst[k]]
    BY <2>1
  <2>4. Stores(i) /\ x = - i.slot => y = - i.slot
    BY <2>1 DEF Stores, Memory
  <2>5. \A j \in Looked(f, i, n) : x \in h[j] => y \in h2[j]
    BY <2>1
  <2> QED
    BY <2>1, <2>2, <2>3, <2>4, <2>5, JustifiedVia
<1> QED
  BY <1>1, <1>2 DEF Fits

(* At the start of a spill every claim to the victim becomes one to its    *)
(* stack slot: nothing has been rewritten.                                 *)
LEMMA NothingIsHandled ==
  ASSUME Shape, cursor' = First, NEW b \in Blocks, NEW p \in Indices(b)
  PROVE  ~ Handled(b, p)'
<1>1. Blocks = 1 .. Len(code) /\ Len(code) \in Nat /\ code[b] # << >> /\ p \in Nat /\ p >= 1
  BY CodeShape, EmptySeq DEF Shape, CodeTyped, Indices
<1> DEFINE c == CHOOSE c \in Blocks : code[c] # << >> /\ \A a \in Blocks : a < c => code[a] = << >>
<1>2. c \in Blocks /\ \A a \in Blocks : a < c => code[a] = << >>
  <2> DEFINE filled == { a \in Blocks : code[a] # << >> }
  <2>1. filled \subseteq Nat /\ filled # {}
    BY <1>1
  <2>2. PICK x \in filled : \A y \in filled : x <= y
    BY <2>1, SmallestExists
  <2>3. \A a \in Blocks : a < x => code[a] = << >>
    BY <1>1, <2>2
  <2> QED
    BY <2>2, <2>3
<1>3. First = << c, 1 >>
  BY <1>1 DEF First
<1> HIDE DEF c
<1>4. cursor'[1] = c /\ cursor'[2] = 1 /\ ~ (b < c)
  BY <1>1, <1>2, <1>3
<1> QED
  BY <1>1, <1>2, <1>4 DEF Handled

LEMMA StartSpillFaithful ==
  ASSUME Known, Coded, Faithful, NEW r \in queue, StartSpill(r), Respilled(r) => WrittenWhenSettled(function)
  PROVE  Coded' /\ Faithful'
<1>1. /\ Shape /\ UNCHANGED << function, code, range, reg >> /\ pc = "color" /\ pc' = "spill"
      /\ victim' = r /\ slots' = slots + 1 /\ cursor' = First /\ Allocated(r) = NoReg
      /\ slots \in Nat /\ r \in Ranges
  BY DEF Known, IInv, StartSpill, Shape, CodeTyped, Typed, Kept
<1>2. reg[r] = NoReg /\ r # SP /\ Ranges' = Ranges
  <2>1. reg[r] = NoReg
    BY <1>1 DEF Allocated
  <2> QED
    BY <1>1, <2>1, KAssumption DEF Shape, RangesTyped, NoReg, RSP, Ranges
<1>3. /\ ~ Early /\ ~ Early' /\ ~ Uncolored'
      /\ Blocks' = Blocks /\ \A b : Indices(b)' = Indices(b)
  BY <1>1 DEF Early, Uncolored, Merging, Blocks, Indices
<1>4. \A b \in Blocks : \A p \in Indices(b) : ~ Handled(b, p)'
  BY <1>1, NothingIsHandled
<1>5. Coded'
  <2>1. Untouched' /\ TwoColored' /\ OnlyStackPointer'
    BY <1>1, <1>3, RegistersStay
  <2>2. FromSource' /\ ReadLast' /\ LoadsFirst'
    <3>1. FromSource'
      BY <1>1, <1>3 DEF Coded, FromSource
    <3>2. ReadLast'
      <4>1. ReadLast
        BY DEF Coded
      <4>2. \A a \in Blocks : \A q \in Indices(a) :
              code'[a][q] = code[a][q] /\ Closing(function', code'[a][q]) = Closing(function, code[a][q])
        BY <1>1
      <4> QED
        BY <1>1, <1>3, <4>1, <4>2 DEF ReadLast
    <3>3. LoadsFirst'
      BY <1>1, <1>3 DEF Coded, LoadsFirst
    <3> QED
      BY <3>1, <3>2, <3>3
  <2>3. SlotsKnown'
    <3>1. ASSUME NEW b \in Blocks, NEW p \in Indices(b), Memory(code[b][p])
          PROVE code[b][p].slot \in 1 .. slots' /\ code[b][p].slot # slots'
      <4>1. code[b][p].slot \in 1 .. slots
        BY <3>1 DEF Coded, SlotsKnown
      <4> QED
        BY <1>1, <4>1
    <3> QED
      BY <1>1, <1>3, <3>1 DEF SlotsKnown
  <2>4. VictimStored' /\ StackPointerStays'
    BY <1>3, <1>4 DEF VictimStored, StackPointerStays
  <2>5. StoresSettled'
    BY <1>1, <1>3 DEF StoresSettled, Respilled
  <2> QED
    BY <1>1, <2>1, <2>2, <2>3, <2>4, <2>5 DEF Coded
<1>6. PICK N, W : Claimed(N, W)
  BY <1>1, <1>3 DEF Faithful
<1> DEFINE m0 == [x \in Ranges \cup { y \in Int : y < 0 } |-> IF x = r THEN - (slots + 1) ELSE x]
<1>7. PICK m : m = m0
  OBVIOUS
<1>8. m[r] = - (slots + 1) /\ \A x : (x \in Ranges \/ (x \in Int /\ x < 0)) /\ x # r => m[x] = x
  BY <1>1, <1>7
<1>9. PICK V : V = Moved(W, m)
  OBVIOUS
<1>10. /\ \A b \in Blocks : Len(code[b]) \in Nat
       /\ \A b \in Blocks : \A p \in 0 .. Len(code[b]) : \A n \in Names(function) :
            V[b][p][n] = { m[x] : x \in W[b][p][n] }
  BY <1>1, <1>9, CodeShape DEF Moved
<1>11. \A b \in Blocks : \A p \in 0 .. Len(code[b]) : \A n \in Names(function) : \A x \in W[b][p][n] :
         x \in Ranges \/ (x \in Int /\ x < 0 /\ - x <= slots)
  BY <1>6 DEF Claimed, Claims, Located
<1>12. Named(N)' /\ Steady(N)'
  BY <1>1, <1>6, NamesStay DEF Claimed
<1>13. Passed(V)'
  <2>1. ASSUME NEW b \in Blocks, NEW s \in function.succ[b], NEW n \in Names(function)
        PROVE V[s][0][n] \subseteq V[b][Len(code[b])][n]
    <3>1. s \in Blocks
      BY <1>1, FunctionsAssumption DEF Shape, Blocks
    <3>2. W[s][0][n] \subseteq W[b][Len(code[b])][n]
      BY <1>6 DEF Claimed, Claims, Passed
    <3>3. 0 \in 0 .. Len(code[s]) /\ Len(code[b]) \in 0 .. Len(code[b])
      BY <1>10, <3>1
    <3> QED
      BY <1>10, <3>1, <3>2, <3>3
  <2> QED
    BY <1>1, <1>3, <2>1 DEF Passed
<1>14. Located(V)'
  <2>1. ASSUME NEW b \in Blocks, NEW p \in 0 .. Len(code[b]), NEW n \in Names(function), NEW y \in V[b][p][n]
        PROVE y \in Ranges \/ (y \in Int /\ y < 0 /\ - y <= slots + 1)
    <3>1. PICK x \in W[b][p][n] : y = m[x]
      BY <1>10
    <3>2. x \in Ranges \/ (x \in Int /\ x < 0 /\ - x <= slots)
      BY <1>11
    <3> QED
      BY <1>1, <1>8, <3>1, <3>2
  <2> QED
    BY <1>1, <1>2, <1>3, <2>1 DEF Located
<1>15. Raw(V)'
  <2>1. ASSUME NEW b \in Blocks, NEW p \in 0 .. Len(code[b]), NEW n \in Names(function)
        PROVE r \notin V[b][p][n]
    <3>1. SUFFICES ASSUME NEW x \in W[b][p][n], r = m[x] PROVE FALSE
      BY <1>10
    <3>2. x \in Ranges \/ (x \in Int /\ x < 0 /\ - x <= slots)
      BY <1>11
    <3>3. r \in Nat
      BY <1>1, CodeShape
    <3> QED
      BY <1>1, <1>8, <3>1, <3>2, <3>3
  <2> QED
    BY <1>1, <1>3, <2>1 DEF Raw
<1>16. Arrived(V)'
  <2>1. ASSUME NEW n \in Names(function), NEW y \in V[1][0][n]
        PROVE \/ y = SP /\ n = SP
              \/ y \in Ranges /\ n \in function.params /\ reg[y] = function.home[n]
    <3>1. 1 \in Blocks /\ 0 \in 0 .. Len(code[1])
      BY <1>1, <1>10, EntryIsBlock
    <3>2. PICK x \in W[1][0][n] : y = m[x]
      BY <1>10, <3>1
    <3>3. \/ x = SP /\ n = SP
          \/ x \in Ranges /\ n \in function.params /\ reg[x] = function.home[n]
      BY <1>6 DEF Claimed, Claims, Arrived
    <3>4. \A j \in function.params : function.home[j] # NoReg
      BY ParametersHaveHomes DEF Coded
    <3>5. SP \in Ranges
      BY <1>1 DEF Shape, RangesTyped
    <3> QED
      BY <1>2, <1>8, <3>2, <3>3, <3>4, <3>5
  <2> QED
    BY <1>1, <1>2, <2>1 DEF Arrived
<1>17. Fitting(V, N)'
  <2>1. ASSUME NEW b \in Blocks, NEW p \in Indices(b)
        PROVE Fits(function, code[b][p], Slotted', N, V[b][p - 1], V[b][p])
    <3> DEFINE i == code[b][p]
    <3>1. p - 1 \in 0 .. Len(code[b]) /\ p \in 0 .. Len(code[b])
      BY <1>10, <2>1 DEF Indices
    <3>2. PlaceAt(b, p) = range
      BY <1>1 DEF PlaceAt
    <3>3. Fits(function, i, range, N, W[b][p - 1], W[b][p])
      BY <1>6, <3>2 DEF Claimed, Claims, Fitting
    <3>4. \A v \in DOMAIN range : range[v] \in Ranges /\ Slotted'[v] = m[range[v]]
      <4>1. \A v \in DOMAIN range : range[v] \in Ranges
        BY <1>1, CodeShape, ElementOfSeq DEF Shape, RangesTyped
      <4>2. \A v \in DOMAIN range : Slotted'[v] = IF range[v] = r THEN - (slots + 1) ELSE range[v]
        BY <1>1 DEF Slotted
      <4> QED
        BY <1>8, <4>1, <4>2
    <3>5. \A n \in Names(function) : V[b][p - 1][n] = { m[x] : x \in W[b][p - 1][n] }
                                     /\ V[b][p][n] = { m[x] : x \in W[b][p][n] }
      BY <1>10, <3>1
    <3>6. /\ \A v \in SeqSet(Read(i)) : Slotted'[v] = m[range[v]] /\ N[v] \subseteq Names(function)
          /\ \A k \in DOMAIN i.dst : Slotted'[i.dst[k]] = m[range[i.dst[k]]] /\ range[i.dst[k]] \in Ranges
      BY <1>1, <1>6, <3>4, CodeFacts, FetchedAreNames DEF Claimed
    <3>7. Memory(i) => i.slot \in 1 .. slots /\ m[- i.slot] = - i.slot
      <4>1. Memory(i) => i.slot \in 1 .. slots
        BY DEF Coded, SlotsKnown
      <4>2. i.slot \in 1 .. slots => - i.slot \in Int /\ - i.slot < 0
        BY <1>1
      <4>3. - i.slot \in Int /\ - i.slot < 0 => - i.slot # r
        BY <1>1, CodeShape
      <4> QED
        BY <1>8, <4>1, <4>2, <4>3
    <3>8. i.op = "load" => Fetched(function, i, N) \subseteq Names(function)
      BY <1>1, <1>6, FetchedAreNames DEF Claimed
    <3>9. \A n \in Names(function) : Looked(function, i, n) \subseteq Names(function)
      BY <1>1, LookedAreNames
    <3>10. ASSUME NEW n \in Names(function), NEW x \in W[b][p][n], ~ WritesTo(i, range, x)
           PROVE ~ WritesTo(i, Slotted', m[x])
      <4>1. x \in Ranges \/ (x \in Int /\ x < 0 /\ - x <= slots)
        BY <1>11, <3>1
      <4>2. \A y : y \in Ranges /\ m[x] = m[y] => x = y
        BY <1>1, <1>8, <4>1, CodeShape
      <4>3. \A k \in DOMAIN i.dst : m[x] # Slotted'[i.dst[k]]
        BY <3>6, <3>10, <4>2 DEF WritesTo
      <4>4. Stores(i) => m[x] # - i.slot
        <5>1. SUFFICES ASSUME Stores(i), m[x] = - i.slot PROVE FALSE
          OBVIOUS
        <5>2. i.slot \in 1 .. slots
          BY <3>7, <5>1 DEF Stores, Memory
        <5>3. x # r
          BY <1>1, <1>8, <5>1, <5>2
        <5>4. x = - i.slot
          BY <1>8, <4>1, <5>1, <5>3
        <5> QED
          BY <3>10, <5>1, <5>4 DEF WritesTo
      <4> QED
        BY <4>3, <4>4 DEF WritesTo
    <3> HIDE DEF i
    <3>11. Moves(function, i, range, Slotted', N, W[b][p - 1], V[b][p - 1], W[b][p], V[b][p], m)
      BY <3>5, <3>6, <3>7, <3>8, <3>9, <3>10 DEF Moves
    <3>12. Fits(function, i, Slotted', N, V[b][p - 1], V[b][p])
      BY <3>3, <3>11, FitsMoved
    <3> QED
      BY <3>12 DEF i
  <2>2. \A b \in Blocks : \A p \in Indices(b) : PlaceAt(b, p)' = Slotted'
    BY <1>1, <1>4 DEF PlaceAt
  <2> QED
    BY <1>1, <1>3, <2>1, <2>2 DEF Fitting
<1>18. Claimed(N, V)'
  BY <1>12, <1>13, <1>14, <1>15, <1>16, <1>17 DEF Claimed, Claims
<1>19. Faithful'
  BY <1>1, <1>18 DEF Faithful
<1> QED
  BY <1>5, <1>19

-----------------------------------------------------------------------------
(* A merge.                                                                *)
LEMMA MergeFacts ==
  ASSUME Known, Coded, pc = "coalesce", NEW at0, NEW s, NEW d, Absorbs(at0, s, d)
  PROVE  /\ Shape /\ d # SP /\ d \in Ranges /\ s \in Ranges /\ s # d /\ Ranges' = Ranges
         /\ reg[SP] = RSP /\ SP \in Ranges /\ DOMAIN reg = Ranges
         /\ at0[1] \in Blocks /\ at0[2] \in Indices(at0[1])
         /\ at0 = << at0[1], at0[2] >>
         /\ s \notin neighbors[d] /\ d \notin neighbors[s]
         /\ \A other : Defines(other, d) /\ other # at0 => s # SP
         /\ \A x \in Ranges : reg[x] # NoReg => reg'[Absorbed(x, s, d)] = reg[x]
         /\ slots = 0 /\ \A b \in Blocks : \A p \in Indices(b) : ~ Memory(code[b][p])
<1>1. Shape /\ Mutual /\ CInv /\ d \in Ranges /\ s \in Ranges /\ s # d /\ s \notin neighbors[d]
      /\ CopyInto(at0, d) /\ ~ RegistersConflict(s, d)
  BY DEF Known, IInv, Absorbs, Shape
<1>2. d # SP
  BY <1>1 DEF CInv, NoCopyToStackPointer, Merging
<1>3. d \notin neighbors[s]
  BY <1>1 DEF Mutual
<1>4. reg[SP] = RSP /\ SP \in Ranges /\ DOMAIN reg = Ranges
  BY <1>1, CodeShape DEF Shape, RangesTyped, Ranges
<1>5. Defines(at0, d)
  BY <1>1, CopyDefines
<1>6. CountsDefinitions(d)
  BY <1>1, <1>2 DEF CInv, Counted, Merging, Tracked
<1>7. ASSUME NEW other, Defines(other, d), other # at0 PROVE s # SP
  <2>1. assignments[d] \in Nat /\ assignments[d] >= 2
    BY <1>5, <1>6, <1>7 DEF CountsDefinitions
  <2>2. assignments[d] > 1
    BY <2>1
  <2> QED
    BY <1>1, <1>4, <2>2 DEF RegistersConflict
<1>8. ASSUME NEW x \in Ranges, reg[x] # NoReg PROVE reg'[Absorbed(x, s, d)] = reg[x]
  <2>1. reg' = [reg EXCEPT ![s] = IF @ = NoReg THEN reg[d] ELSE @]
    BY DEF Absorbs
  <2>2. reg[s] # NoReg /\ reg[d] # NoReg => reg[s] = reg[d]
    BY <1>1 DEF RegistersConflict
  <2> QED
    BY <1>1, <1>4, <1>8, <2>1, <2>2 DEF Absorbed
<1>9. slots = 0 /\ \A b \in Blocks : \A p \in Indices(b) : ~ Memory(code[b][p])
  BY DEF Coded, SlotsKnown, Uncolored, Merging
<1>10. Ranges' = Ranges /\ at0[1] \in Blocks /\ at0[2] \in Indices(at0[1]) /\ at0 = << at0[1], at0[2] >>
  BY <1>1 DEF Absorbs, CopyInto, Indices
<1> QED
  BY <1>1, <1>2, <1>3, <1>4, <1>7, <1>8, <1>9, <1>10

SameFrame ==
  /\ function' = function /\ Blocks' = Blocks
  /\ \A b \in Blocks : Len(code'[b]) = Len(code[b]) /\ Indices(b)' = Indices(b)
Renaming(s, d) ==
  /\ DOMAIN range' = DOMAIN range
  /\ \A v \in DOMAIN range : range'[v] = Absorbed(range[v], s, d)
Deleted(i, j, s, d) ==
  /\ i.op = "copy" /\ Source(i) = s /\ Destination(i) = d
  /\ j.op = "deleted" /\ j.src = << >> /\ j.dst = << >> /\ j.both = i.both /\ j.id = i.id
OneDeleted(at0, s, d) ==
  \A b \in Blocks : \A p \in Indices(b) :
    /\ << b, p >> # at0 => code'[b][p] = code[b][p]
    /\ << b, p >> = at0 => Deleted(code[b][p], code'[b][p], s, d)
LessOperands ==
  \A b \in Blocks : \A p \in Indices(b) : /\ code'[b][p].id = code[b][p].id
                                          /\ Operands(code'[b][p]) \subseteq Operands(code[b][p])

LEMMA MergedCode ==
  ASSUME Known, Coded, pc = "coalesce", NEW at0, NEW s, NEW d, Absorbs(at0, s, d)
  PROVE  SameFrame /\ Renaming(s, d) /\ OneDeleted(at0, s, d) /\ LessOperands
<1>1. DOMAIN code = Blocks /\ Blocks' = Blocks /\ function' = function
  BY CodeShape DEF Known, IInv, Absorbs, Blocks
<1>2. \A b \in Blocks : Len(code'[b]) = Len(code[b]) /\ Indices(b)' = Indices(b)
  BY <1>1 DEF Absorbs, Indices
<1>3. ASSUME NEW b \in Blocks, NEW p \in Indices(b), << b, p >> # at0 PROVE code'[b][p] = code[b][p]
  BY <1>1, <1>3 DEF Absorbs, Indices
<1>4. ASSUME NEW b \in Blocks, NEW p \in Indices(b), << b, p >> = at0
      PROVE Deleted(code[b][p], code'[b][p], s, d)
  <2>1. at0[1] = b /\ at0[2] = p
    BY <1>4
  <2> QED
    BY <2>1 DEF Absorbs, CopyInto, Deleted
<1>5. Renaming(s, d)
  BY DEF Absorbs, Renaming
<1>6. ASSUME NEW b \in Blocks, NEW p \in Indices(b)
      PROVE code'[b][p].id = code[b][p].id /\ Operands(code'[b][p]) \subseteq Operands(code[b][p])
  BY <1>3, <1>4 DEF Deleted, Operands, SeqSet
<1>7. OneDeleted(at0, s, d)
  BY <1>3, <1>4 DEF OneDeleted
<1> QED
  BY <1>1, <1>2, <1>5, <1>6, <1>7 DEF SameFrame, LessOperands

LEMMA MergeCodes ==
  ASSUME Known, Coded, Coalesce, NEW at0, NEW s, NEW d, Absorbs(at0, s, d)
  PROVE  Coded'
<1>1. pc = "coalesce" /\ pc' = "coalesce" /\ UNCHANGED << slots, function >>
  BY DEF Coalesce
<1>2. ~ Early /\ ~ Early' /\ Uncolored
  BY <1>1 DEF Early, Uncolored, Merging
<1>3a. SameFrame /\ Renaming(s, d) /\ OneDeleted(at0, s, d) /\ LessOperands
  BY <1>1, MergedCode
<1>3. /\ function' = function /\ Blocks' = Blocks
      /\ \A b \in Blocks : Len(code'[b]) = Len(code[b]) /\ Indices(b)' = Indices(b)
      /\ \A v \in DOMAIN range : range'[v] = Absorbed(range[v], s, d)
      /\ DOMAIN range' = DOMAIN range
      /\ \A b \in Blocks : \A p \in Indices(b) :
           /\ << b, p >> # at0 => code'[b][p] = code[b][p]
           /\ << b, p >> = at0 => Deleted(code[b][p], code'[b][p], s, d)
      /\ \A b \in Blocks : \A p \in Indices(b) :
           Operands(code'[b][p]) \subseteq Operands(code[b][p])
  BY <1>3a DEF SameFrame, Renaming, OneDeleted, LessOperands
<1>4. /\ Shape /\ d # SP /\ d \in Ranges /\ s \in Ranges /\ s # d /\ Ranges' = Ranges
      /\ reg[SP] = RSP /\ SP \in Ranges /\ DOMAIN reg = Ranges
      /\ at0[1] \in Blocks /\ at0[2] \in Indices(at0[1])
      /\ at0 = << at0[1], at0[2] >>
      /\ \A other : Defines(other, d) /\ other # at0 => s # SP
      /\ \A x \in Ranges : reg[x] # NoReg => reg'[Absorbed(x, s, d)] = reg[x]
      /\ slots = 0 /\ \A b \in Blocks : \A p \in Indices(b) : ~ Memory(code[b][p])
  BY <1>1, MergeFacts
<1>5. FromSource'
  <2>1. ASSUME NEW b \in Blocks, NEW p \in Indices(b) PROVE Matched(function, code'[b][p])
    <3>1. Matched(function, code[b][p]) /\ Disciplined(function) /\ function \in Functions
      BY <1>4 DEF Coded, FromSource, Shape
    <3>2. CASE << b, p >> # at0
      BY <1>3, <3>1, <3>2
    <3>3. CASE << b, p >> = at0
      <4>1. code[b][p].op = "copy" /\ code'[b][p].op = "deleted" /\ code'[b][p].src = << >>
            /\ code'[b][p].dst = << >>
            /\ code'[b][p].id = code[b][p].id /\ code'[b][p].both = code[b][p].both
        BY <1>3, <3>3 DEF Deleted
      <4>2. code[b][p].id # 0
        BY <3>1, <4>1 DEF Matched
      <4>3. OriginalIn(function, code'[b][p]) = OriginalIn(function, code[b][p])
        BY <4>1 DEF OriginalIn
      <4>4. OriginalIn(function, code[b][p]).op = "copy"
        BY <3>1, <4>1, <4>2, MatchedFacts
      <4> QED
        BY <3>1, <4>1, <4>2, <4>3, <4>4 DEF Matched
    <3> QED
      BY <3>2, <3>3
  <2> QED
    BY <1>3, <2>1 DEF Coded, FromSource
<1>6. ReadLast'
  <2>1. ASSUME NEW a \in Blocks, NEW b \in Blocks, a < b, NEW q \in Indices(a), NEW r \in Indices(b)
        PROVE Closing(function, code'[a][q]) \cap Operands(code'[b][r]) = {}
    <3>1. Closing(function, code[a][q]) \cap Operands(code[b][r]) = {}
      BY <2>1 DEF Coded, ReadLast
    <3>2. Operands(code'[b][r]) \subseteq Operands(code[b][r])
      BY <1>3
    <3>3. code'[a][q] = code[a][q] \/ Operands(code'[a][q]) = {}
      <4>1. \A i, j : Deleted(i, j, s, d) => Operands(j) = {}
        BY DEF Deleted, Operands, SeqSet
      <4> QED
        BY <1>3, <4>1
    <3>4. Closing(function, code'[a][q]) \subseteq Closing(function, code[a][q])
      BY <3>3 DEF Closing
    <3> QED
      BY <3>1, <3>2, <3>4
  <2>2. \A b \in Blocks : Indices(b)' = Indices(b)
    BY <1>3
  <2>3. Blocks' = Blocks /\ function' = function
    BY <1>1, <1>3 DEF SameFrame
  <2>4. \A a, b \in Blocks : a < b => \A q \in Indices(a)', r \in Indices(b)' :
          Closing(function', code'[a][q]) \cap Operands(code'[b][r]) = {}
    BY <2>1, <2>2, <2>3
  <2> QED
    BY <2>3, <2>4 DEF ReadLast
<1>7. TwoColored'
  <2>1. ASSUME NEW b \in Blocks, NEW p \in Indices(b), Len(code'[b][p].dst) = 2
        PROVE /\ reg'[range'[code'[b][p].dst[1]]] # NoReg /\ reg'[range'[code'[b][p].dst[2]]] # NoReg
              /\ reg'[range'[code'[b][p].dst[1]]] # reg'[range'[code'[b][p].dst[2]]]
    <3>1. code'[b][p] = code[b][p]
      <4>1. Len(<< >>) # 2
        BY EmptySeq
      <4> QED
        BY <1>3, <2>1, <4>1 DEF Deleted
    <3>2. /\ RegOf(code[b][p].dst[1]) # NoReg /\ RegOf(code[b][p].dst[2]) # NoReg
          /\ RegOf(code[b][p].dst[1]) # RegOf(code[b][p].dst[2])
      BY <1>2, <2>1, <3>1 DEF Coded, TwoColored
    <3>3. \A v \in DOMAIN range : range[v] \in Ranges /\ RegOf(v) # NoReg => RegOf(v)' = RegOf(v)
      BY <1>3, <1>4 DEF RegOf
    <3>4. code[b][p].dst[1] \in DOMAIN range /\ range[code[b][p].dst[1]] \in Ranges
          /\ code[b][p].dst[2] \in DOMAIN range /\ range[code[b][p].dst[2]] \in Ranges
      <4>1. DOMAIN code[b][p].dst = 1 .. 2
        BY <1>4, <2>1, <3>1, CodeFacts
      <4>2. 1 \in DOMAIN code[b][p].dst /\ 2 \in DOMAIN code[b][p].dst
        BY <4>1
      <4> QED
        BY <1>4, <4>2, CodeFacts
    <3>5. \A v : RegOf(v)' = reg'[range'[v]]
      BY DEF RegOf
    <3>6. \A v \in DOMAIN range : range[v] \in Ranges /\ RegOf(v) # NoReg => reg'[range'[v]] = RegOf(v)
      BY <3>3, <3>5
    <3>7. /\ reg'[range'[code[b][p].dst[1]]] = RegOf(code[b][p].dst[1])
          /\ reg'[range'[code[b][p].dst[2]]] = RegOf(code[b][p].dst[2])
      BY <3>2, <3>4, <3>6
    <3> QED
      BY <3>1, <3>2, <3>7
  <2>2. \A b \in Blocks : Indices(b)' = Indices(b)
    BY <1>3
  <2>3. Blocks' = Blocks
    BY <1>3
  <2>4. ASSUME NEW b \in Blocks', NEW p \in Indices(b)', Len(code'[b][p].dst) = 2
        PROVE /\ reg'[range'[code'[b][p].dst[1]]] # NoReg /\ reg'[range'[code'[b][p].dst[2]]] # NoReg
              /\ reg'[range'[code'[b][p].dst[1]]] # reg'[range'[code'[b][p].dst[2]]]
    BY <2>1, <2>2, <2>3, <2>4
  <2> QED
    BY <2>4 DEF TwoColored, RegOf, NoReg
<1>8. OnlyStackPointer'
  <2>1. reg' = [reg EXCEPT ![s] = IF @ = NoReg THEN reg[d] ELSE @]
    BY DEF Absorbs
  <2>2. \A r \in Ranges : reg[r] = RSP => r = SP
    BY DEF Coded, OnlyStackPointer
  <2>3. \A r \in Ranges : reg'[r] = RSP => r = SP
    BY <1>4, <2>1, <2>2
  <2> QED
    BY <1>4, <2>3 DEF OnlyStackPointer, RSP, SP
<1>9. \A b \in Blocks : \A p \in Indices(b) : ~ Memory(code'[b][p])
  BY <1>3, <1>4 DEF Memory, Deleted
<1>10. SlotsKnown' /\ LoadsFirst' /\ VictimStored' /\ StoresSettled' /\ Untouched'
  BY <1>1, <1>2, <1>3, <1>4, <1>9
     DEF SlotsKnown, LoadsFirst, VictimStored, StoresSettled, Untouched, Memory, Dummy
<1>11. StackPointerStays'
  <2>1. CASE \A b \in Blocks : \A p \in Indices(b) : \A k \in DOMAIN code[b][p].dst : range[code[b][p].dst[k]] # SP
    <3>1. ASSUME NEW b \in Blocks, NEW p \in Indices(b), NEW k \in DOMAIN code'[b][p].dst
          PROVE range'[code'[b][p].dst[k]] # SP
      <4>1. << b, p >> # at0 /\ code'[b][p] = code[b][p]
        BY <1>3, <3>1, EmptySeq DEF Deleted
      <4>2. code[b][p].dst[k] \in DOMAIN range /\ range[code[b][p].dst[k]] # SP
        BY <1>4, <2>1, <4>1, CodeFacts
      <4>3. CASE range[code[b][p].dst[k]] = d
        <5>1. Defines(<< b, p >>, d)
          BY <4>1, <4>3 DEF Defines, Indices
        <5> QED
          BY <1>3, <1>4, <4>1, <4>2, <4>3, <5>1 DEF Absorbed
      <4>4. CASE range[code[b][p].dst[k]] # d
        BY <1>3, <4>1, <4>2, <4>4 DEF Absorbed
      <4> QED
        BY <4>3, <4>4
    <3> QED
      BY <1>3, <3>1 DEF StackPointerStays, SP
  <2>2. CASE \A b \in Blocks : \A p \in Indices(b) : code[b][p].op = "copy" => Source(code[b][p]) # SP
    <3>1. s # SP
      <4>1. Deleted(code[at0[1]][at0[2]], code'[at0[1]][at0[2]], s, d)
        BY <1>3, <1>4
      <4> QED
        BY <1>4, <2>2, <4>1 DEF Deleted
    <3>2. ASSUME NEW b \in Blocks, NEW p \in Indices(b), code'[b][p].op = "copy"
          PROVE range'[code'[b][p].src[1]] # SP
      <4>1. code'[b][p] = code[b][p] /\ range[code[b][p].src[1]] # SP
        BY <1>3, <2>2, <3>2 DEF Source, Deleted
      <4>2. code[b][p].src[1] \in DOMAIN range
        <5>1. 1 \in DOMAIN code[b][p].src
          <6>1. code[b][p] \in Instructions(Len(range)) /\ code[b][p].op = "copy"
            BY <1>4, <3>2, <4>1, CodeFacts
          <6>2. code[b][p].src # << >> /\ code[b][p].src \in Seq(Nat \ {0})
            BY <6>1 DEF Instructions, WellFormed, Instr
          <6> QED
            BY <6>2, EmptySeq, LenProperties
        <5> QED
          BY <1>4, <5>1, CodeFacts
      <4> QED
        BY <1>3, <3>1, <4>1, <4>2 DEF Absorbed
    <3> QED
      BY <1>3, <3>2 DEF StackPointerStays, Source, SP
  <2> QED
    BY <1>2, <2>1, <2>2 DEF Coded, StackPointerStays
<1> QED
  BY <1>1, <1>5, <1>6, <1>7, <1>8, <1>10, <1>11 DEF Coded

LEMMA MergeNames ==
  ASSUME Known, Coded, Coalesce, NEW at0, NEW s, NEW d, Absorbs(at0, s, d),
         NEW N, Named(N), Steady(N)
  PROVE  Named(N)' /\ Steady(N)'
<1>1. SameFrame /\ Renaming(s, d) /\ OneDeleted(at0, s, d) /\ LessOperands
  BY MergedCode DEF Coalesce
<1>2. Named(N)'
  BY <1>1 DEF Named, SameFrame, Renaming, Names
<1>3. ASSUME NEW b \in Blocks, NEW q \in Indices(b), NEW r \in Indices(b), q < r,
             NEW v \in Closing(function, code'[b][q]) \cap Operands(code'[b][r])
      PROVE /\ v \notin SeqSet(code'[b][r].dst)
            /\ \A m \in q .. r : \/ m = q /\ v \in SeqSet(code'[b][q].dst)
                                \/ N[v] \cap SetBy(function, code'[b][m]) = {}
  <2>1. \A i, j : Deleted(i, j, s, d) => Operands(j) = {}
    BY DEF Deleted, Operands, SeqSet
  <2>2. code'[b][q] = code[b][q] /\ code'[b][r] = code[b][r]
    BY <1>1, <1>3, <2>1 DEF OneDeleted, Closing
  <2>3. /\ v \notin SeqSet(code[b][r].dst)
        /\ \A m \in q .. r : \/ m = q /\ v \in SeqSet(code[b][q].dst)
                            \/ N[v] \cap SetBy(function, code[b][m]) = {}
    BY <1>3, <2>2 DEF Steady
  <2>4. \A m \in q .. r : m \in Indices(b)
    BY CodeShape DEF Indices, Known, IInv
  <2>5. \A m \in q .. r : SetBy(function, code'[b][m]) = SetBy(function, code[b][m])
    <3> SUFFICES ASSUME NEW m \in q .. r PROVE SetBy(function, code'[b][m]) = SetBy(function, code[b][m])
      OBVIOUS
    <3>1. code'[b][m].id = code[b][m].id
      BY <1>1, <2>4 DEF LessOperands
    <3>2. OriginalIn(function, code'[b][m]) = OriginalIn(function, code[b][m])
      BY <3>1 DEF OriginalIn
    <3> QED
      BY <3>1, <3>2 DEF SetBy
  <2> QED
    BY <2>2, <2>3, <2>5
<1>4. \A b \in Blocks : \A q, r \in Indices(b) : q < r =>
        \A v \in Closing(function, code'[b][q]) \cap Operands(code'[b][r]) :
          /\ v \notin SeqSet(code'[b][r].dst)
          /\ \A m \in q .. r : \/ m = q /\ v \in SeqSet(code'[b][q].dst)
                              \/ N[v] \cap SetBy(function, code'[b][m]) = {}
  BY <1>3
<1>5. Blocks' = Blocks /\ function' = function /\ \A b \in Blocks : Indices(b)' = Indices(b)
  BY <1>1 DEF SameFrame
<1>6. Steady(N)'
  <2>1. ASSUME NEW b \in Blocks', NEW q \in Indices(b)', NEW r \in Indices(b)', q < r,
               NEW v \in Closing(function', code'[b][q]) \cap Operands(code'[b][r])
        PROVE /\ v \notin SeqSet(code'[b][r].dst)
              /\ \A m \in q .. r : \/ m = q /\ v \in SeqSet(code'[b][q].dst)
                                  \/ N[v] \cap SetBy(function', code'[b][m]) = {}
    BY <1>4, <1>5, <2>1
  <2> QED
    BY <2>1 DEF Steady
<1> QED
  BY <1>2, <1>6

LEMMA OneOrTwo ==
  ASSUME NEW n \in Nat, n <= 2, NEW k \in 1 .. n
  PROVE  k = 1 \/ (k = 2 /\ n = 2)
  OBVIOUS

(* An instruction other than the copy. *)
LEMMA MergeMoves ==
  ASSUME Known, Coded, Coalesce, NEW at0, NEW s, NEW d, Absorbs(at0, s, d),
         NEW A, Annotates(A), NEW b \in Blocks, NEW p \in Indices(b), << b, p >> # at0,
         NEW x \in Ranges, x # SP => x \in A[b][p],
         ~ WritesTo(code[b][p], range, x)
  PROVE  ~ WritesTo(code[b][p], range', Absorbed(x, s, d))
<1> DEFINE i == code[b][p]
<1>1. /\ Shape /\ d # SP /\ d \in Ranges /\ s \in Ranges /\ s # d
      /\ s \notin neighbors[d] /\ d \notin neighbors[s]
      /\ at0[1] \in Blocks /\ at0[2] \in Indices(at0[1]) /\ at0 = << at0[1], at0[2] >>
      /\ \A other : Defines(other, d) /\ other # at0 => s # SP
      /\ \A e \in Blocks : \A q \in Indices(e) : ~ Memory(code[e][q])
  <2>1. pc = "coalesce"
    BY DEF Coalesce
  <2> QED
    BY <2>1, MergeFacts
<1>2. Renaming(s, d) /\ OneDeleted(at0, s, d)
  BY MergedCode DEF Coalesce
<1>3. ~ Stores(i)
  BY <1>1 DEF Memory, Stores
<1>4. /\ DOMAIN i.dst = 1 .. Len(i.dst) /\ Len(i.dst) \in Nat /\ Len(i.dst) <= 2
      /\ \A k \in DOMAIN i.dst : i.dst[k] \in DOMAIN range /\ range[i.dst[k]] \in Ranges
  BY <1>1, CodeFacts
<1>5. SoundAt(A[b][p - 1], i, A[b][p], range, Tracked, Adjacent)
  <2>1. b \in DOMAIN code /\ p \in 1 .. Len(code[b])
    BY <1>1, CodeShape DEF Indices
  <2> QED
    BY <2>1 DEF Annotates, Sound
<1> SUFFICES ASSUME NEW k \in DOMAIN i.dst, Absorbed(x, s, d) = range'[i.dst[k]] PROVE FALSE
  BY <1>3 DEF WritesTo, Stores
<1> DEFINE z == range[i.dst[k]]
<1>6. Absorbed(x, s, d) = Absorbed(z, s, d) /\ x # z /\ z \in Ranges
  BY <1>2, <1>4 DEF Renaming, WritesTo
<1>7. ASSUME x # SP PROVE Clash(i, range, A[b][p], z, x)
  <2>1. x \in A[b][p]
    BY <1>7
  <2>2. k = 1 \/ (k = 2 /\ Len(i.dst) = 2)
    <3>1. k \in 1 .. Len(i.dst) /\ Len(i.dst) \in Nat /\ Len(i.dst) <= 2
      BY <1>4
    <3> QED
      BY <3>1, OneOrTwo
  <2>3. i.dst # << >>
    BY <1>4, EmptySeq
  <2>4. Len(i.dst) = 2 => x # range[i.dst[1]]
    <3>1. Len(i.dst) = 2 => 1 \in DOMAIN i.dst
      BY <1>4
    <3> QED
      BY <3>1 DEF WritesTo
  <2>5. CASE k = 1
    BY <2>1, <2>3, <2>5 DEF Clash
  <2>6. CASE k = 2 /\ Len(i.dst) = 2
    BY <2>1, <2>3, <2>4, <2>6 DEF Clash
  <2> QED
    BY <2>2, <2>5, <2>6
<1>8. ASSUME x # SP, z # SP PROVE x \in neighbors[z]
  <2>1. x \in Tracked /\ z \in Tracked
    BY <1>6, <1>8 DEF Tracked
  <2>2. << z, x >> \in Adjacent
    BY <1>5, <1>6, <1>7, <1>8, <2>1 DEF SoundAt
  <2> QED
    BY <2>2 DEF Adjacent
<1>9. CASE z = d /\ x = s
  <2>1. Defines(<< b, p >>, d)
    BY <1>1, <1>9 DEF Defines, Indices
  <2> QED
    BY <1>1, <1>8, <1>9, <2>1
<1>10. CASE z = s /\ x = d /\ s # SP
  BY <1>1, <1>8, <1>10
<1>11. CASE z = s /\ x = d /\ s = SP
  <2>1. \A e \in Blocks : \A q \in Indices(e) : code[e][q].op = "copy" => Source(code[e][q]) # SP
    BY <1>11 DEF Coded, StackPointerStays, Coalesce, Uncolored, Merging
  <2>2. Deleted(code[at0[1]][at0[2]], code'[at0[1]][at0[2]], s, d)
    BY <1>1, <1>2 DEF OneDeleted
  <2> QED
    BY <1>1, <1>11, <2>1, <2>2 DEF Deleted
<1> QED
  BY <1>6, <1>9, <1>10, <1>11 DEF Absorbed

(* The copy itself. *)
Empties(f, i, j, rng, N, h, h2, a, a2, m) ==
  /\ Matched(f, i) /\ i.op = "copy"
  /\ \A v \in DOMAIN f.name : N[v] = {f.name[v]}
  /\ j.op = "deleted" /\ j.src = << >> /\ j.dst = << >> /\ j.both = i.both /\ j.id = i.id
  /\ m[rng[i.dst[1]]] = m[rng[i.src[1]]]
  /\ \A n \in Names(f) : h2[n] = { m[x] : x \in h[n] } /\ a2[n] = { m[x] : x \in a[n] }

LEMMA CopyDeleted ==
  ASSUME NEW f \in Functions, Disciplined(f), NEW i, NEW j,
         NEW rng, NEW rng2, NEW N, NEW m, NEW h, NEW h2, NEW a, NEW a2,
         Empties(f, i, j, rng, N, h, h2, a, a2, m), Fits(f, i, rng, N, h, a)
  PROVE  Fits(f, j, rng2, N, h2, a2)
<1> USE DEF Empties
<1> DEFINE o == OriginalIn(f, i)
<1>1. i.id # 0
  BY DEF Matched
<1>2. /\ o \in SourceOf(f) /\ i.src = o.src /\ i.dst = o.dst /\ i.both = o.both /\ o.op = "copy"
      /\ CopyLike(f, i) /\ From(f, i) \in Names(f) /\ To(f, i) \in Names(f) /\ SetBy(f, i) = {To(f, i)}
  BY <1>1, MatchedFacts
<1>3. /\ Len(o.src) = 1 /\ Len(o.dst) = 1 /\ ~ o.both
      /\ DOMAIN o.src = 1 .. Len(o.src) /\ DOMAIN o.dst = 1 .. Len(o.dst)
      /\ \A k \in DOMAIN o.src : o.src[k] \in DOMAIN f.name
      /\ \A k \in DOMAIN o.dst : o.dst[k] \in DOMAIN f.name
  BY <1>2, SourceFacts
<1>4. /\ DOMAIN i.src = {1} /\ DOMAIN i.dst = {1} /\ ~ i.both
      /\ N[i.src[1]] = {From(f, i)} /\ N[i.dst[1]] = {To(f, i)}
  BY <1>2, <1>3 DEF From, To
<1>5. /\ CopyLike(f, j) /\ From(f, j) = From(f, i) /\ To(f, j) = To(f, i) /\ SetBy(f, j) = SetBy(f, i)
  <2>1. j.id = i.id /\ j.id # 0
    BY <1>1
  <2>2. OriginalIn(f, j) = OriginalIn(f, i)
    BY <2>1 DEF OriginalIn
  <2> QED
    BY ONLY <1>2, <2>1, <2>2 DEF CopyLike, From, To, SetBy
<1>6. Needs(f, j, rng2, N, h2)
  BY <1>4 DEF Needs, Read, SeqSet
<1>7. ASSUME NEW n \in Names(f), NEW y \in a2[n] PROVE Justified(f, j, rng2, N, h2, n, y)
  <2>1. PICK x \in a[n] : y = m[x]
    OBVIOUS
  <2>2. Justified(f, i, rng, N, h, n, x)
    BY DEF Fits
  <2>3. ~ WritesTo(j, rng2, y)
    BY DEF WritesTo, Stores
  <2>4. CASE Given(f, i, rng, N, n, x)
    <3>1. x = rng[i.dst[1]] /\ n = To(f, i)
      BY <1>4, <2>4 DEF Given
    <3>2. rng[i.src[1]] \in h[From(f, i)]
      <4>1. i.src[1] \in SeqSet(Read(i)) /\ From(f, i) \in N[i.src[1]]
        BY <1>4 DEF Read, SeqSet
      <4> QED
        BY <4>1 DEF Fits, Needs
    <3>3. y \in h2[From(f, i)]
      BY <1>2, <2>1, <3>1, <3>2
    <3> QED
      BY <1>5, <2>3, <3>1, <3>3 DEF Justified, Keeps
  <2>5. CASE Keeps(f, i, h, n, x)
    <3>1. Keeps(f, j, h2, n, y)
      BY <1>2, <1>5, <2>1, <2>5 DEF Keeps
    <3> QED
      BY <2>3, <3>1 DEF Justified
  <2> QED
    BY <2>2, <2>4, <2>5 DEF Justified
<1> QED
  BY <1>6, <1>7 DEF Fits

LEMMA MergeClaims ==
  ASSUME Known, Coded, Coalesce, NEW at0, NEW s, NEW d, Absorbs(at0, s, d),
         NEW N, NEW W, NEW A, Claimed(N, W), Annotates(A), Within(W, A)
  PROVE  Faithful'
<1>1. /\ Shape /\ d # SP /\ d \in Ranges /\ s \in Ranges /\ s # d /\ Ranges' = Ranges
      /\ SP \in Ranges /\ at0[1] \in Blocks /\ at0[2] \in Indices(at0[1]) /\ at0 = << at0[1], at0[2] >>
      /\ \A x \in Ranges : reg[x] # NoReg => reg'[Absorbed(x, s, d)] = reg[x]
      /\ slots = 0 /\ \A e \in Blocks : \A q \in Indices(e) : ~ Memory(code[e][q])
  <2>1. pc = "coalesce"
    BY DEF Coalesce
  <2> QED
    BY <2>1, MergeFacts
<1>2. /\ function \in Functions /\ Disciplined(function)
      /\ pc = "coalesce" /\ pc' = "coalesce" /\ slots' = slots /\ IInv
      /\ \A b, p : PlaceAt(b, p) = range /\ PlaceAt(b, p)' = range'
  BY DEF Coded, Coalesce, PlaceAt, Known, IInv, Shape
<1>3. SameFrame /\ Renaming(s, d) /\ OneDeleted(at0, s, d)
  BY <1>2, MergedCode
<1>4. /\ function' = function /\ Blocks' = Blocks /\ Names(function)' = Names(function)
      /\ \A b \in Blocks : /\ Len(code'[b]) = Len(code[b]) /\ Indices(b)' = Indices(b)
                           /\ Len(code[b]) \in Nat
  BY <1>1, <1>3, CodeShape DEF SameFrame, Names
<1>5. PICK E : Annotates(E)' /\ Renamed(E, A, s, d)
  BY <1>1, <1>2, MergeRenames
<1>6. PICK m : m = [x \in Ranges |-> Absorbed(x, s, d)]
  OBVIOUS
<1>7. PICK V : V = Moved(W, m)
  OBVIOUS
<1>8. \A b \in Blocks : \A p \in 0 .. Len(code[b]) : \A n \in Names(function) :
        V[b][p][n] = { m[x] : x \in W[b][p][n] }
  BY <1>7 DEF Moved
<1>9. \A b \in Blocks : \A p \in 0 .. Len(code[b]) : \A n \in Names(function) : \A x \in W[b][p][n] :
        /\ x \in Ranges /\ m[x] = Absorbed(x, s, d) /\ m[x] \in Ranges
        /\ x # SP => x \in A[b][p]
  <2>1. ASSUME NEW b \in Blocks, NEW p \in 0 .. Len(code[b]), NEW n \in Names(function), NEW x \in W[b][p][n]
        PROVE x \in Ranges /\ (x # SP => x \in A[b][p])
    <3>1. x \in Ranges \/ (x \in Int /\ x < 0 /\ - x <= 0)
      BY <1>1 DEF Claimed, Claims, Located
    <3>2. x \in Ranges
      BY <3>1
    <3>3. x \in Nat
      BY <1>1, <3>2, CodeShape
    <3> QED
      BY <3>2, <3>3 DEF Within
  <2> QED
    BY <1>1, <1>6, <2>1 DEF Absorbed
<1>10. Named(N)' /\ Steady(N)'
  BY MergeNames DEF Claimed
<1>11. Passed(V)'
  <2>1. ASSUME NEW b \in Blocks, NEW t \in function.succ[b], NEW n \in Names(function)
        PROVE V[t][0][n] \subseteq V[b][Len(code[b])][n]
    <3>1. t \in Blocks
      BY <1>1, FunctionsAssumption DEF Shape, Blocks
    <3>2. W[t][0][n] \subseteq W[b][Len(code[b])][n]
      BY DEF Claimed, Claims, Passed
    <3>3. 0 \in 0 .. Len(code[t]) /\ Len(code[b]) \in 0 .. Len(code[b])
      BY <1>4, <3>1
    <3> QED
      BY <1>8, <3>1, <3>2, <3>3
  <2> QED
    BY <1>4, <2>1 DEF Passed
<1>12. Located(V)'
  <2>1. ASSUME NEW b \in Blocks, NEW p \in 0 .. Len(code[b]), NEW n \in Names(function), NEW y \in V[b][p][n]
        PROVE y \in Ranges
    BY <1>8, <1>9
  <2> QED
    BY <1>1, <1>4, <2>1 DEF Located
<1>13. Raw(V)'
  BY <1>2 DEF Raw
<1>14. Arrived(V)'
  <2>1. ASSUME NEW n \in Names(function), NEW y \in V[1][0][n]
        PROVE \/ y = SP /\ n = SP
              \/ y \in Ranges /\ n \in function.params /\ reg'[y] = function.home[n]
    <3>1. 1 \in Blocks /\ 0 \in 0 .. Len(code[1])
      BY <1>1, <1>4, EntryIsBlock
    <3>2. PICK x \in W[1][0][n] : y = m[x]
      BY <1>8, <3>1
    <3>3. \/ x = SP /\ n = SP
          \/ x \in Ranges /\ n \in function.params /\ reg[x] = function.home[n]
      BY DEF Claimed, Claims, Arrived
    <3>4. \A j \in function.params : function.home[j] # NoReg
      BY <1>2, ParametersHaveHomes
    <3>5. m[x] = Absorbed(x, s, d) /\ m[x] \in Ranges
      BY <1>9, <3>1
    <3>6. CASE x = SP /\ n = SP
      BY <1>1, <3>2, <3>5, <3>6 DEF Absorbed
    <3>7. CASE x \in Ranges /\ n \in function.params /\ reg[x] = function.home[n]
      BY <1>1, <3>2, <3>4, <3>5, <3>7
    <3> QED
      BY <3>3, <3>6, <3>7
  <2> QED
    BY <1>1, <1>4, <2>1 DEF Arrived, SP
<1>15. Within(V, E)'
  <2>1. ASSUME NEW b \in Blocks, NEW p \in 0 .. Len(code[b]), NEW n \in Names(function), NEW y \in V[b][p][n]
        PROVE y = SP \/ y \in E[b][p]
    <3>1. PICK x \in W[b][p][n] : y = m[x]
      BY <1>8
    <3>2. x \in Ranges /\ m[x] = Absorbed(x, s, d) /\ (x # SP => x \in A[b][p])
      BY <1>9
    <3>3. E[b][p] = { Absorbed(r, s, d) : r \in A[b][p] \cap Tracked }
      BY <1>1, <1>5, CodeShape DEF Renamed
    <3>4. CASE x = SP
      BY <1>1, <3>1, <3>2, <3>4 DEF Absorbed
    <3>5. CASE x # SP
      BY <3>1, <3>2, <3>3, <3>5 DEF Tracked
    <3> QED
      BY <3>4, <3>5
  <2> QED
    BY <1>4, <2>1 DEF Within, SP
<1>16. ASSUME NEW b \in Blocks, NEW p \in Indices(b)
       PROVE Fits(function, code'[b][p], range', N, V[b][p - 1], V[b][p])
  <2> DEFINE i == code[b][p]
             h == W[b][p - 1]
             a == W[b][p]
             h2 == V[b][p - 1]
             a2 == V[b][p]
  <2>1. p - 1 \in 0 .. Len(code[b]) /\ p \in 0 .. Len(code[b])
    BY <1>4, <1>16 DEF Indices
  <2>2. Fits(function, i, range, N, h, a)
    BY <1>2 DEF Claimed, Claims, Fitting
  <2>3. \A n \in Names(function) : h2[n] = { m[x] : x \in h[n] } /\ a2[n] = { m[x] : x \in a[n] }
    BY <1>8, <2>1
  <2>4. \A v \in DOMAIN range : range[v] \in Ranges => range'[v] = m[range[v]]
    BY <1>3, <1>6 DEF Renaming
  <2>5. /\ Matched(function, i)
        /\ \A v \in SeqSet(Read(i)) : range'[v] = m[range[v]] /\ N[v] \subseteq Names(function)
        /\ \A k \in DOMAIN i.dst : range'[i.dst[k]] = m[range[i.dst[k]]]
    <3>1. \A v \in SeqSet(Read(i)) : N[v] \subseteq Names(function)
      BY <1>1, FetchedAreNames DEF Claimed
    <3>2. /\ \A v \in SeqSet(Read(i)) : v \in DOMAIN range /\ range[v] \in Ranges
          /\ \A k \in DOMAIN i.dst : i.dst[k] \in DOMAIN range /\ range[i.dst[k]] \in Ranges
          /\ Matched(function, i)
      BY <1>1, CodeFacts
    <3> QED
      BY <2>4, <3>1, <3>2
  <2>6. CASE << b, p >> # at0
    <3>1. ASSUME NEW n \in Names(function), NEW x \in a[n], ~ WritesTo(i, range, x)
          PROVE ~ WritesTo(i, range', m[x])
      <4>1. x \in Ranges /\ m[x] = Absorbed(x, s, d) /\ (x # SP => x \in A[b][p])
        BY <1>9, <2>1
      <4>2. ~ WritesTo(i, range', Absorbed(x, s, d))
        BY <2>6, <3>1, <4>1, MergeMoves
      <4> QED
        BY <4>1, <4>2
    <3>2. /\ Memory(i) => m[- i.slot] = - i.slot
          /\ i.op = "load" => Fetched(function, i, N) \subseteq Names(function)
      BY <1>1 DEF Memory
    <3>3. \A n \in Names(function) : Looked(function, i, n) \subseteq Names(function)
      BY <1>1, LookedAreNames
    <3>4. code'[b][p] = i
      BY <1>3, <2>6 DEF OneDeleted
    <3> HIDE DEF i, h, a, h2, a2
    <3>5. Moves(function, i, range, range', N, h, h2, a, a2, m)
      BY <2>3, <2>5, <3>1, <3>2, <3>3 DEF Moves
    <3>6. Fits(function, i, range', N, h2, a2)
      BY <2>2, <3>5, FitsMoved
    <3> QED
      BY <3>4, <3>6 DEF h2, a2
  <2>7. CASE << b, p >> = at0
    <3> DEFINE j == code'[b][p]
    <3>1. Deleted(i, j, s, d)
      BY <1>3, <2>7 DEF OneDeleted
    <3>2. \A v \in DOMAIN function.name : N[v] = {function.name[v]}
      BY DEF Claimed, Named
    <3>3. m[range[i.dst[1]]] = m[range[i.src[1]]]
      BY <1>1, <1>6, <3>1 DEF Deleted, Source, Destination, Absorbed
    <3>4. /\ i.op = "copy" /\ j.op = "deleted" /\ j.src = << >> /\ j.dst = << >>
          /\ j.both = i.both /\ j.id = i.id
      BY <3>1 DEF Deleted
    <3> HIDE DEF i, j, h, a, h2, a2
    <3>5. Empties(function, i, j, range, N, h, h2, a, a2, m)
      BY <2>3, <2>5, <3>2, <3>3, <3>4 DEF Empties
    <3>6. Fits(function, j, range', N, h2, a2)
      BY <1>2, <2>2, <3>5, CopyDeleted
    <3> QED
      BY <3>6 DEF h2, a2, j
  <2> QED
    BY <2>6, <2>7
<1>17. Fitting(V, N)'
  <2>1. ASSUME NEW b \in Blocks', NEW p \in Indices(b)'
        PROVE Fits(function', code'[b][p], PlaceAt(b, p)', N, V[b][p - 1], V[b][p])
    BY <1>2, <1>4, <1>16
  <2> QED
    BY <2>1 DEF Fitting
<1>18. Claimed(N, V)'
  BY <1>10, <1>11, <1>12, <1>13, <1>14, <1>17 DEF Claimed, Claims
<1> QED
  BY <1>2, <1>5, <1>15, <1>18 DEF Faithful

LEMMA CoalesceFaithful ==
  ASSUME Known, Coded, Faithful, Coalesce
  PROVE  Coded' /\ Faithful'
<1>1. PICK at0, s, d : Absorbs(at0, s, d)
  BY CoalesceAbsorbs DEF Known
<1>2. PICK N, W, A : Claimed(N, W) /\ Annotates(A) /\ Within(W, A)
  BY DEF Faithful, Coalesce
<1> QED
  BY <1>1, <1>2, MergeCodes, MergeClaims

-----------------------------------------------------------------------------
(***************************************************************************)
(* The run.  When the allocation is over every live range has a register,  *)
(* and the claims are within an annotation whose clashes have different    *)
(* registers: what is claimed at the point that the run is at is true.     *)
(***************************************************************************)
Content(x) == IF x < 0 THEN frame[- x] ELSE regs[reg[x]]
Holds(h) == \A n \in Names(function) : \A x \in h[n] : Content(x) = env[n]
Point == IF at[2] = 0 THEN 0 ELSE at[2] - 1
Proven(N, W, A) ==
  Claimed(N, W) /\ ColorsApart(A) /\ Within(W, A) /\ (Running => Holds(W[at[1]][Point]))

Finished ==
  pc \in {"done", "running"} => /\ \A r \in Ranges : reg[r] # NoReg
                                /\ \E N, W, A : Proven(N, W, A)
(* No copy makes a value.                                                  *)
Values ==
  /\ DOMAIN env = Names(function) /\ DOMAIN regs = Registers /\ DOMAIN frame = 1 .. MaxSpills
  /\ \A n \in Names(function) : \A o \in SourceOf(function) : o.op = "copy" => env[n][1] # o.id
Located0 ==
  /\ pc # "running" => ~ Running /\ env = [n \in Names(function) |-> AtEntry(n)]
  /\ Running => /\ at[1] \in Blocks /\ at = << at[1], at[2] >>
                /\ IF at[2] = 0 THEN Len(code[at[1]]) = 0 ELSE at[2] \in Indices(at[1])
Followed == Finished /\ Values /\ Located0

LEMMA AllColoredFinishes ==
  ASSUME Known, Coded, Faithful, Visited = Blocks, AllColored, UNCHANGED runVars, Located0
  PROVE  Coded' /\ Finished'
<1>1. /\ Shape /\ UNCHANGED << function, code, range, reg, slots >> /\ pc = "color" /\ queue = {}
      /\ pc' = "done" /\ ~ Running'
      /\ \A r \in Ranges : reg[r] # NoReg
  BY DEF Known, IInv, AllColored, QueueLacks, Located0, Running, runVars
<1>2. ~ Early /\ ~ Early' /\ ~ Uncolored' /\ pc' # "spill" /\ Ranges' = Ranges
  BY <1>1 DEF Early, Uncolored, Merging, Ranges
<1>3. Coded'
  BY <1>1, <1>2, RegistersStay, CodedStays
<1>4. PICK A : ColorsApart(A)
  BY <1>1, ProperIsApart
<1>5. PICK N, W : Claimed(N, W)
  BY <1>1, <1>2 DEF Faithful
<1>6. Colored = Tracked
  BY <1>1 DEF Colored, Tracked
<1>7. Sound(A, code, range, Tracked, Different) /\ Flows(A, code, Tracked)
  BY <1>4, <1>6 DEF ColorsApart
<1>8. PICK V : Claimed(N, V) /\ Within(V, A)
  BY <1>1, <1>5, <1>7, ClaimedWithin
<1>9. Claimed(N, V)'
  BY <1>1, <1>2, <1>8, ClaimedStays DEF Coded
<1>10. Within(V, A)' /\ ColorsApart(A)'
  BY <1>1, <1>4, <1>8, WithinStays, ColorsApartStays
<1>11. Proven(N, V, A)'
  BY <1>1, <1>9, <1>10 DEF Proven
<1>12. \A r \in Ranges' : reg'[r] # NoReg
  BY <1>1, <1>2
<1>13. Finished'
  BY <1>11, <1>12 DEF Finished, NoReg
<1> QED
  BY <1>3, <1>13

-----------------------------------------------------------------------------
(* One instruction. *)
LEMMA OriginalIsIn ==
  Original = OriginalIn(function, Here)
  BY DEF Original, OriginalIn, SourceOf, Blocks

(* What the source and the instruction do to a variable, and what the      *)
(* instruction leaves in a place that it does not write.                   *)
LEMMA VariableStep ==
  ASSUME Shape, Coded, Values, Running, at[1] \in Blocks, at[2] \in Indices(at[1]), SourceStep,
         NEW n \in Names(function)
  PROVE  /\ n \notin SetBy(function, Here) => env'[n] = Age(env[n])
         /\ CopyLike(function, Here) /\ n = To(function, Here) => env'[n] = env[From(function, Here)]
         /\ Here.id # 0 /\ ~ CopyLike(function, Here)
              => \A k \in DOMAIN Original.dst : Var(Original.dst[k]) = n => env'[n] = Made(k)
<1> DEFINE o == Original
<1>1. /\ function \in Functions /\ Disciplined(function) /\ Matched(function, Here)
      /\ o = OriginalIn(function, Here)
  BY CodeFacts, OriginalIsIn DEF Here, Shape, Coded
<1> HIDE DEF o
<1>2. CASE Here.id = 0
  <2>1. env' = env /\ Age(env[n]) = env[n]
    BY <1>2 DEF SourceStep, Age
  <2> QED
    BY <1>2, <2>1 DEF CopyLike
<1>3. CASE Here.id # 0
  <2>1. /\ o \in SourceOf(function) /\ (o.op = "copy" <=> CopyLike(function, Here))
        /\ SetBy(function, Here) = Sets(function, o)
        /\ To(function, Here) = Var(o.dst[1]) /\ From(function, Here) = Var(o.src[1])
    BY <1>1, <1>3, MatchedFacts DEF CopyLike, SetBy, To, From, Var
  <2>2. /\ DOMAIN o.dst = 1 .. Len(o.dst) /\ Len(o.dst) \in Nat /\ Len(o.dst) <= 2
        /\ o.op = "copy" => Len(o.dst) = 1
        /\ Len(o.dst) = 2 => Var(o.dst[1]) # Var(o.dst[2])
    BY <1>1, <2>1, SourceFacts DEF Var
  <2>3. env'[n] = IF \E k \in DOMAIN o.dst : Var(o.dst[k]) = n
                  THEN IF o.op = "copy" THEN env[Var(o.src[1])]
                       ELSE Made(CHOOSE k \in DOMAIN o.dst : Var(o.dst[k]) = n)
                  ELSE Age(env[n])
    BY <1>3 DEF SourceStep, Values, o
  <2>4. n \in SetBy(function, Here) <=> \E k \in DOMAIN o.dst : Var(o.dst[k]) = n
    BY <2>1 DEF Sets, SeqSet, Var
  <2>5. ASSUME CopyLike(function, Here), n = To(function, Here)
        PROVE env'[n] = env[From(function, Here)]
    <3>1. 1 \in DOMAIN o.dst
      BY <2>1, <2>2, <2>5
    <3> QED
      BY <2>1, <2>3, <2>5, <3>1
  <2>6. ASSUME ~ CopyLike(function, Here), NEW k \in DOMAIN o.dst, Var(o.dst[k]) = n
        PROVE env'[n] = Made(k)
    <3> DEFINE c == CHOOSE c \in DOMAIN o.dst : Var(o.dst[c]) = n
    <3>1. c \in DOMAIN o.dst /\ Var(o.dst[c]) = n
      BY <2>6
    <3>2. env'[n] = Made(c)
      BY <2>1, <2>3, <2>6
    <3> HIDE DEF c
    <3>3. (k = 1 \/ (k = 2 /\ Len(o.dst) = 2)) /\ (c = 1 \/ (c = 2 /\ Len(o.dst) = 2))
      BY <2>2, <2>6, <3>1, OneOrTwo
    <3>4. c = k
      BY <2>2, <2>6, <3>1, <3>3
    <3> QED
      BY <3>2, <3>4
  <2> QED
    BY <1>3, <2>3, <2>4, <2>5, <2>6 DEF o
<1> QED
  BY <1>2, <1>3

AllColoredNow == \A r \in Ranges : reg[r] # NoReg
AtInstruction == Running /\ at[1] \in Blocks /\ at[2] \in Indices(at[1])

LEMMA RegistersAre ==
  ASSUME Shape, Typed, AllColoredNow, NEW x \in Ranges
  PROVE  reg[x] \in Registers
<1>1. reg[x] \in NoReg .. RSP /\ reg[x] # NoReg
  BY DEF AllColoredNow, Typed, RegistersTyped
<1> QED
  BY <1>1, KAssumption DEF Registers, NoReg, RSP

(* The destinations are written, each with its own result. *)
LEMMA DestinationStep ==
  ASSUME Shape, Typed, Coded, ~ Early, AllColoredNow, Values, AtInstruction, MachineStep,
         NEW k \in DOMAIN Here.dst
  PROVE  regs'[RegOf(Here.dst[k])] = Result(k)
<1> DEFINE i == Here
           r == RegOf(i.dst[k])
           writes == { j \in DOMAIN i.dst : RegOf(i.dst[j]) = r }
<1>1. /\ DOMAIN i.dst = 1 .. Len(i.dst) /\ Len(i.dst) \in Nat /\ Len(i.dst) <= 2
      /\ i.dst[k] \in DOMAIN range /\ range[i.dst[k]] \in Ranges
  BY CodeFacts DEF Here, AtInstruction
<1>2. r \in Registers
  BY <1>1, RegistersAre DEF RegOf
<1>3. writes = {k}
  <2>1. Len(i.dst) = 2 => RegOf(i.dst[1]) # RegOf(i.dst[2])
    BY DEF Coded, TwoColored, AtInstruction, Here
  <2>2. ASSUME NEW j \in DOMAIN i.dst, RegOf(i.dst[j]) = r PROVE j = k
    <3>1. (k = 1 \/ (k = 2 /\ Len(i.dst) = 2)) /\ (j = 1 \/ (j = 2 /\ Len(i.dst) = 2))
      BY <1>1, <2>2, OneOrTwo
    <3> QED
      BY <2>1, <2>2, <3>1
  <2> QED
    BY <2>2
<1>4. Max(writes) = k
  <2>1. k \in Nat
    BY <1>1
  <2> QED
    BY <1>3, <2>1 DEF Max
<1>5. regs'[r] = Result(Max(writes))
  BY <1>2, <1>3 DEF MachineStep
<1> QED
  BY <1>4, <1>5

LEMMA SlotStep ==
  ASSUME Shape, Typed, Coded, Values, AtInstruction, MachineStep, Stores(Here)
  PROVE  /\ Here.slot \in 1 .. MaxSpills
         /\ Here.op = "store" => frame'[Here.slot] = regs[RegOf(Here.src[1])]
         /\ Here.op = "constStore" => frame'[Here.slot] = Made(1)
<1>1. Here.slot \in 1 .. slots /\ slots \in 0 .. MaxSpills
  BY DEF Coded, SlotsKnown, AtInstruction, Here, Stores, Memory, Typed, ControlTyped
<1>2. Here.slot \in 1 .. MaxSpills
  BY <1>1, KAssumption
<1> QED
  BY <1>2 DEF MachineStep, Values

(* What is live and not written keeps its register, or its slot. *)
LEMMA KeptStep ==
  ASSUME Shape, Typed, Coded, AllColoredNow, Values, AtInstruction, MachineStep, UNCHANGED vars,
         NEW A, ColorsApart(A), NEW x, ~ WritesTo(Here, range, x),
         (x \in Ranges /\ (x # SP => x \in A[at[1]][at[2]])) \/ (x \in Int /\ x < 0 /\ - x <= slots)
  PROVE  Content(x)' = Age(Content(x)) \/ (Here.op = "copy" /\ Content(x)' = Content(x))
<1> DEFINE i == Here
<1>1. CASE x \in Int /\ x < 0 /\ - x <= slots
  <2>1. - x \in 1 .. MaxSpills
    BY <1>1, KAssumption DEF Typed, ControlTyped
  <2>2. Stores(i) => - x # i.slot
    <3>1. Stores(i) => i.slot \in 1 .. slots
      BY DEF Coded, SlotsKnown, AtInstruction, Here, Stores, Memory
    <3>2. slots \in Nat
      BY DEF Shape, CodeTyped
    <3> QED
      BY <1>1, <3>1, <3>2 DEF WritesTo
  <2>3. frame'[- x] = Age(frame[- x])
    BY <2>1, <2>2 DEF MachineStep, Values, Stores
  <2> QED
    BY <1>1, <2>3 DEF Content
<1>2. CASE x \in Ranges /\ (x # SP => x \in A[at[1]][at[2]])
  <2>1. reg[x] \in Registers /\ ~ (x < 0) /\ reg' = reg
    BY <1>2, RegistersAre, CodeShape DEF vars
  <2>2. /\ DOMAIN i.dst = 1 .. Len(i.dst) /\ Len(i.dst) \in Nat /\ Len(i.dst) <= 2
        /\ \A k \in DOMAIN i.dst : range[i.dst[k]] \in Ranges
    BY CodeFacts DEF Here, AtInstruction
  <2>3. SoundAt(A[at[1]][at[2] - 1], i, A[at[1]][at[2]], range, Colored, Different)
    <3>1. at[1] \in DOMAIN code /\ at[2] \in 1 .. Len(code[at[1]])
      BY CodeShape DEF Indices, AtInstruction
    <3> QED
      BY <3>1 DEF ColorsApart, Sound, Here
  <2>4. ASSUME NEW k \in DOMAIN i.dst, RegOf(i.dst[k]) = reg[x] PROVE FALSE
    <3> DEFINE z == range[i.dst[k]]
    <3>1. z # x /\ z \in Ranges /\ reg[z] = reg[x]
      BY <2>2, <2>4 DEF WritesTo, RegOf
    <3>2. z # SP /\ x # SP
      <4>1. \A r \in Ranges : reg[r] = RSP => r = SP
        BY DEF Coded, OnlyStackPointer
      <4>2. reg[SP] = RSP
        BY DEF Shape, RangesTyped
      <4> QED
        BY <1>2, <3>1, <4>1, <4>2
    <3>3. z \in Colored /\ x \in Colored
      BY <1>2, <3>1, <3>2 DEF Colored, AllColoredNow
    <3>4. Clash(i, range, A[at[1]][at[2]], z, x)
      <4>1. x \in A[at[1]][at[2]] /\ i.dst # << >>
        BY <1>2, <2>2, <3>2, EmptySeq
      <4>2. k = 1 \/ (k = 2 /\ Len(i.dst) = 2)
        BY <2>2, OneOrTwo
      <4>3. CASE k = 1
        BY <4>1, <4>3 DEF Clash
      <4>4. CASE k = 2 /\ Len(i.dst) = 2
        <5>1. 1 \in DOMAIN i.dst
          BY <2>2, <4>4
        <5>2. x # range[i.dst[1]]
          BY <5>1 DEF WritesTo
        <5> QED
          BY <4>1, <4>4, <5>2 DEF Clash
      <4> QED
        BY <4>2, <4>3, <4>4
    <3>5. << z, x >> \in Different
      BY <2>3, <3>1, <3>3, <3>4 DEF SoundAt
    <3> QED
      BY <3>1, <3>5 DEF Different
  <2>5. regs'[reg[x]] = IF Here.op = "copy" THEN regs[reg[x]] ELSE Age(regs[reg[x]])
    <3>1. { k \in DOMAIN Here.dst : RegOf(Here.dst[k]) = reg[x] } = {}
      BY <2>4
    <3> QED
      BY <2>1, <3>1 DEF MachineStep
  <2> QED
    BY <2>1, <2>5 DEF Content
<1> QED
  BY <1>1, <1>2

LEMMA SourcesAreRead ==
  ASSUME NEW n, NEW i \in Instructions(n)
  PROVE  /\ SeqSet(Read(i)) = SeqSet(i.src) \cup (IF i.both THEN {i.dst[1]} ELSE {})
         /\ \A k \in DOMAIN i.src : i.src[k] \in SeqSet(Read(i))
         /\ i.both => 1 \in DOMAIN i.dst
<1>1. i \in Instr /\ (i.both => i.dst # << >>)
  BY DEF Instructions, WellFormed
<1>2. i.src \in Seq(Nat \ {0}) /\ i.dst \in Seq(Nat \ {0})
  BY <1>1 DEF Instr
<1>3. DOMAIN i.src = 1 .. Len(i.src) /\ Len(i.src) \in Nat
      /\ DOMAIN i.dst = 1 .. Len(i.dst) /\ Len(i.dst) \in Nat
  BY <1>2, LenProperties
<1>4. i.both => 1 \in DOMAIN i.dst
  BY <1>1, <1>2, <1>3, EmptySeq
<1>5. ASSUME i.both PROVE SeqSet(Read(i)) = SeqSet(i.src) \cup {i.dst[1]}
  <2> DEFINE s == Append(i.src, i.dst[1])
  <2>1. i.dst[1] \in Nat \ {0}
    BY <1>2, <1>4, <1>5, ElementOfSeq
  <2>2. /\ s \in Seq(Nat \ {0}) /\ Len(s) = Len(i.src) + 1
        /\ \A k \in 1 .. Len(i.src) : s[k] = i.src[k]
        /\ s[Len(i.src) + 1] = i.dst[1]
    BY <1>2, <2>1, AppendProperties
  <2> HIDE DEF s
  <2>3. DOMAIN s = 1 .. Len(i.src) + 1
    BY <2>2, LenProperties
  <2>4. SeqSet(s) \subseteq SeqSet(i.src) \cup {i.dst[1]}
    <3>1. ASSUME NEW k \in DOMAIN s PROVE s[k] \in SeqSet(i.src) \cup {i.dst[1]}
      <4>1. k \in 1 .. Len(i.src) \/ k = Len(i.src) + 1
        BY <1>3, <2>3
      <4> QED
        BY <1>3, <2>2, <4>1 DEF SeqSet
    <3> QED
      BY <3>1 DEF SeqSet
  <2>5. SeqSet(i.src) \cup {i.dst[1]} \subseteq SeqSet(s)
    <3>1. ASSUME NEW k \in DOMAIN i.src PROVE i.src[k] \in SeqSet(s)
      <4>1. k \in 1 .. Len(i.src) /\ k \in DOMAIN s
        BY <1>3, <2>3
      <4>2. s[k] = i.src[k]
        BY <2>2, <4>1
      <4> QED
        BY <4>1, <4>2, Zenon DEF SeqSet
    <3>2. SeqSet(i.src) \subseteq SeqSet(s)
      BY <3>1 DEF SeqSet
    <3>3. Len(i.src) + 1 \in DOMAIN s
      BY <1>3, <2>3
    <3>4. i.dst[1] \in SeqSet(s)
      BY <2>2, <3>3, Zenon DEF SeqSet
    <3> QED
      BY <3>2, <3>4
  <2>6. Read(i) = Append(i.src, i.dst[1])
    BY ONLY <1>5 DEF Read
  <2>7. Read(i) = s
    BY <2>6 DEF s
  <2> QED
    BY <2>4, <2>5, <2>7
<1>6. SeqSet(Read(i)) = SeqSet(i.src) \cup (IF i.both THEN {i.dst[1]} ELSE {})
  BY <1>5 DEF Read
<1> QED
  BY <1>4, <1>6 DEF SeqSet

(* Every claim after the instruction is true after the step. *)
LEMMA ClaimStep ==
  ASSUME Shape, Typed, Coded, pc = "running", AllColoredNow, Values, AtInstruction,
         SourceStep, MachineStep, UNCHANGED vars,
         NEW N, NEW W, NEW A, Claimed(N, W), ColorsApart(A), Within(W, A),
         Holds(W[at[1]][at[2] - 1]),
         NEW n \in Names(function), NEW x \in W[at[1]][at[2]][n]
  PROVE  Content(x)' = env'[n]
<1> DEFINE b == at[1]
           p == at[2]
           i == Here
           h == W[b][p - 1]
<1>0. b \in Blocks /\ p \in Indices(b) /\ i = code[b][p] /\ Running
  BY DEF AtInstruction, Here
<1>1. /\ ~ Early /\ p \in 0 .. Len(code[b]) /\ PlaceAt(b, p) = range
      /\ function \in Functions /\ Disciplined(function) /\ Matched(function, i)
  <2>1. ~ Early /\ PlaceAt(b, p) = range
    BY DEF Early, PlaceAt
  <2>2. p \in 0 .. Len(code[b])
    BY <1>0, CodeShape DEF Indices
  <2>3. function \in Functions /\ Disciplined(function)
    BY DEF Shape, Coded
  <2>4. Matched(function, i)
    BY <1>0, CodeFacts
  <2> QED
    BY <2>1, <2>2, <2>3, <2>4
<1>2. Fits(function, i, range, N, h, W[b][p])
  <2>1. Fits(function, code[b][p], PlaceAt(b, p), N, W[b][p - 1], W[b][p])
    BY <1>0 DEF Claimed, Claims, Fitting
  <2> QED
    BY <1>0, <1>1, <2>1
<1>3. /\ DOMAIN i.dst = 1 .. Len(i.dst) /\ DOMAIN i.src = 1 .. Len(i.src)
      /\ \A k \in DOMAIN i.dst : i.dst[k] \in DOMAIN range /\ range[i.dst[k]] \in Ranges
      /\ \A k \in DOMAIN i.src : i.src[k] \in DOMAIN range /\ range[i.src[k]] \in Ranges
  BY <1>0, CodeFacts
<1>4. \A j \in Names(function) : \A y \in h[j] : Content(y) = env[j]
  BY DEF Holds
<1>5. /\ \A y \in Ranges : Content(y) = regs[reg[y]] /\ Content(y)' = regs'[reg[y]]
      /\ \A y : y < 0 => Content(y) = frame[- y] /\ Content(y)' = frame'[- y]
  <2>1. \A y \in Ranges : ~ (y < 0)
    BY CodeShape
  <2>2. reg' = reg
    BY DEF vars
  <2> QED
    BY <2>1, <2>2 DEF Content
<1>6. ASSUME Memory(i) PROVE i.slot \in 1 .. slots /\ slots \in Nat /\ - i.slot < 0 /\ - (- i.slot) = i.slot
  <2>1. i.slot \in 1 .. slots /\ slots \in Nat
    BY <1>0, <1>6 DEF Coded, SlotsKnown, Shape, CodeTyped
  <2> QED
    BY <2>1
<1>7. Needs(function, i, range, N, h)
  BY <1>2 DEF Fits
<1>8. Justified(function, i, range, N, h, n, x)
  BY <1>2 DEF Fits
<1>9. /\ n \notin SetBy(function, i) => env'[n] = Age(env[n])
      /\ CopyLike(function, i) /\ n = To(function, i) => env'[n] = env[From(function, i)]
      /\ i.id # 0 /\ ~ CopyLike(function, i)
           => \A k \in DOMAIN Original.dst : Var(Original.dst[k]) = n => env'[n] = Made(k)
  BY <1>0, VariableStep
<1>10. Original = OriginalIn(function, i)
  BY OriginalIsIn
<1>11. \A v \in DOMAIN function.name : N[v] = {function.name[v]}
  BY DEF Claimed, Named
<1>12. \A v \in SeqSet(Read(i)) : v \in DOMAIN range /\ range[v] \in Ranges /\ N[v] \subseteq Names(function)
  <2>1. \A v \in SeqSet(Read(i)) : v \in DOMAIN range /\ range[v] \in Ranges
    BY <1>0, CodeFacts
  <2>2. \A v \in SeqSet(Read(i)) : N[v] \subseteq Names(function)
    BY <1>0, FetchedAreNames DEF Claimed
  <2> QED
    BY <2>1, <2>2
<1>13. \A v \in SeqSet(Read(i)) : \A j \in N[v] : regs[RegOf(v)] = env[j]
  <2> SUFFICES ASSUME NEW v \in SeqSet(Read(i)), NEW j \in N[v] PROVE regs[RegOf(v)] = env[j]
    OBVIOUS
  <2>1. range[v] \in h[j] /\ j \in Names(function) /\ range[v] \in Ranges
    BY <1>7, <1>12 DEF Needs
  <2>2. Content(range[v]) = env[j]
    BY <1>4, <2>1
  <2> QED
    BY <1>5, <2>1, <2>2 DEF RegOf
<1>14. \A k \in DOMAIN i.src : i.src[k] \in SeqSet(Read(i))
  BY <1>0, SourcesAreRead, CodeFacts
<1>15. i.op = "load" => \A j \in Fetched(function, i, N) : frame[i.slot] = env[j]
  <2> SUFFICES ASSUME i.op = "load", NEW j \in Fetched(function, i, N) PROVE frame[i.slot] = env[j]
    OBVIOUS
  <2>1. j \in Names(function)
    BY <1>0, FetchedAreNames DEF Claimed
  <2>2. - i.slot \in h[j]
    BY <1>7 DEF Needs
  <2>3. - i.slot < 0 /\ - (- i.slot) = i.slot
    BY <1>6 DEF Memory
  <2> QED
    BY <1>4, <1>5, <2>1, <2>2, <2>3
<1> HIDE DEF i, h
<1>16. ASSUME NEW k \in DOMAIN i.dst, x = range[i.dst[k]], n \in N[i.dst[k]] PROVE Content(x)' = env'[n]
  <2>1. Content(x)' = Result(k)
    <3>1. regs'[RegOf(Here.dst[k])] = Result(k)
      BY <1>1, <1>16, DestinationStep DEF i
    <3>2. RegOf(Here.dst[k]) = reg[x]
      BY <1>16 DEF RegOf, i
    <3>3. x \in Ranges
      BY <1>3, <1>16
    <3> QED
      BY <1>5, <3>1, <3>2, <3>3
  <2>2. CASE i.id = 0
    <3>1. i.op = "load" /\ k = 1 /\ SetBy(function, i) = {} /\ Fetched(function, i, N) = N[i.dst[1]]
      BY <1>1, <1>3, <1>16, <2>2 DEF Matched, SetBy, Fetched
    <3>2. env'[n] = env[n]
      BY <1>9, <2>2, <3>1 DEF Age, i
    <3>3. frame[i.slot] = env[n]
      BY <1>15, <1>16, <3>1
    <3> QED
      BY <2>1, <3>1, <3>2, <3>3 DEF Result, i
  <2>3. CASE i.id # 0
    <3> DEFINE o == OriginalIn(function, i)
    <3>1. /\ i.dst = o.dst /\ o \in SourceOf(function)
          /\ i.op \in {"copy", "load"} => CopyLike(function, i) /\ Len(i.dst) = 1
          /\ i.op \notin {"copy", "load"} => ~ CopyLike(function, i)
          /\ i.op = "copy" => i.src = o.src
      <4>1. i.dst # << >>
        BY <1>3, EmptySeq
      <4> QED
        BY <1>1, <2>3, <4>1, MatchedFacts DEF Matched, CopyLike
    <3>2. n = Var(o.dst[k]) /\ N[i.dst[k]] = {n}
      <4>1. o.dst[k] \in DOMAIN function.name
        BY <1>1, <1>16, <3>1, SourceFacts
      <4> QED
        BY <1>11, <1>16, <3>1, <4>1 DEF Var
    <3>3. CASE i.op \in {"copy", "load"}
      <4>1. k = 1 /\ n = To(function, i)
        BY <1>3, <3>1, <3>2, <3>3 DEF To, Var
      <4>2. env'[n] = env[From(function, i)]
        BY <1>9, <3>1, <3>3, <4>1
      <4>3. CASE i.op = "load"
        <5>1. frame[i.slot] = env[From(function, i)]
          BY <1>15, <2>3, <4>3 DEF Fetched
        <5> QED
          BY <2>1, <4>2, <4>3, <5>1 DEF Result, i
      <4>4. CASE i.op = "copy"
        <5>1. o.op = "copy" /\ Len(o.src) = 1 /\ DOMAIN o.src = 1 .. Len(o.src) /\ o.src[1] \in DOMAIN function.name
          <6>1. o.op = "copy"
            BY <3>1, <4>4 DEF CopyLike
          <6>2. Len(o.src) = 1 /\ DOMAIN o.src = 1 .. Len(o.src)
            BY <1>1, <3>1, <6>1, SourceFacts
          <6>3. 1 \in DOMAIN o.src
            BY <6>2
          <6> QED
            BY <1>1, <3>1, <6>1, <6>2, <6>3, SourceFacts
        <5>2. i.src[1] \in SeqSet(Read(i)) /\ From(function, i) \in N[i.src[1]]
          BY <1>11, <1>14, <3>1, <4>4, <5>1 DEF From
        <5>3. regs[RegOf(i.src[1])] = env[From(function, i)]
          BY <1>13, <5>2
        <5> QED
          BY <2>1, <4>2, <4>4, <5>3 DEF Result, i
      <4> QED
        BY <3>3, <4>3, <4>4
    <3>4. CASE i.op \notin {"copy", "load"}
      <4>1. env'[n] = Made(k)
        BY <1>9, <1>10, <1>16, <2>3, <3>1, <3>2, <3>4
      <4>2. Result(k) = Made(k)
        BY <3>4 DEF Result, i
      <4> QED
        BY <2>1, <4>1, <4>2
    <3> QED
      BY <3>3, <3>4
  <2> QED
    BY <2>2, <2>3
<1>17. ASSUME i.op = "store", x = - i.slot, n \in N[i.src[1]] PROVE Content(x)' = env'[n]
  <2>1. i.id = 0 /\ Len(i.src) = 1 /\ SetBy(function, i) = {}
    <3>1. i.id = 0
      BY <1>1, <1>17, MatchedFacts
    <3> QED
      BY <1>1, <1>17, <3>1 DEF Matched, SetBy
  <2>2. env'[n] = env[n]
    BY <1>9, <2>1 DEF Age, i
  <2>3. 1 \in DOMAIN i.src
    BY <1>3, <2>1
  <2>4. regs[RegOf(i.src[1])] = env[n]
    BY <1>13, <1>14, <1>17, <2>3
  <2>5. frame'[i.slot] = regs[RegOf(i.src[1])]
    BY <1>17, SlotStep DEF i, Stores
  <2>6. x < 0 /\ - x = i.slot
    BY <1>6, <1>17 DEF Memory
  <2> QED
    BY <1>5, <2>2, <2>4, <2>5, <2>6
<1>18. ASSUME i.op = "constStore", x = - i.slot, n = To(function, i) PROVE Content(x)' = env'[n]
  <2> DEFINE o == OriginalIn(function, i)
  <2>1. i.id # 0
    BY <1>1, <1>18 DEF Matched
  <2>2. o.op = "const" /\ o \in SourceOf(function)
    BY <1>1, <1>18, <2>1, MatchedFacts
  <2>3. ~ CopyLike(function, i) /\ 1 \in DOMAIN o.dst
    <3>1. Len(o.dst) = 1 /\ DOMAIN o.dst = 1 .. Len(o.dst)
      BY <1>1, <2>2, SourceFacts
    <3> QED
      BY <2>2, <3>1 DEF CopyLike
  <2>4. env'[n] = Made(1)
    BY <1>9, <1>10, <1>18, <2>1, <2>3 DEF To, Var
  <2>5. frame'[i.slot] = Made(1)
    BY <1>18, SlotStep DEF i, Stores
  <2>6. x < 0 /\ - x = i.slot
    BY <1>6, <1>18 DEF Memory
  <2> QED
    BY <1>5, <2>4, <2>5, <2>6
<1>19. ASSUME ~ WritesTo(i, range, x), Keeps(function, i, h, n, x) PROVE Content(x)' = env'[n]
  <2>1. Content(x)' = Age(Content(x)) \/ (i.op = "copy" /\ Content(x)' = Content(x))
    <3>0. Located(W)
      BY DEF Claimed, Claims
    <3>1. x \in Ranges \/ (x \in Int /\ x < 0 /\ - x <= slots)
      BY <1>0, <1>1, <3>0 DEF Located
    <3>2. x < 0 \/ x = SP \/ x \in A[at[1]][at[2]]
      BY <1>0, <1>1 DEF Within
    <3>3. x \in Ranges => ~ (x < 0)
      BY CodeShape
    <3> QED
      BY <1>19, <3>1, <3>2, <3>3, KeptStep DEF i
  <2>2. CopyLike(function, i) => \A j \in Names(function) : Age(env[j]) = env[j]
    <3>1. CopyLike(function, i) => /\ OriginalIn(function, i) \in SourceOf(function)
                                   /\ OriginalIn(function, i).op = "copy" /\ OriginalIn(function, i).id = i.id
      BY <1>1, MatchedFacts DEF CopyLike
    <3> QED
      BY <3>1 DEF Values, Age, i
  <2>3. i.op = "copy" => CopyLike(function, i)
    <3>1. i.op = "copy" => i.id # 0
      BY <1>1 DEF Matched
    <3> QED
      BY <1>1, <3>1, MatchedFacts
  <2>4. CASE n \notin SetBy(function, i) /\ x \in h[n]
    <3>1. Content(x) = env[n] /\ env'[n] = Age(env[n])
      BY <1>4, <1>9, <2>4 DEF h
    <3> QED
      BY <2>1, <2>2, <2>3, <3>1
  <2>5. CASE CopyLike(function, i) /\ n = To(function, i) /\ x \in h[From(function, i)]
    <3>1. From(function, i) \in Names(function)
      BY <1>1, <2>5, MatchedFacts DEF CopyLike
    <3>2. Content(x) = env[From(function, i)] /\ env'[n] = env[From(function, i)]
      BY <1>4, <1>9, <2>5, <3>1 DEF h
    <3> QED
      BY <2>1, <2>2, <2>5, <3>1, <3>2
  <2> QED
    BY <1>19, <2>4, <2>5 DEF Keeps
<1> QED
  BY <1>8, <1>16, <1>17, <1>18, <1>19 DEF Justified, Given

LEMMA ValuesStep ==
  ASSUME Shape, Coded, Values, AtInstruction, SourceStep, MachineStep, function' = function
  PROVE  Values'
<1> DEFINE o == OriginalIn(function, Here)
<1>1. /\ function \in Functions /\ Disciplined(function) /\ Matched(function, Here) /\ Original = o
  BY CodeFacts, OriginalIsIn DEF Here, Shape, Coded, AtInstruction
<1>2. DOMAIN env' = Names(function) /\ DOMAIN regs' = Registers /\ DOMAIN frame' = 1 .. MaxSpills
  BY DEF SourceStep, MachineStep, Values
<1>3. ASSUME NEW n \in Names(function), NEW c \in SourceOf(function), c.op = "copy"
      PROVE env'[n][1] # c.id
  <2>1. /\ n \notin SetBy(function, Here) => env'[n] = Age(env[n])
        /\ CopyLike(function, Here) /\ n = To(function, Here) => env'[n] = env[From(function, Here)]
        /\ Here.id # 0 /\ ~ CopyLike(function, Here)
              => \A k \in DOMAIN o.dst : Var(o.dst[k]) = n => env'[n] = Made(k)
    BY <1>1, VariableStep DEF AtInstruction
  <2>2. CASE n \notin SetBy(function, Here)
    <3>1. Age(env[n])[1] = env[n][1]
      BY DEF Age, Stale
    <3> QED
      BY <1>3, <2>1, <2>2, <3>1 DEF Values
  <2>3. CASE n \in SetBy(function, Here) /\ CopyLike(function, Here)
    <3>1. From(function, Here) \in Names(function) /\ SetBy(function, Here) = {To(function, Here)}
      BY <1>1, <2>3, MatchedFacts DEF CopyLike
    <3> QED
      BY <1>3, <2>1, <2>3, <3>1 DEF Values
  <2>4. CASE n \in SetBy(function, Here) /\ ~ CopyLike(function, Here)
    <3>1. Here.id # 0
      BY <2>4 DEF SetBy
    <3>2. o \in SourceOf(function) /\ o.id = Here.id /\ o.op # "copy"
      BY <1>1, <2>4, <3>1, MatchedFacts DEF CopyLike
    <3>3. \E k \in DOMAIN o.dst : Var(o.dst[k]) = n
      BY <2>4, <3>1 DEF SetBy, Sets, SeqSet, Var
    <3>4. env'[n][1] = Here.id
      BY <2>1, <2>4, <3>1, <3>3 DEF Made, Value
    <3> QED
      BY <1>1, <1>3, <3>2, <3>4, SourceFacts
  <2> QED
    BY <2>2, <2>3, <2>4
<1>4. \A n \in Names(function) : \A c \in SourceOf(function) : c.op = "copy" => env'[n][1] # c.id
  BY <1>3
<1> QED
  BY <1>2, <1>4 DEF Values, Registers, RSP

(* The next instruction, or the first of a successor. *)
LEMMA Advances ==
  ASSUME Shape, Coded, pc = "running", NEW b \in Blocks, NEW p, at = << b, p >>,
         IF p = 0 THEN Len(code[b]) = 0 ELSE p \in Indices(b),
         Advance, UNCHANGED vars, NEW W, Passed(W), Holds(W[b][p])'
  PROVE  Located0' /\ (Running => Holds(W[at[1]][Point]))'
<1>1. /\ Len(code[b]) \in Nat /\ at[1] = b /\ at[2] = p
      /\ code' = code /\ Blocks' = Blocks /\ pc' = "running" /\ function' = function
  BY CodeShape DEF vars, Blocks
<1>2. CASE p < Len(code[b])
  <2>1. at' = << b, p + 1 >> /\ p \in Indices(b)
    BY <1>1, <1>2 DEF Advance
  <2>2. p + 1 \in Indices(b) /\ p + 1 # 0 /\ Point' = p
    BY <1>1, <1>2, <2>1 DEF Indices, Point
  <2> QED
    BY <1>1, <2>1, <2>2 DEF Located0, Indices
<1>3. CASE ~ (p < Len(code[b]))
  <2>1. p = Len(code[b])
    BY <1>1, <1>3 DEF Indices
  <2>2. CASE at' = << 0, 0 >>
    BY <1>1, <2>2 DEF Located0, Running
  <2>3. CASE \E s \in function.succ[b] : at' = EntryPoints(s)
    <3>1. PICK s \in function.succ[b] : at' = EntryPoints(s)
      BY <2>3
    <3>2. s \in Blocks
      BY FunctionsAssumption DEF Shape, Blocks
    <3>3. Len(code[s]) \in Nat /\ (code[s] # << >> <=> Len(code[s]) # 0)
      BY <3>2, CodeShape, EmptySeq
    <3>4. at' = << s, IF Len(code[s]) = 0 THEN 0 ELSE 1 >>
      BY <3>1, <3>3 DEF EntryPoints
    <3>5. Point' = 0 /\ at'[1] = s
      BY <3>4 DEF Point
    <3>6. Located0'
      BY <1>1, <3>2, <3>3, <3>4 DEF Located0, Indices
    <3>7. \A n \in Names(function) : W[s][0][n] \subseteq W[b][p][n]
      BY <2>1 DEF Passed
    <3>8. Holds(W[s][0])'
      BY <1>1, <3>7 DEF Holds, Names
    <3> QED
      BY <3>5, <3>6, <3>8
  <2> QED
    BY <1>1, <1>3, <2>2, <2>3 DEF Advance
<1> QED
  BY <1>2, <1>3

LEMMA ExecuteFollows ==
  ASSUME Shape, Typed, Coded, Followed, Execute
  PROVE  Followed'
<1>1. /\ pc = "running" /\ UNCHANGED vars /\ Running /\ at[1] \in Blocks /\ at = << at[1], at[2] >>
      /\ IF at[2] = 0 THEN Len(code[at[1]]) = 0 ELSE at[2] \in Indices(at[1])
      /\ AllColoredNow /\ Values /\ Advance
  BY DEF Followed, Finished, Located0, Execute, AllColoredNow
<1>2. PICK N, W, A : Proven(N, W, A)
  BY <1>1 DEF Followed, Finished
<1>3. PICK b, p : b = at[1] /\ p = at[2]
  OBVIOUS
<1>4. Values' /\ Holds(W[b][p])'
  <2>1. CASE at[2] = 0
    <3>1. UNCHANGED << env, regs, frame, function, reg >> /\ p = 0
      BY <1>1, <1>3, <2>1 DEF Execute, vars
    <3>2. Holds(W[b][0])
      BY <1>1, <1>2, <1>3, <2>1 DEF Proven, Point
    <3> QED
      BY <1>1, <3>1, <3>2 DEF Values, Holds, Content, Names, Registers, RSP
  <2>2. CASE at[2] # 0
    <3>1. SourceStep /\ MachineStep /\ AtInstruction /\ function' = function
      BY <1>1, <2>2 DEF Execute, AtInstruction, vars
    <3>2. Holds(W[at[1]][at[2] - 1])
      BY <1>1, <1>2, <2>2 DEF Proven, Point
    <3>3. ASSUME NEW n \in Names(function), NEW x \in W[at[1]][at[2]][n] PROVE Content(x)' = env'[n]
      BY <1>1, <1>2, <3>1, <3>2, <3>3, ClaimStep DEF Proven
    <3>4. \A n \in Names(function) : \A x \in W[b][p][n] : Content(x)' = env'[n]
      BY <1>3, <3>3
    <3>5. Holds(W[b][p])'
      BY <3>1, <3>4 DEF Holds, Names
    <3> QED
      BY <1>1, <3>1, <3>5, ValuesStep
  <2> QED
    BY <2>1, <2>2
<1>5. Located0' /\ (Running => Holds(W[at[1]][Point]))'
  <2>1. Passed(W)
    BY <1>2 DEF Proven, Claimed, Claims
  <2> QED
    BY <1>1, <1>3, <1>4, <2>1, Advances
<1>6. Claimed(N, W)' /\ Within(W, A)' /\ ColorsApart(A)' /\ Ranges' = Ranges
  <2>1. UNCHANGED << function, code, range, slots, reg >> /\ pc' # "spill" /\ pc # "spill" /\ Ranges' = Ranges
    BY <1>1 DEF vars, Ranges
  <2>2. \A x \in Ranges : reg[x] # NoReg => reg'[x] = reg[x]
    BY <2>1
  <2>3. Claimed(N, W)'
    BY <1>2, <2>1, <2>2, ClaimedStays DEF Proven, Coded
  <2> QED
    BY <1>2, <2>1, <2>3, WithinStays, ColorsApartStays DEF Proven
<1>7. Proven(N, W, A)'
  BY <1>5, <1>6 DEF Proven
<1>8. \A r \in Ranges' : reg'[r] # NoReg
  BY <1>1, <1>6 DEF AllColoredNow, vars
<1>9. Finished'
  BY <1>7, <1>8 DEF Finished, NoReg
<1> QED
  BY <1>4, <1>5, <1>9 DEF Followed

(* The function is entered with its parameters in their registers. *)
LEMMA EntryHolds ==
  ASSUME Shape, Typed, Coded, Followed, Enter, NEW W, Arrived(W), AllColoredNow
  PROVE  Values' /\ Holds(W[1][0])'
<1>1. /\ pc = "done" /\ UNCHANGED << env, frame, function, reg >>
      /\ env = [n \in Names(function) |-> AtEntry(n)]
      /\ regs' = [r \in Registers |->
                    IF r = RSP THEN AtEntry(SP)
                    ELSE IF \E n \in function.params : function.home[n] = r
                         THEN AtEntry(CHOOSE n \in function.params : function.home[n] = r)
                         ELSE Junk]
  BY DEF Enter, Followed, Located0
<1>2. Values'
  BY <1>1 DEF Followed, Values, Names, Registers, RSP
<1>3. /\ function \in Functions /\ ParametersApart(function) /\ HomesApart(function)
  BY DEF Shape, Coded, Disciplined
<1>4. SP \in Names(function) /\ RSP \in Registers
  BY <1>3, FunctionsAssumption, KAssumption DEF Names, Registers, RSP
<1>5. ASSUME NEW n \in Names(function), NEW x \in W[1][0][n] PROVE Content(x)' = env'[n]
  <2>1. \/ x = SP /\ n = SP
        \/ x \in Ranges /\ n \in function.params /\ reg[x] = function.home[n]
    BY <1>5 DEF Arrived
  <2>2. x \in Ranges /\ ~ (x < 0)
    BY <2>1, CodeShape DEF Shape, RangesTyped
  <2>3. Content(x)' = regs'[reg[x]] /\ env'[n] = AtEntry(n)
    BY <1>1, <2>2 DEF Content
  <2>4. CASE x = SP /\ n = SP
    <3>1. reg[x] = RSP
      BY <2>4 DEF Shape, RangesTyped
    <3> QED
      BY <1>1, <1>4, <2>3, <2>4, <3>1
  <2>5. CASE n \in function.params /\ reg[x] = function.home[n]
    <3>1. reg[x] \in Registers
      BY <2>2, RegistersAre
    <3>2. reg[x] # RSP
      <4>1. n # SP /\ n \in DOMAIN function.home
        BY <1>3, <2>5 DEF ParametersApart
      <4>2. \A j \in DOMAIN function.home : function.home[j] = RSP => j = SP
        BY <1>3 DEF ParametersApart
      <4> QED
        BY <2>5, <4>1, <4>2
    <3>3. \A m \in function.params : function.home[m] = function.home[n] => m = n
      BY <1>3, <2>5 DEF ParametersApart
    <3> DEFINE c == CHOOSE m \in function.params : function.home[m] = reg[x]
    <3> HIDE DEF c
    <3>4. c = n
      BY <2>5, <3>3 DEF c
    <3>5. regs'[reg[x]] = AtEntry(c)
      <4>1. \E j \in function.params : function.home[j] = reg[x]
        BY <2>5
      <4>2. regs'[reg[x]] = IF reg[x] = RSP THEN AtEntry(SP)
                            ELSE IF \E j \in function.params : function.home[j] = reg[x]
                                 THEN AtEntry(CHOOSE m \in function.params : function.home[m] = reg[x])
                                 ELSE Junk
        BY <1>1, <3>1
      <4> QED
        BY <3>2, <4>1, <4>2 DEF c
    <3> QED
      BY <2>3, <3>4, <3>5
  <2> QED
    BY <2>1, <2>4, <2>5
<1>6. Holds(W[1][0])'
  BY <1>1, <1>5 DEF Holds, Names
<1> QED
  BY <1>2, <1>6

LEMMA EnterFollows ==
  ASSUME Shape, Typed, Coded, Followed, Enter
  PROVE  Followed'
<1>1. /\ pc = "done" /\ pc' = "running" /\ at' = EntryPoints(1)
      /\ UNCHANGED << function, code, range, slots, reg >> /\ AllColoredNow
      /\ Ranges' = Ranges /\ Blocks' = Blocks
  BY DEF Enter, Followed, Finished, AllColoredNow, Ranges, Blocks
<1>2. PICK N, W, A : Proven(N, W, A)
  BY <1>1 DEF Followed, Finished
<1>3. Values' /\ Holds(W[1][0])'
  BY <1>1, <1>2, EntryHolds DEF Proven, Claimed, Claims
<1>4. /\ 1 \in Blocks /\ Len(code[1]) \in Nat /\ (code[1] # << >> <=> Len(code[1]) # 0)
  BY EntryIsBlock, CodeShape, EmptySeq
<1>5. at' = << 1, IF Len(code[1]) = 0 THEN 0 ELSE 1 >>
  BY <1>1, <1>4 DEF EntryPoints
<1>6. Located0'
  BY <1>1, <1>4, <1>5 DEF Located0, Indices
<1>7. Point' = 0 /\ at'[1] = 1
  BY <1>5 DEF Point
<1>8. (Running => Holds(W[at[1]][Point]))'
  BY <1>3, <1>7
<1>9. Claimed(N, W)' /\ Within(W, A)' /\ ColorsApart(A)'
  <2>1. \A x \in Ranges : reg[x] # NoReg => reg'[x] = reg[x]
    BY <1>1
  <2>2. Claimed(N, W)'
    BY <1>1, <1>2, <2>1, ClaimedStays DEF Proven, Coded
  <2> QED
    BY <1>1, <1>2, <2>2, WithinStays, ColorsApartStays DEF Proven
<1>10. Proven(N, W, A)'
  BY <1>8, <1>9 DEF Proven
<1>11. \A r \in Ranges' : reg'[r] # NoReg
  BY <1>1 DEF AllColoredNow
<1>12. Finished'
  BY <1>10, <1>11 DEF Finished, NoReg
<1> QED
  BY <1>3, <1>6, <1>12 DEF Followed

(* What is read holds the value of its variable. *)
LEMMA FollowedSees ==
  ASSUME Shape, Typed, Coded, Followed
  PROVE  UsesSeeTheirValues
<1> SUFFICES ASSUME Running, at[2] # 0, Here.id # 0
             PROVE /\ \A k \in DOMAIN Here.src :
                        RegOf(Here.src[k]) # NoReg /\ regs[RegOf(Here.src[k])] = env[Var(Original.src[k])]
                   /\ Here.both =>
                        RegOf(Here.dst[1]) # NoReg /\ regs[RegOf(Here.dst[1])] = env[Var(Original.dst[1])]
                   /\ Here.op = "load" => frame[Here.slot] = env[Var(Original.src[1])]
  BY DEF UsesSeeTheirValues
<1> DEFINE b == at[1]
           p == at[2]
           i == Here
           o == OriginalIn(function, i)
<1>1. /\ pc = "running" /\ b \in Blocks /\ p \in Indices(b) /\ AllColoredNow /\ i = code[b][p]
      /\ Original = o
  BY OriginalIsIn DEF Followed, Finished, Located0, AllColoredNow, Here
<1>2. PICK N, W, A : Proven(N, W, A)
  BY <1>1 DEF Followed, Finished
<1>3. /\ function \in Functions /\ Disciplined(function) /\ Matched(function, i)
      /\ i \in Instructions(Len(range))
  BY <1>1, CodeFacts DEF Shape, Coded
<1>4. Needs(function, i, range, N, W[b][p - 1]) /\ Holds(W[b][p - 1])
  <2>1. Fits(function, code[b][p], PlaceAt(b, p), N, W[b][p - 1], W[b][p])
    BY <1>1, <1>2 DEF Proven, Claimed, Claims, Fitting
  <2>2. PlaceAt(b, p) = range /\ Point = p - 1
    BY <1>1 DEF PlaceAt, Point
  <2>3. Needs(function, code[b][p], range, N, W[b][p - 1])
    BY <2>1, <2>2 DEF Fits
  <2>4. Holds(W[b][p - 1])
    BY <1>2, <2>2 DEF Proven
  <2> QED
    BY <1>1, <2>3, <2>4
<1>5. /\ \A v \in DOMAIN function.name : N[v] = {function.name[v]}
      /\ \A v \in SeqSet(Read(i)) : N[v] \subseteq Names(function) /\ range[v] \in Ranges
  <2>1. \A v \in SeqSet(Read(i)) : N[v] \subseteq Names(function)
    BY <1>1, <1>2, FetchedAreNames DEF Proven, Claimed
  <2>2. \A v \in SeqSet(Read(i)) : range[v] \in Ranges
    BY <1>1, CodeFacts
  <2> QED
    BY <1>2, <2>1, <2>2 DEF Proven, Claimed, Named
<1> HIDE DEF i, b, p
<1>6. ASSUME NEW v \in SeqSet(Read(i)), v \in DOMAIN function.name
      PROVE RegOf(v) # NoReg /\ regs[RegOf(v)] = env[Var(v)]
  <2>1. range[v] \in W[b][p - 1][Var(v)] /\ Var(v) \in Names(function) /\ range[v] \in Ranges
    BY <1>4, <1>5, <1>6 DEF Needs, Var
  <2>2. Content(range[v]) = env[Var(v)] /\ ~ (range[v] < 0)
    BY <1>4, <2>1, CodeShape DEF Holds
  <2> QED
    BY <1>1, <2>1, <2>2 DEF Content, RegOf, AllColoredNow
<1>7. /\ o \in SourceOf(function)
      /\ i.src = o.src \/ i.src = << >>
      /\ i.both => i.dst = o.dst
      /\ i.op = "load" => CopyLike(function, i)
  <2>1. i.both => i.op = "op"
    BY <1>3, MatchedFacts DEF i
  <2> QED
    BY <1>3, <2>1, MatchedFacts DEF i
<1>8. /\ \A k \in DOMAIN o.src : o.src[k] \in DOMAIN function.name
      /\ \A k \in DOMAIN o.dst : o.dst[k] \in DOMAIN function.name
  BY <1>3, <1>7, SourceFacts
<1>9. ASSUME NEW k \in DOMAIN i.src
      PROVE RegOf(i.src[k]) # NoReg /\ regs[RegOf(i.src[k])] = env[Var(o.src[k])]
  <2>1. i.src = o.src
    BY <1>7, <1>9, EmptySeq
  <2> QED
    BY <1>3, <1>6, <1>8, <1>9, <2>1, SourcesAreRead
<1>10. ASSUME i.both PROVE RegOf(i.dst[1]) # NoReg /\ regs[RegOf(i.dst[1])] = env[Var(o.dst[1])]
  <2>1. i.dst[1] \in SeqSet(Read(i)) /\ 1 \in DOMAIN i.dst
    BY <1>3, <1>10, SourcesAreRead
  <2> QED
    BY <1>6, <1>7, <1>8, <1>10, <2>1
<1>11. ASSUME i.op = "load" PROVE frame[i.slot] = env[Var(o.src[1])]
  <2>1. CopyLike(function, i) /\ From(function, i) = Var(o.src[1]) /\ From(function, i) \in Names(function)
    BY <1>3, <1>7, <1>11, MatchedFacts DEF From, Var, i
  <2>2. - i.slot \in W[b][p - 1][From(function, i)]
    BY <1>4, <1>11, <2>1 DEF Needs, Fetched, CopyLike
  <2>3. Content(- i.slot) = env[Var(o.src[1])]
    BY <1>4, <2>1, <2>2 DEF Holds
  <2>4. i.slot \in 1 .. slots /\ slots \in Nat
    BY <1>1, <1>11 DEF Coded, SlotsKnown, Memory, Shape, CodeTyped
  <2>5. - i.slot < 0 /\ - (- i.slot) = i.slot
    BY <2>4
  <2> QED
    BY <2>3, <2>5 DEF Content
<1> QED
  BY <1>1, <1>9, <1>10, <1>11 DEF i

-----------------------------------------------------------------------------
(***************************************************************************)
(* The spiller, which replaces the instruction k of block b by L others.   *)
(***************************************************************************)
Upto(a, p, b, q) == a < b \/ (a = b /\ p < q)
Rewrites(b, k, L) ==
  /\ cursor = << b, k >> /\ b \in Blocks /\ k \in Indices(b) /\ At = code[b][k]
  /\ UNCHANGED << function, pc, victim, slots >> /\ Blocks' = Blocks /\ pc = "spill"
  /\ \A a \in Blocks : Len(code'[a]) \in Nat
  /\ \A a \in Blocks : a # b => code'[a] = code[a]
  /\ Len(code'[b]) = Len(code[b]) + L - 1
  /\ \A p \in 1 .. k - 1 : code'[b][p] = code[b][p]
  /\ \A p \in k + L .. Len(code[b]) + L - 1 : code'[b][p] = code[b][p - L + 1]
  /\ \A a \in Blocks : \A p \in Indices(a) : Handled(a, p) <=> Upto(a, p, b, k)
  /\ \A a \in Blocks : \A p \in 1 .. Len(code'[a]) : Handled(a, p)' <=> Upto(a, p, b, k + L)

Layout(c) ==
  /\ Len(c) \in Nat /\ Blocks = 1 .. Len(c)
  /\ \A e \in Blocks : Len(c[e]) \in Nat /\ (c[e] = << >> => Len(c[e]) = 0)

PassedBy(to, a, p) == a < to[1] \/ (a = to[1] /\ p < to[2])

LEMMA PastIsHandled ==
  ASSUME NEW c, Layout(c), NEW b \in Blocks, NEW k \in Nat, cursor = << b, k >>, NEW L \in Nat,
         NEW a \in Blocks, NEW p \in 1 .. Len(c[a])
  PROVE  PassedBy(Past(c, L), a, p) <=> Upto(a, p, b, k + L)
<1> DEFINE later == { e \in Blocks : e > b /\ c[e] # << >> }
<1>1. /\ a \in Nat /\ b \in Nat /\ p \in Nat /\ p >= 1 /\ Len(c[b]) \in Nat /\ Len(c[a]) # 0
      /\ Len(c) \in Nat /\ a <= Len(c)
  BY DEF Layout
<1>a. c[a] # << >>
  BY <1>1 DEF Layout
<1>b. a > b => a \in later
  BY <1>a
<1>2. Past(c, L) = IF k + L <= Len(c[b]) THEN << b, k + L >>
                   ELSE IF later = {} THEN << Len(c) + 1, 1 >>
                   ELSE << CHOOSE e \in later : \A f \in later : e <= f, 1 >>
  BY DEF Past
<1>3. CASE k + L <= Len(c[b])
  BY <1>1, <1>2, <1>3 DEF Upto, PassedBy
<1>4. CASE ~ (k + L <= Len(c[b])) /\ later = {}
  <2>1. a <= b
    BY <1>1, <1>4, <1>b
  <2> QED
    BY <1>1, <1>2, <1>4, <2>1 DEF Upto, PassedBy
<1>5. CASE ~ (k + L <= Len(c[b])) /\ later # {}
  <2> DEFINE e == CHOOSE e \in later : \A f \in later : e <= f
  <2>1. e \in later /\ \A f \in later : e <= f
    <3>1. later \subseteq Nat
      BY DEF Layout
    <3>2. \E x \in later : \A y \in later : x <= y
      BY <1>5, <3>1, SmallestExists
    <3> QED
      BY <3>2
  <2>2. Past(c, L) = << e, 1 >>
    BY <1>2, <1>5
  <2> HIDE DEF e
  <2>3. e \in Nat /\ e > b
    BY <2>1 DEF Layout
  <2>4. a > b => a >= e
    BY <1>1, <1>b, <2>1, <2>3
  <2>a. ~ (k + L <= Len(c[b]))
    BY <1>5
  <2> QED
    <3>1. PassedBy(<< e, 1 >>, a, p) <=> (a < e \/ (a = e /\ p < 1))
      BY DEF PassedBy
    <3>2. PassedBy(<< e, 1 >>, a, p) <=> a < e
      BY <1>1, <3>1
    <3>3. Upto(a, p, b, k + L) <=> ~ (a > b)
      <4>1. a = b => p < k + L
        BY <1>1, <2>a
      <4> QED
        BY <1>1, <4>1 DEF Upto
    <3>4. a < e <=> ~ (a > b)
      BY <1>1, <2>3, <2>4
    <3> QED
      BY <2>2, <3>2, <3>3, <3>4
<1> QED
  BY <1>3, <1>4, <1>5

Puts(b, k, new) == \A j \in 1 .. Len(new) : code'[b][k - 1 + j] = new[j]

LEMMA SpillRewrites ==
  ASSUME IInv, pc = "spill", ~ AtEnd, UNCHANGED << function, pc, victim, slots >>,
         NEW n \in Nat, Len(range) <= n, NEW new \in Seq(Instructions(n)),
         code' = Replace(new), cursor' = Past(code', Len(new))
  PROVE  \E b, k : Rewrites(b, k, Len(new)) /\ Puts(b, k, new)
<1>1. /\ Shape /\ Instruction(code, cursor) /\ cursor \in (Nat \ {0}) \X (Nat \ {0})
      /\ cursor[1] \in Blocks /\ cursor[2] # 0
  BY SpillerIsAtInstruction DEF IInv
<1>2. PICK b, k : b = cursor[1] /\ k = cursor[2] /\ cursor = << b, k >>
  BY <1>1
<1>3. Spliced(code', b, k, new)
  BY <1>1, <1>2, ReplaceSplices
<1>4. code' \in Seq(Seq(Instructions(n))) /\ Len(code') = Len(code)
  BY SpillingKeeps
<1>5. /\ Blocks' = Blocks /\ Blocks = 1 .. Len(code) /\ DOMAIN code = Blocks /\ Len(code) \in Nat
      /\ \A a \in Blocks : DOMAIN code[a] = Indices(a) /\ Len(code[a]) \in Nat
  BY <1>1, CodeShape DEF Blocks, Indices, Shape, CodeTyped
<1>6. \A a \in Blocks : code'[a] \in Seq(Instructions(n)) /\ Len(code'[a]) \in Nat
  <2>1. Blocks = 1 .. Len(code')
    BY <1>4, <1>5
  <2> QED
    BY <1>4, <2>1, ElementOfSeq, LenProperties
<1>7. /\ \A a \in Blocks : \A p \in 1 .. Len(code'[a]) : Handled(a, p)' <=> Upto(a, p, b, k + Len(new))
  <2> SUFFICES ASSUME NEW a \in Blocks, NEW p \in 1 .. Len(code'[a])
               PROVE Handled(a, p)' <=> Upto(a, p, b, k + Len(new))
    OBVIOUS
  <2>1. Layout(code')
    <3>1. \A e \in Blocks : code'[e] = << >> => Len(code'[e]) = 0
      BY EmptySeq
    <3> QED
      BY <1>4, <1>5, <1>6, <3>1 DEF Layout
  <2>2. Len(new) \in Nat /\ k \in Nat /\ b \in Blocks
    BY <1>1, <1>2, LenProperties
  <2> DEFINE past == Past(code', Len(new))
  <2>3. PassedBy(past, a, p) <=> Upto(a, p, b, k + Len(new))
    BY <1>2, <2>1, <2>2, PastIsHandled
  <2> HIDE DEF past
  <2>4. cursor' = past
    BY DEF past
  <2> QED
    BY <2>3, <2>4 DEF Handled, PassedBy
<1>8. Rewrites(b, k, Len(new))
  <2>1. \A a \in Blocks : \A p \in Indices(a) : Handled(a, p) <=> Upto(a, p, b, k)
    BY <1>2 DEF Handled, Upto
  <2>2. k \in Indices(b) /\ b \in Blocks /\ At = code[b][k]
    BY <1>1, <1>2, <1>5 DEF Instruction, At
  <2>3. Len(code'[b]) = Len(code[b]) + Len(new) - 1
    BY <1>3, <1>5, <2>2, LenProperties DEF Spliced
  <2>4. \A p \in k + Len(new) .. Len(code[b]) + Len(new) - 1 : code'[b][p] = code[b][p - Len(new) + 1]
    <3>1. Len(code[b]) - 1 + Len(new) = Len(code[b]) + Len(new) - 1
      BY <1>5, <2>2, LenProperties
    <3> QED
      BY <1>3, <3>1 DEF Spliced
  <2>5. /\ \A a \in Blocks : a # b => code'[a] = code[a]
        /\ \A p \in 1 .. k - 1 : code'[b][p] = code[b][p]
    BY <1>3, <1>5 DEF Spliced
  <2> QED
    BY <1>2, <1>5, <1>6, <1>7, <2>1, <2>2, <2>3, <2>4, <2>5 DEF Rewrites
<1>9. Puts(b, k, new)
  BY <1>3 DEF Spliced, Puts
<1> QED
  BY <1>8, <1>9

-----------------------------------------------------------------------------
(* One instruction in the place of another.                                *)
InPlace(b, k, j) ==
  /\ pc = "spill" /\ pc' = "spill" /\ UNCHANGED << function, range, reg, victim, slots >>
  /\ Blocks' = Blocks /\ b \in Blocks /\ k \in Indices(b)
  /\ \A a \in Blocks : Len(code'[a]) = Len(code[a]) /\ Indices(a)' = Indices(a)
  /\ \A a \in Blocks : \A p \in Indices(a) : << a, p >> # << b, k >> => code'[a][p] = code[a][p]
  /\ code'[b][k] = j
  /\ \A a \in Blocks : \A p \in Indices(a) :
       /\ << a, p >> # << b, k >> => (Handled(a, p)' <=> Handled(a, p))
       /\ << a, p >> = << b, k >> => Handled(a, p)' /\ ~ Handled(a, p)
  /\ \A a \in Blocks : \A p \in Indices(a) : \A q \in Indices(a) : p < q /\ Handled(a, q) => Handled(a, p)

Replaces(i, j) ==
  /\ j.id = i.id /\ j.both = i.both /\ Matched(function, j) /\ i.op # "store"
  /\ (j.src = i.src /\ j.dst = i.dst) \/ (j.src = << >> /\ j.dst = i.dst) \/ (j.src = << >> /\ j.dst = << >>)
  /\ Memory(j) => j.slot \in 1 .. slots
  /\ Dummy(j) => j = i
  /\ SeqSet(Read(j)) \subseteq SeqSet(Read(i))
  /\ \A v \in SeqSet(Read(j)) : range[v] # victim

LEMMA RewritesInPlace ==
  ASSUME Shape, NEW b, NEW k, Rewrites(b, k, 1), UNCHANGED << range, reg >>
  PROVE  InPlace(b, k, code'[b][k])
<1>1. /\ b \in Blocks /\ k \in Indices(b) /\ Blocks \subseteq Nat
      /\ \A a \in Blocks : Len(code[a]) \in Nat /\ Len(code'[a]) \in Nat
      /\ k \in Nat /\ k >= 1 /\ k <= Len(code[b])
  <2>1. /\ b \in Blocks /\ k \in Indices(b)
        /\ \A a \in Blocks : Len(code'[a]) \in Nat
    BY DEF Rewrites
  <2>2. Blocks \subseteq Nat
    BY CodeShape, LenProperties DEF Shape, CodeTyped
  <2> QED
    BY <2>1, <2>2, CodeShape DEF Indices
<1>2. \A a \in Blocks : Len(code'[a]) = Len(code[a]) /\ Indices(a)' = Indices(a)
  BY <1>1 DEF Rewrites, Indices
<1>3. ASSUME NEW a \in Blocks, NEW p \in Indices(a), << a, p >> # << b, k >>
      PROVE code'[a][p] = code[a][p]
  <2>1. CASE a # b
    BY <2>1 DEF Rewrites
  <2>2. CASE a = b /\ p < k
    BY <1>1, <2>2 DEF Rewrites, Indices
  <2>3. CASE a = b /\ p > k
    <3>1. p \in k + 1 .. Len(code[b]) + 1 - 1 /\ p - 1 + 1 = p
      BY <1>1, <2>3 DEF Indices
    <3> QED
      BY <2>3, <3>1 DEF Rewrites
  <2> QED
    BY <1>1, <1>3, <2>1, <2>2, <2>3 DEF Indices
<1>4. ASSUME NEW a \in Blocks, NEW p \in Indices(a)
      PROVE /\ << a, p >> # << b, k >> => (Handled(a, p)' <=> Handled(a, p))
            /\ << a, p >> = << b, k >> => Handled(a, p)' /\ ~ Handled(a, p)
  <2>1. (Handled(a, p) <=> Upto(a, p, b, k)) /\ (Handled(a, p)' <=> Upto(a, p, b, k + 1))
    BY <1>2, <1>4 DEF Rewrites, Indices
  <2>2. p \in Nat /\ a \in Nat /\ b \in Nat
    BY <1>1 DEF Indices
  <2>3. /\ << a, p >> # << b, k >> => (Upto(a, p, b, k + 1) <=> Upto(a, p, b, k))
        /\ << a, p >> = << b, k >> => Upto(a, p, b, k + 1) /\ ~ Upto(a, p, b, k)
    BY <1>1, <2>2 DEF Upto
  <2> QED
    BY <2>1, <2>3
<1>5. ASSUME NEW a \in Blocks, NEW p \in Indices(a), NEW q \in Indices(a), p < q, Handled(a, q)
      PROVE Handled(a, p)
  <2>1. Upto(a, q, b, k)
    BY <1>5 DEF Rewrites
  <2>2. Upto(a, p, b, k)
    BY <1>1, <1>5, <2>1 DEF Upto, Indices
  <2> QED
    BY <2>2 DEF Rewrites
<1> QED
  BY <1>1, <1>2, <1>3, <1>4, <1>5 DEF InPlace, Rewrites

(* Nothing is claimed of the victim after an instruction that is about to  *)
(* be rewritten.                                                           *)
LEMMA NoClaimOfVictim ==
  ASSUME Shape, Coded, NEW N, NEW W, Claimed(N, W), pc = "spill", NEW b \in Blocks, NEW p \in 0 .. Len(code[b]),
         p + 1 \in Indices(b) => ~ Handled(b, p + 1), NEW n \in Names(function)
  PROVE  victim \notin W[b][p][n]
<1> SUFFICES ASSUME victim \in W[b][p][n] PROVE FALSE
  OBVIOUS
<1>1. AtStore(b, p)
  BY DEF Claimed, Claims, Raw
<1>2. p + 1 \in Indices(b)
  BY <1>1, CodeShape DEF AtStore, Indices
<1> QED
  BY <1>1, <1>2 DEF AtStore

LEMMA ReplacedFacts ==
  ASSUME NEW i, NEW j, Replaces(i, j)
  PROVE  /\ Operands(j) \subseteq Operands(i)
         /\ SeqSet(j.dst) \subseteq SeqSet(i.dst)
         /\ \A v \in Operands(j) : v \in SeqSet(i.dst) => v \in SeqSet(j.dst) \/ j.src = i.src
         /\ SetBy(function, j) = SetBy(function, i) /\ OriginalIn(function, j) = OriginalIn(function, i)
         /\ Closing(function, j) \subseteq Closing(function, i)
<1>1. OriginalIn(function, j) = OriginalIn(function, i)
  BY DEF Replaces, OriginalIn
<1>2. SeqSet(<< >>) = {}
  BY DEF SeqSet
<1>3. Operands(j) \subseteq Operands(i)
  BY <1>2 DEF Replaces, Operands
<1>4. Closing(function, j) \subseteq Closing(function, i)
  BY <1>3 DEF Replaces, Closing
<1> QED
  BY <1>1, <1>2, <1>3, <1>4 DEF Replaces, Operands, SetBy

LEMMA InPlaceCodes ==
  ASSUME Shape, Coded, NEW b, NEW k, NEW j, InPlace(b, k, j), Replaces(code[b][k], j)
  PROVE  Coded'
<1>1. /\ pc = "spill" /\ pc' = "spill" /\ UNCHANGED << function, range, reg, victim, slots >>
      /\ Blocks' = Blocks /\ b \in Blocks /\ k \in Indices(b) /\ Ranges' = Ranges
      /\ \A a \in Blocks : Len(code'[a]) = Len(code[a]) /\ Indices(a)' = Indices(a)
      /\ \A a \in Blocks : Indices(a) \subseteq Nat
  BY CodeShape DEF InPlace, Ranges, Indices
<1>2. \A a \in Blocks : \A p \in Indices(a) : code'[a][p] = code[a][p] \/ (a = b /\ p = k /\ code'[a][p] = j)
  BY DEF InPlace
<1>3. ~ Early /\ ~ Early' /\ ~ Uncolored'
  BY <1>1 DEF Early, Uncolored, Merging
<1>4. FromSource'
  <2>1. \A a \in Blocks : \A p \in Indices(a) : Matched(function, code'[a][p])
    BY <1>2 DEF Coded, FromSource, Replaces
  <2> QED
    BY <1>1, <2>1 DEF Coded, FromSource
<1>5. ReadLast'
  <2>1. \A a \in Blocks : \A p \in Indices(a) :
          /\ Operands(code'[a][p]) \subseteq Operands(code[a][p])
          /\ Closing(function, code'[a][p]) \subseteq Closing(function, code[a][p])
    BY <1>2, ReplacedFacts
  <2>2. \A a, e \in Blocks : a < e => \A q \in Indices(a), r \in Indices(e) :
          Closing(function, code[a][q]) \cap Operands(code[e][r]) = {}
    BY DEF Coded, ReadLast
  <2>3. ASSUME NEW a \in Blocks', NEW e \in Blocks', a < e, NEW q \in Indices(a)', NEW r \in Indices(e)'
        PROVE Closing(function', code'[a][q]) \cap Operands(code'[e][r]) = {}
    <3>1. a \in Blocks /\ e \in Blocks /\ q \in Indices(a) /\ r \in Indices(e) /\ function' = function
      BY <1>1, <2>3
    <3>2. Closing(function, code[a][q]) \cap Operands(code[e][r]) = {}
      BY <2>2, <2>3, <3>1
    <3>3. /\ Closing(function, code'[a][q]) \subseteq Closing(function, code[a][q])
          /\ Operands(code'[e][r]) \subseteq Operands(code[e][r])
      BY <2>1, <3>1
    <3> QED
      BY <3>1, <3>2, <3>3
  <2> QED
    BY <2>3 DEF ReadLast
<1>6. TwoColored'
  <2>1. ASSUME NEW a \in Blocks, NEW p \in Indices(a), Len(code'[a][p].dst) = 2
        PROVE code'[a][p].dst = code[a][p].dst
    <3>1. Len(<< >>) = 0
      OBVIOUS
    <3>2. j.dst = code[b][k].dst \/ j.dst = << >>
      BY DEF Replaces
    <3> QED
      BY <1>2, <2>1, <3>1, <3>2
  <2>2. \A v : RegOf(v)' = RegOf(v)
    BY <1>1 DEF RegOf
  <2> QED
    BY <1>1, <1>3, <2>1, <2>2 DEF Coded, TwoColored
<1>7. Untouched' /\ OnlyStackPointer' /\ StackPointerStays'
  BY <1>1, <1>3 DEF Coded, Untouched, OnlyStackPointer, StackPointerStays
<1>8. SlotsKnown'
  <2>1. ASSUME NEW a \in Blocks, NEW p \in Indices(a), Memory(code'[a][p])
        PROVE code'[a][p].slot \in 1 .. slots /\ (~ Handled(a, p)' => code'[a][p].slot # slots)
    <3>1. CASE << a, p >> = << b, k >>
      BY <2>1, <3>1 DEF InPlace, Replaces
    <3>2. CASE << a, p >> # << b, k >>
      BY <1>1, <2>1, <3>2 DEF InPlace, Coded, SlotsKnown
    <3> QED
      BY <3>1, <3>2
  <2>2. slots # 0
    BY <1>1 DEF Coded, SlotsKnown
  <2> QED
    BY <1>1, <1>3, <2>1, <2>2 DEF SlotsKnown
<1>9. VictimStored'
  <2>1. ASSUME NEW a \in Blocks, NEW p \in Indices(a), Handled(a, p)',
               NEW v \in SeqSet(Read(code'[a][p])), range[v] = victim
        PROVE code'[a][p].op = "store" /\ p > 1 /\ code'[a][p - 1].dst = << v >>
    <3>1. << a, p >> # << b, k >>
      BY <2>1 DEF InPlace, Replaces
    <3>2. code'[a][p] = code[a][p] /\ Handled(a, p)
      BY <2>1, <3>1 DEF InPlace
    <3>3. code[a][p].op = "store" /\ p > 1 /\ code[a][p - 1].dst = << v >>
      BY <1>1, <2>1, <3>2 DEF Coded, VictimStored
    <3>4. p - 1 \in Indices(a) /\ p - 1 < p
      <4>1. Len(code[a]) \in Nat /\ p \in 1 .. Len(code[a]) /\ p > 1
        BY <3>3, CodeShape DEF Indices
      <4> QED
        BY <4>1 DEF Indices
    <3>5. Handled(a, p - 1)
      BY <3>2, <3>4 DEF InPlace
    <3>6. code'[a][p - 1] = code[a][p - 1]
      BY <3>4, <3>5 DEF InPlace
    <3> QED
      BY <3>2, <3>3, <3>6
  <2> QED
    BY <1>1, <2>1 DEF VictimStored
<1>10. LoadsFirst'
  <2>1. ASSUME NEW a \in Blocks, NEW q \in Indices(a), NEW l \in Indices(a), q < l, code'[a][q].id # 0,
               Dummy(code'[a][l]), NEW v \in SeqSet(Read(code'[a][q]))
        PROVE range[v] # range[code'[a][l].dst[1]]
    <3>1. code'[a][l] = code[a][l]
      BY <1>2, <2>1 DEF Replaces
    <3>2. code[a][q].id # 0 /\ v \in SeqSet(Read(code[a][q]))
      <4>1. CASE code'[a][q] = code[a][q]
        BY <2>1, <4>1
      <4>2. CASE a = b /\ q = k /\ code'[a][q] = j
        BY <2>1, <4>2 DEF Replaces
      <4> QED
        BY <1>2, <4>1, <4>2
    <3> QED
      BY <2>1, <3>1, <3>2 DEF Coded, LoadsFirst
  <2> QED
    BY <1>1, <2>1 DEF LoadsFirst
<1>11. StoresSettled'
  <2>1. ASSUME NEW a \in Blocks, NEW p \in Indices(a), ~ Handled(a, p)', code'[a][p].op = "store",
               range[code'[a][p].src[1]] = victim
        PROVE WrittenWhenSettled(function)
    <3>1. code'[a][p] = code[a][p] /\ ~ Handled(a, p)
      BY <2>1 DEF InPlace
    <3> QED
      BY <1>1, <2>1, <3>1 DEF Coded, StoresSettled
  <2> QED
    BY <1>1, <2>1 DEF StoresSettled
<1> QED
  BY <1>1, <1>4, <1>5, <1>6, <1>7, <1>8, <1>9, <1>10, <1>11 DEF Coded

LEMMA InPlaceNames ==
  ASSUME Shape, Coded, NEW b, NEW k, NEW j, InPlace(b, k, j), Replaces(code[b][k], j),
         NEW N, Named(N), Steady(N)
  PROVE  Named(N)' /\ Steady(N)'
<1>1. /\ UNCHANGED << function, range >> /\ Blocks' = Blocks
      /\ \A a \in Blocks : Indices(a)' = Indices(a)
      /\ \A a \in Blocks : \A p \in Indices(a) : code'[a][p] = code[a][p] \/ (a = b /\ p = k /\ code'[a][p] = j)
  BY DEF InPlace
<1>2. Named(N)'
  BY <1>1 DEF Named, Names
<1>3. \A a \in Blocks : \A p \in Indices(a) :
        /\ Operands(code'[a][p]) \subseteq Operands(code[a][p])
        /\ Closing(function, code'[a][p]) \subseteq Closing(function, code[a][p])
        /\ SeqSet(code'[a][p].dst) \subseteq SeqSet(code[a][p].dst)
        /\ SetBy(function, code'[a][p]) = SetBy(function, code[a][p])
        /\ \A v \in Operands(code'[a][p]) : v \in SeqSet(code[a][p].dst) => v \in SeqSet(code'[a][p].dst)
  <2> SUFFICES ASSUME NEW a \in Blocks, NEW p \in Indices(a)
               PROVE /\ Operands(code'[a][p]) \subseteq Operands(code[a][p])
                     /\ Closing(function, code'[a][p]) \subseteq Closing(function, code[a][p])
                     /\ SeqSet(code'[a][p].dst) \subseteq SeqSet(code[a][p].dst)
                     /\ SetBy(function, code'[a][p]) = SetBy(function, code[a][p])
                     /\ \A v \in Operands(code'[a][p]) :
                          v \in SeqSet(code[a][p].dst) => v \in SeqSet(code'[a][p].dst)
    OBVIOUS
  <2>1. CASE code'[a][p] = code[a][p]
    BY <2>1
  <2>2. CASE a = b /\ p = k /\ code'[a][p] = j
    <3>1. SeqSet(<< >>) = {}
      BY DEF SeqSet
    <3>2. \A v \in Operands(j) : v \in SeqSet(code[a][p].dst) => v \in SeqSet(j.dst)
      BY <2>2, <3>1 DEF Replaces, Operands
    <3> QED
      BY <2>2, <3>2, ReplacedFacts
  <2> QED
    BY <1>1, <2>1, <2>2
<1>4. ASSUME NEW a \in Blocks', NEW q \in Indices(a)', NEW r \in Indices(a)', q < r,
             NEW v \in Closing(function', code'[a][q]) \cap Operands(code'[a][r])
      PROVE /\ v \notin SeqSet(code'[a][r].dst)
            /\ \A m \in q .. r : \/ m = q /\ v \in SeqSet(code'[a][q].dst)
                                \/ N[v] \cap SetBy(function', code'[a][m]) = {}
  <2>1. a \in Blocks /\ q \in Indices(a) /\ r \in Indices(a)
    BY <1>1, <1>4
  <2>2. v \in Closing(function, code[a][q]) \cap Operands(code[a][r]) /\ v \in Operands(code'[a][q])
    BY <1>1, <1>3, <1>4, <2>1 DEF Closing
  <2>3. /\ v \notin SeqSet(code[a][r].dst)
        /\ \A m \in q .. r : \/ m = q /\ v \in SeqSet(code[a][q].dst)
                            \/ N[v] \cap SetBy(function, code[a][m]) = {}
    BY <1>4, <2>1, <2>2 DEF Steady
  <2>4. \A m \in q .. r : m \in Indices(a)
    BY <2>1, CodeShape DEF Indices
  <2>5. v \notin SeqSet(code'[a][r].dst)
    BY <1>3, <2>1, <2>3
  <2>6. v \in SeqSet(code[a][q].dst) => v \in SeqSet(code'[a][q].dst)
    BY <1>3, <2>1, <2>2
  <2>7. \A m \in q .. r : SetBy(function', code'[a][m]) = SetBy(function, code[a][m])
    BY <1>1, <1>3, <2>1, <2>4
  <2> QED
    BY <2>3, <2>5, <2>6, <2>7
<1>5. Steady(N)'
  BY <1>4 DEF Steady
<1> QED
  BY <1>2, <1>5

LEMMA InPlaceClaims ==
  ASSUME Shape, Coded, NEW b, NEW k, NEW j, InPlace(b, k, j), Replaces(code[b][k], j),
         NEW N, NEW W, Claimed(N, W), Fits(function, j, range, N, W[b][k - 1], W[b][k])
  PROVE  Claimed(N, W)'
<1>1. /\ pc = "spill" /\ pc' = "spill" /\ UNCHANGED << function, range, reg, victim, slots >>
      /\ Blocks' = Blocks /\ b \in Blocks /\ k \in Indices(b) /\ Ranges' = Ranges
      /\ \A a \in Blocks : Len(code'[a]) = Len(code[a]) /\ Indices(a)' = Indices(a)
  BY DEF InPlace, Ranges
<1>2. Named(N)' /\ Steady(N)'
  BY InPlaceNames DEF Claimed
<1>3. Fitting(W, N)'
  <2>1. Slotted' = Slotted
    BY <1>1 DEF Slotted
  <2>2. ASSUME NEW a \in Blocks, NEW p \in Indices(a)
        PROVE Fits(function', code'[a][p], PlaceAt(a, p)', N, W[a][p - 1], W[a][p])
    <3>1. CASE << a, p >> = << b, k >>
      <4>1. PlaceAt(a, p)' = range /\ code'[a][p] = j /\ a = b /\ p = k
        BY <1>1, <3>1 DEF InPlace, PlaceAt
      <4> QED
        BY <1>1, <4>1
    <3>2. CASE << a, p >> # << b, k >>
      <4>1. code'[a][p] = code[a][p] /\ (Handled(a, p)' <=> Handled(a, p))
        BY <3>2 DEF InPlace
      <4>2. PlaceAt(a, p)' = PlaceAt(a, p)
        BY <1>1, <2>1, <4>1 DEF PlaceAt
      <4>3. Fits(function, code[a][p], PlaceAt(a, p), N, W[a][p - 1], W[a][p])
        BY DEF Claimed, Claims, Fitting
      <4> QED
        BY <1>1, <4>1, <4>2, <4>3
    <3> QED
      BY <3>1, <3>2
  <2> QED
    BY <1>1, <2>2 DEF Fitting
<1>4. Passed(W)' /\ Located(W)' /\ Arrived(W)'
  BY <1>1 DEF Claimed, Claims, Passed, Located, Arrived, Names
<1>5. Raw(W)'
  <2>1. ASSUME NEW a \in Blocks, NEW p \in 0 .. Len(code[a]), NEW n \in Names(function), victim \in W[a][p][n]
        PROVE AtStore(a, p)'
    <3>1. AtStore(a, p)
      BY <1>1, <2>1 DEF Claimed, Claims, Raw
    <3>2. p + 1 \in Indices(a)
      BY <3>1, CodeShape DEF AtStore, Indices
    <3>3. << a, p + 1 >> # << b, k >>
      BY <3>1, <3>2 DEF AtStore, InPlace
    <3>4. code'[a][p + 1] = code[a][p + 1] /\ Handled(a, p + 1)'
      BY <3>1, <3>2, <3>3 DEF InPlace, AtStore
    <3> QED
      BY <1>1, <3>1, <3>4 DEF AtStore
  <2> QED
    BY <1>1, <2>1 DEF Raw, Names
<1> QED
  BY <1>2, <1>3, <1>4, <1>5 DEF Claimed, Claims

(* What the spiller knows of the instruction it rewrites. *)
SpillKnown ==
  /\ slots \in 1 .. slots /\ slots \in Nat /\ victim \in Ranges /\ Ranges \subseteq Nat /\ 0 \notin Ranges
  /\ reg[victim] = NoReg
  /\ \A v \in DOMAIN range : Slotted[v] = IF range[v] = victim THEN - slots ELSE range[v]

LEMMA SpillIsKnown ==
  ASSUME Known, Coded, pc = "spill"
  PROVE  SpillKnown
<1>1. /\ Shape /\ slots \in Nat /\ victim \in Ranges /\ Ranges = 1 .. Len(reg) /\ Len(reg) \in Nat
      /\ reg[victim] = NoReg
  BY CodeShape DEF Known, IInv, Shape, CodeTyped, Typed, Kept, CInv, ColorsKept
<1>2. slots # 0
  BY DEF Coded, SlotsKnown
<1> QED
  BY <1>1, <1>2 DEF SpillKnown, Slotted

LEMMA SpilledFacts ==
  ASSUME Known, Coded, Faithful, pc = "spill", NEW b, NEW k, NEW L, Rewrites(b, k, L)
  PROVE  /\ Shape /\ At = code[b][k] /\ ~ Handled(b, k) /\ PlaceAt(b, k) = Slotted
         /\ \E N, W : /\ Claimed(N, W) /\ Fits(function, At, Slotted, N, W[b][k - 1], W[b][k])
                      /\ \A n \in Names(function) : victim \notin W[b][k][n] /\ victim \notin W[b][k - 1][n]
<1>1. Shape
  BY DEF Known, IInv
<1>3. /\ b \in Blocks /\ k \in Indices(b) /\ At = code[b][k] /\ b \in Nat /\ k \in Nat /\ Len(code[b]) \in Nat
      /\ k \in 1 .. Len(code[b])
  <2>1. b \in Blocks /\ k \in Indices(b) /\ At = code[b][k]
    BY DEF Rewrites
  <2>2. Blocks \subseteq Nat
    BY <1>1, CodeShape, LenProperties DEF Shape, CodeTyped
  <2> QED
    BY <1>1, <2>1, <2>2, CodeShape DEF Indices
<1>4. \A p \in Indices(b) : p >= k => ~ Handled(b, p)
  <2> SUFFICES ASSUME NEW p \in Indices(b), p >= k PROVE ~ Handled(b, p)
    OBVIOUS
  <2>1. Handled(b, p) <=> Upto(b, p, b, k)
    BY <1>3 DEF Rewrites
  <2>2. ~ Upto(b, p, b, k)
    BY <1>3 DEF Upto, Indices
  <2> QED
    BY <2>1, <2>2
<1>5. ~ Handled(b, k) /\ PlaceAt(b, k) = Slotted
  BY <1>3, <1>4 DEF PlaceAt
<1>6. PICK N, W : Claimed(N, W)
  BY DEF Faithful, Early
<1>7. Fits(function, At, Slotted, N, W[b][k - 1], W[b][k])
  BY <1>3, <1>5, <1>6 DEF Claimed, Claims, Fitting
<1>8. ASSUME NEW n \in Names(function) PROVE victim \notin W[b][k][n] /\ victim \notin W[b][k - 1][n]
  <2>1. k \in 0 .. Len(code[b]) /\ k - 1 \in 0 .. Len(code[b])
    BY <1>3
  <2>2. \A p \in {k, k - 1} : p + 1 \in Indices(b) => ~ Handled(b, p + 1)
    BY <1>3, <1>4 DEF Indices
  <2> QED
    BY <1>1, <1>3, <1>6, <2>1, <2>2, NoClaimOfVictim
<1> QED
  BY <1>1, <1>3, <1>5, <1>6, <1>7, <1>8

(* A copy out of the victim becomes a load. *)
LEMMA SpillCopyFaithful ==
  ASSUME Known, Coded, Faithful, SpillCopy
  PROVE  Coded' /\ Faithful'
<1> DEFINE new == [At EXCEPT !.op = "load", !.src = << >>, !.slot = slots]
<1>1. /\ IInv /\ pc = "spill" /\ ~ AtEnd /\ SpilledCopy /\ Shape /\ slots \in Nat
      /\ UNCHANGED << function, pc, victim, slots, range, reg >>
      /\ code' = Replace(<< new >>) /\ At \in Instructions(Len(range)) /\ Len(range) \in Nat
  BY SpillerIsAtInstruction, CodeShape DEF Known, IInv, SpillCopy, Spilling, Shape, CodeTyped
<1>2. /\ At.op = "copy" /\ range[At.src[1]] = victim
  BY <1>1 DEF SpilledCopy, Source
<1>3. At \in Instr /\ WellFormed(At, 1 .. Len(range)) /\ ~ At.both
  BY <1>1, <1>2 DEF Instructions, WellFormed
<1>4. /\ new.src = << >> /\ new.dst = At.dst /\ new.op = "load" /\ new.both = At.both /\ new.slot = slots
      /\ new.id = At.id
  BY <1>3 DEF Instr
<1>5. new \in Instructions(Len(range))
  <2>1. << >> \in Seq(Nat \ {0}) /\ "load" \in Op /\ SeqSet(<< >>) = {}
    BY EmptySeq DEF Op, SeqSet
  <2>2. new \in Instr
    BY <1>1, <1>3, <2>1 DEF Instr
  <2> HIDE DEF new
  <2> QED
    BY <1>3, <1>4, <2>1, <2>2 DEF Instructions, WellFormed
<1>6. cursor' = Past(code', 1)
  BY DEF SpillCopy, Spilling
<1> HIDE DEF new
<1>7. << new >> \in Seq(Instructions(Len(range))) /\ Len(<< new >>) = 1
  BY <1>5
<1>8. PICK b, k : Rewrites(b, k, Len(<< new >>)) /\ Puts(b, k, << new >>)
  <2> DEFINE alone == << new >>
             m == Len(range)
  <2>1. /\ alone \in Seq(Instructions(m)) /\ m \in Nat /\ Len(range) <= m
        /\ code' = Replace(alone) /\ cursor' = Past(code', Len(alone))
    BY <1>1, <1>6, <1>7
  <2> HIDE DEF alone, m
  <2>2. \E b, k : Rewrites(b, k, Len(alone)) /\ Puts(b, k, alone)
    BY <1>1, <2>1, SpillRewrites
  <2> QED
    BY <2>2 DEF alone
<1>9. Rewrites(b, k, 1) /\ code'[b][k] = new
  <2>1. k - 1 + 1 = k /\ 1 \in 1 .. Len(<< new >>) /\ << new >>[1] = new
    BY <1>1, <1>7, <1>8, CodeShape DEF Rewrites, Indices
  <2> QED
    BY <1>7, <1>8, <2>1 DEF Puts
<1>10. InPlace(b, k, new)
  BY <1>1, <1>9, RewritesInPlace
<1>11. /\ slots \in 1 .. slots /\ victim \in Ranges /\ Ranges \subseteq Nat /\ 0 \notin Ranges
       /\ At = code[b][k] /\ b \in Blocks /\ k \in Indices(b)
       /\ \A v \in DOMAIN range : Slotted[v] = IF range[v] = victim THEN - slots ELSE range[v]
  <2>1. /\ slots \in 1 .. slots /\ victim \in Ranges /\ Ranges \subseteq Nat /\ 0 \notin Ranges
        /\ \A v \in DOMAIN range : Slotted[v] = IF range[v] = victim THEN - slots ELSE range[v]
    <3>1. SpillKnown
      BY <1>1, SpillIsKnown
    <3> QED
      BY <3>1 DEF SpillKnown
  <2>2. At = code[b][k] /\ b \in Blocks /\ k \in Indices(b)
    BY <1>9 DEF Rewrites
  <2> QED
    BY <2>1, <2>2
<1>12. PICK N, W : /\ Claimed(N, W) /\ Fits(function, At, Slotted, N, W[b][k - 1], W[b][k])
                   /\ \A n \in Names(function) : victim \notin W[b][k][n]
  BY <1>1, <1>9, SpilledFacts
<1>13. /\ Matched(function, At) /\ At.id # 0 /\ DOMAIN At.dst = 1 .. Len(At.dst)
       /\ \A d \in DOMAIN At.dst : At.dst[d] \in DOMAIN range
       /\ \A v \in SeqSet(Read(At)) : v \in DOMAIN range
  <2>1. Matched(function, At) /\ \A d \in DOMAIN At.dst : At.dst[d] \in DOMAIN range
    BY <1>1, <1>11, CodeFacts
  <2> QED
    BY <1>1, <1>2, <1>11, <2>1, CodeFacts DEF Matched
<1>14. PICK o : /\ o = OriginalIn(function, At) /\ o.op = "copy" /\ At.src = o.src /\ At.dst = o.dst
                /\ o \in SourceOf(function) /\ o.id = At.id /\ o.both = At.both /\ Len(At.dst) = 1
  BY <1>1, <1>2, <1>13, MatchedFacts DEF Coded, Shape
<1>15. OriginalIn(function, new) = o
  BY <1>4, <1>14 DEF OriginalIn
<1>16. SeqSet(Read(new)) = {}
  BY <1>3, <1>4 DEF Read, SeqSet
<1>17. Replaces(code[b][k], new)
  <2>1. Matched(function, new)
    BY <1>4, <1>13, <1>14, <1>15 DEF Matched
  <2> QED
    BY <1>2, <1>4, <1>11, <1>13, <1>16, <2>1 DEF Replaces, Dummy
<1>18. Fits(function, new, range, N, W[b][k - 1], W[b][k])
  <2>1. CopyLike(function, At) /\ CopyLike(function, new) /\ From(function, new) = From(function, At)
        /\ To(function, new) = To(function, At) /\ SetBy(function, new) = SetBy(function, At)
    BY <1>4, <1>13, <1>14, <1>15 DEF CopyLike, From, To, SetBy
  <2>2. /\ At.src[1] \in SeqSet(Read(At)) /\ From(function, At) \in N[At.src[1]]
        /\ \A d \in DOMAIN At.dst : d = 1 /\ N[At.dst[d]] = {To(function, At)}
    <3>1. Len(o.src) = 1 /\ DOMAIN o.src = 1 .. 1 /\ o.src[1] \in DOMAIN function.name
          /\ \A d \in DOMAIN o.dst : o.dst[d] \in DOMAIN function.name
      BY <1>1, <1>14, SourceFacts DEF Coded, Shape
    <3>2. N[o.src[1]] = {function.name[o.src[1]]} /\ \A d \in DOMAIN o.dst : N[o.dst[d]] = {function.name[o.dst[d]]}
      BY <1>12, <3>1 DEF Claimed, Named
    <3>3. At.src[1] \in SeqSet(Read(At))
      BY <1>1, <1>14, <3>1, SourcesAreRead
    <3> QED
      BY <1>13, <1>14, <3>2, <3>3 DEF From, To
  <2>3. - slots \in W[b][k - 1][From(function, At)]
    BY <1>2, <1>11, <1>12, <1>13, <2>2 DEF Fits, Needs
  <2>4. Needs(function, new, range, N, W[b][k - 1])
    BY <1>4, <1>13, <1>16, <2>1, <2>3 DEF Needs, Fetched
  <2>5. ASSUME NEW n \in Names(function), NEW x \in W[b][k][n]
        PROVE Justified(function, new, range, N, W[b][k - 1], n, x)
    <3>1. x # victim /\ Justified(function, At, Slotted, N, W[b][k - 1], n, x)
      BY <1>12 DEF Fits
    <3>2. ~ Stores(At) /\ ~ Stores(new)
      BY <1>2, <1>4 DEF Stores
    <3>3. CASE Given(function, At, Slotted, N, n, x)
      <4>1. x = Slotted[At.dst[1]] /\ n \in N[At.dst[1]] /\ 1 \in DOMAIN At.dst /\ At.dst[1] \in DOMAIN range
        BY <1>2, <1>13, <2>2, <3>3 DEF Given
      <4>2. CASE range[At.dst[1]] = victim
        <5>1. x = - slots /\ n = To(function, new)
          BY <1>11, <2>1, <2>2, <4>1, <4>2
        <5>2. Keeps(function, new, W[b][k - 1], n, x)
          BY <2>1, <2>3, <5>1 DEF Keeps
        <5>3. - slots # victim
          BY <1>1, <1>11
        <5>4. ~ WritesTo(new, range, x)
          BY <1>4, <2>2, <3>2, <4>2, <5>1, <5>3 DEF WritesTo
        <5> QED
          BY <5>2, <5>4 DEF Justified
      <4>3. CASE range[At.dst[1]] # victim
        BY <1>4, <1>11, <4>1, <4>3 DEF Justified, Given
      <4> QED
        BY <4>2, <4>3
    <3>4. CASE ~ Given(function, At, Slotted, N, n, x)
      <4>1. ~ WritesTo(At, Slotted, x) /\ Keeps(function, At, W[b][k - 1], n, x)
        BY <3>1, <3>4 DEF Justified
      <4>2. ~ WritesTo(new, range, x)
        BY <1>4, <1>11, <1>13, <3>1, <3>2, <4>1 DEF WritesTo
      <4>3. Keeps(function, new, W[b][k - 1], n, x)
        BY <2>1, <4>1 DEF Keeps
      <4> QED
        BY <4>2, <4>3 DEF Justified
    <3> QED
      BY <3>3, <3>4
  <2> QED
    BY <2>4, <2>5 DEF Fits
<1>19. Coded'
  BY <1>1, <1>10, <1>17, InPlaceCodes
<1>20. Claimed(N, W)'
  BY <1>1, <1>10, <1>12, <1>17, <1>18, InPlaceClaims
<1> QED
  BY <1>1, <1>19, <1>20 DEF Faithful

(* A constant for the victim becomes a store of it. *)
LEMMA SpillConstFaithful ==
  ASSUME Known, Coded, Faithful, SpillConst
  PROVE  Coded' /\ Faithful'
<1> DEFINE new == [At EXCEPT !.op = "constStore", !.dst = << >>, !.slot = slots]
<1>1. /\ IInv /\ pc = "spill" /\ ~ AtEnd /\ SpilledConst /\ Shape /\ slots \in Nat
      /\ UNCHANGED << function, pc, victim, slots, range, reg >>
      /\ code' = Replace(<< new >>) /\ At \in Instructions(Len(range)) /\ Len(range) \in Nat
  BY SpillerIsAtInstruction, CodeShape DEF Known, IInv, SpillConst, Spilling, Shape, CodeTyped
<1>2. /\ At.op = "const" /\ range[At.dst[1]] = victim
  BY <1>1 DEF SpilledConst, Destination
<1>3. At \in Instr /\ WellFormed(At, 1 .. Len(range)) /\ ~ At.both
  BY <1>1, <1>2 DEF Instructions, WellFormed
<1>4. /\ new.src = At.src /\ new.dst = << >> /\ new.op = "constStore" /\ new.both = At.both /\ new.slot = slots
      /\ new.id = At.id
  BY <1>3 DEF Instr
<1>5. new \in Instructions(Len(range))
  <2>1. << >> \in Seq(Nat \ {0}) /\ "constStore" \in Op /\ SeqSet(<< >>) = {}
    BY EmptySeq DEF Op, SeqSet
  <2>2. new \in Instr
    BY <1>1, <1>3, <2>1 DEF Instr
  <2> HIDE DEF new
  <2> QED
    BY <1>3, <1>4, <2>1, <2>2 DEF Instructions, WellFormed
<1>6. cursor' = Past(code', 1)
  BY DEF SpillConst, Spilling
<1> HIDE DEF new
<1>7. << new >> \in Seq(Instructions(Len(range))) /\ Len(<< new >>) = 1
  BY <1>5
<1>8. PICK b, k : Rewrites(b, k, Len(<< new >>)) /\ Puts(b, k, << new >>)
  <2> DEFINE alone == << new >>
             m == Len(range)
  <2>1. /\ alone \in Seq(Instructions(m)) /\ m \in Nat /\ Len(range) <= m
        /\ code' = Replace(alone) /\ cursor' = Past(code', Len(alone))
    BY <1>1, <1>6, <1>7
  <2> HIDE DEF alone, m
  <2>2. \E b, k : Rewrites(b, k, Len(alone)) /\ Puts(b, k, alone)
    BY <1>1, <2>1, SpillRewrites
  <2> QED
    BY <2>2 DEF alone
<1>9. Rewrites(b, k, 1) /\ code'[b][k] = new
  <2>1. k - 1 + 1 = k /\ 1 \in 1 .. Len(<< new >>) /\ << new >>[1] = new
    BY <1>1, <1>7, <1>8, CodeShape DEF Rewrites, Indices
  <2> QED
    BY <1>7, <1>8, <2>1 DEF Puts
<1>10. InPlace(b, k, new)
  BY <1>1, <1>9, RewritesInPlace
<1>11. /\ slots \in 1 .. slots /\ victim \in Ranges /\ Ranges \subseteq Nat /\ 0 \notin Ranges
       /\ At = code[b][k] /\ b \in Blocks /\ k \in Indices(b)
       /\ \A v \in DOMAIN range : Slotted[v] = IF range[v] = victim THEN - slots ELSE range[v]
  <2>1. /\ slots \in 1 .. slots /\ victim \in Ranges /\ Ranges \subseteq Nat /\ 0 \notin Ranges
        /\ \A v \in DOMAIN range : Slotted[v] = IF range[v] = victim THEN - slots ELSE range[v]
    <3>1. SpillKnown
      BY <1>1, SpillIsKnown
    <3> QED
      BY <3>1 DEF SpillKnown
  <2>2. At = code[b][k] /\ b \in Blocks /\ k \in Indices(b)
    BY <1>9 DEF Rewrites
  <2> QED
    BY <2>1, <2>2
<1>12. PICK N, W : /\ Claimed(N, W) /\ Fits(function, At, Slotted, N, W[b][k - 1], W[b][k])
                   /\ \A n \in Names(function) : victim \notin W[b][k][n]
  BY <1>1, <1>9, SpilledFacts
<1>13. /\ Matched(function, At) /\ At.id # 0 /\ DOMAIN At.dst = 1 .. Len(At.dst)
       /\ \A d \in DOMAIN At.dst : At.dst[d] \in DOMAIN range
  <2>1. Matched(function, At) /\ DOMAIN At.dst = 1 .. Len(At.dst) /\ \A d \in DOMAIN At.dst : At.dst[d] \in DOMAIN range
    BY <1>1, <1>11, CodeFacts
  <2> QED
    BY <1>2, <2>1 DEF Matched
<1>14. PICK o : /\ o = OriginalIn(function, At) /\ o.op = "const" /\ At.src = o.src /\ At.dst = o.dst
                /\ o \in SourceOf(function) /\ o.id = At.id /\ o.both = At.both /\ Len(At.dst) = 1
                /\ At.src = << >>
  <2>1. PICK o : /\ o = OriginalIn(function, At) /\ o.op = "const" /\ At.src = o.src /\ At.dst = o.dst
                 /\ o \in SourceOf(function) /\ o.id = At.id /\ o.both = At.both
    BY <1>1, <1>2, <1>13, MatchedFacts DEF Coded, Shape
  <2> QED
    BY <1>1, <2>1, SourceFacts DEF Coded, Shape
<1>15. OriginalIn(function, new) = o
  BY <1>4, <1>14 DEF OriginalIn
<1>16. SeqSet(Read(new)) = {}
  BY <1>3, <1>4, <1>14 DEF Read, SeqSet
<1>17. Replaces(code[b][k], new)
  <2>1. Matched(function, new)
    BY <1>4, <1>13, <1>14, <1>15 DEF Matched
  <2> QED
    BY <1>2, <1>4, <1>11, <1>13, <1>14, <1>16, <2>1 DEF Replaces, Dummy
<1>18. Fits(function, new, range, N, W[b][k - 1], W[b][k])
  <2>1. /\ CopyLike(function, new) <=> CopyLike(function, At)
        /\ From(function, new) = From(function, At)
        /\ To(function, new) = To(function, At) /\ SetBy(function, new) = SetBy(function, At)
    BY <1>4, <1>13, <1>14, <1>15 DEF CopyLike, From, To, SetBy
  <2>2. \A d \in DOMAIN At.dst : d = 1 /\ N[At.dst[d]] = {To(function, At)}
    <3>1. \A d \in DOMAIN o.dst : o.dst[d] \in DOMAIN function.name
      BY <1>1, <1>14, SourceFacts DEF Coded, Shape
    <3>2. \A d \in DOMAIN o.dst : N[o.dst[d]] = {function.name[o.dst[d]]}
      BY <1>12, <3>1 DEF Claimed, Named
    <3> QED
      BY <1>13, <1>14, <3>2 DEF To
  <2>4. Needs(function, new, range, N, W[b][k - 1])
    BY <1>4, <1>16 DEF Needs
  <2>5. ASSUME NEW n \in Names(function), NEW x \in W[b][k][n]
        PROVE Justified(function, new, range, N, W[b][k - 1], n, x)
    <3>1. x # victim /\ Justified(function, At, Slotted, N, W[b][k - 1], n, x)
      BY <1>12 DEF Fits
    <3>2. ~ Stores(At) /\ Stores(new) /\ DOMAIN new.dst = {}
      BY <1>2, <1>4 DEF Stores
    <3>3. 1 \in DOMAIN At.dst /\ Slotted[At.dst[1]] = - slots
      BY <1>2, <1>11, <1>13, <1>14
    <3>4. CASE Given(function, At, Slotted, N, n, x)
      <4>1. x = - slots /\ n = To(function, new)
        BY <1>2, <2>1, <2>2, <3>3, <3>4 DEF Given
      <4> QED
        BY <1>4, <4>1 DEF Justified, Given
    <3>5. CASE ~ Given(function, At, Slotted, N, n, x)
      <4>1. ~ WritesTo(At, Slotted, x) /\ Keeps(function, At, W[b][k - 1], n, x)
        BY <3>1, <3>5 DEF Justified
      <4>2. ~ WritesTo(new, range, x)
        BY <1>4, <3>2, <3>3, <4>1 DEF WritesTo
      <4>3. Keeps(function, new, W[b][k - 1], n, x)
        BY <2>1, <4>1 DEF Keeps
      <4> QED
        BY <4>2, <4>3 DEF Justified
    <3> QED
      BY <3>4, <3>5
  <2> QED
    BY <2>4, <2>5 DEF Fits
<1>19. Coded'
  BY <1>1, <1>10, <1>17, InPlaceCodes
<1>20. Claimed(N, W)'
  BY <1>1, <1>10, <1>12, <1>17, <1>18, InPlaceClaims
<1> QED
  BY <1>1, <1>19, <1>20 DEF Faithful
-----------------------------------------------------------------------------
(***************************************************************************)
(* The operands of an instruction are moved to the stack.  The instruction *)
(* k of block b is rewritten: the operands R that it reads share the new   *)
(* live range nw, loaded by the new structure dm (l = 1) before it, and    *)
(* its destination u is stored after it (t = 1) when it is spilled.        *)
(***************************************************************************)
Stacked(b, k, l, t, R, nw, dm, u) ==
  /\ Rewrites(b, k, l + 1 + t)
  /\ l \in {0, 1} /\ t \in {0, 1} /\ (l = 0 => R = {})
  /\ R = { v \in SeqSet(Read(At)) : range[v] = victim }
  /\ nw \in Nat /\ nw # 0 /\ nw \notin Ranges /\ dm \notin DOMAIN range
  /\ l = 1 => code'[b][k] = Load(dm)
  /\ code'[b][k + l] = At
  /\ t = 1 => code'[b][k + l + 1] = Store(u) /\ Len(At.dst) = 1 /\ u = At.dst[1] /\ range[u] = victim
  /\ t = 0 => \A d \in DOMAIN At.dst : range[At.dst[d]] # victim
  /\ \A v \in DOMAIN range : range'[v] = IF v \in R THEN nw ELSE range[v]
  /\ l = 1 => range'[dm] = nw
  /\ DOMAIN range' = DOMAIN range \cup (IF l = 1 THEN {dm} ELSE {})
  /\ Ranges' = Ranges \cup (IF l = 1 THEN {nw} ELSE {})
  /\ \A r \in Ranges : reg'[r] = reg[r]
  /\ l = 1 => reg'[nw] = NoReg

(* Instruction p of the block was instruction q. *)
Was(k, l, t, p, q) ==
  \/ p < k /\ q = p
  \/ p = k + l /\ q = k
  \/ p > k + l + t /\ q = p - l - t

LEMMA MovedShape ==
  ASSUME Shape, Coded, NEW b, NEW k, NEW l, NEW t, NEW R, NEW nw, NEW dm, NEW u, Stacked(b, k, l, t, R, nw, dm, u)
  PROVE  /\ b \in Blocks /\ Blocks \subseteq Nat /\ Blocks' = Blocks /\ k \in Indices(b) /\ k \in Nat /\ k >= 1
         /\ Len(code[b]) \in Nat /\ k <= Len(code[b]) /\ At = code[b][k]
         /\ l \in {0, 1} /\ t \in {0, 1} /\ pc = "spill" /\ pc' = "spill"
         /\ UNCHANGED << function, victim, slots >>
         /\ Len(code'[b]) = Len(code[b]) + l + t
         /\ \A a \in Blocks : /\ Len(code[a]) \in Nat /\ Indices(a) = 1 .. Len(code[a])
                              /\ Indices(a)' = 1 .. Len(code'[a])
                              /\ a # b => code'[a] = code[a]
<1>1. /\ Rewrites(b, k, l + 1 + t) /\ l \in {0, 1} /\ t \in {0, 1}
  BY DEF Stacked
<1>2. /\ b \in Blocks /\ k \in Indices(b) /\ At = code[b][k] /\ Blocks' = Blocks /\ pc = "spill"
      /\ UNCHANGED << function, pc, victim, slots >>
      /\ \A a \in Blocks : a # b => code'[a] = code[a]
      /\ Len(code'[b]) = Len(code[b]) + (l + 1 + t) - 1
  BY <1>1 DEF Rewrites
<1>3. Blocks \subseteq Nat /\ \A a \in Blocks : Len(code[a]) \in Nat
  BY CodeShape, LenProperties DEF Shape, CodeTyped
<1>4. \A a \in Blocks : Indices(a) = 1 .. Len(code[a]) /\ Indices(a)' = 1 .. Len(code'[a])
  BY DEF Indices
<1>5. k \in Nat /\ k >= 1 /\ k <= Len(code[b])
  BY <1>2, <1>3, <1>4
<1>6. Len(code'[b]) = Len(code[b]) + l + t
  <2>1. Len(code[b]) \in Nat /\ l \in Nat /\ t \in Nat
    BY <1>1, <1>2, <1>3
  <2> DEFINE x == Len(code[b])
             y == Len(code'[b])
  <2>2. x \in Nat /\ l \in Nat /\ t \in Nat /\ y = x + (l + 1 + t) - 1
    BY <1>2, <2>1
  <2> HIDE DEF x, y
  <2>3. y = x + l + t
    BY <2>2
  <2> QED
    BY <2>3 DEF x, y
<1>7. UNCHANGED << function, victim, slots >> /\ pc' = "spill"
  BY <1>2
<1> QED
  BY <1>1, <1>2, <1>3, <1>4, <1>5, <1>6, <1>7

LEMMA MovedPositions ==
  ASSUME Shape, Coded, NEW b, NEW k, NEW l, NEW t, NEW R, NEW nw, NEW dm, NEW u, Stacked(b, k, l, t, R, nw, dm, u),
         NEW p \in 1 .. Len(code'[b])
  PROVE  \/ l = 1 /\ p = k /\ code'[b][p] = Load(dm)
         \/ t = 1 /\ p = k + l + 1 /\ code'[b][p] = Store(u)
         \/ \E q \in Indices(b) : Was(k, l, t, p, q) /\ code'[b][p] = code[b][q]
<1>1. /\ b \in Blocks /\ k \in Indices(b) /\ k \in Nat /\ k >= 1
      /\ Len(code[b]) \in Nat /\ k <= Len(code[b]) /\ At = code[b][k]
      /\ l \in {0, 1} /\ t \in {0, 1} /\ Len(code'[b]) = Len(code[b]) + l + t
      /\ Indices(b) = 1 .. Len(code[b])
  BY MovedShape
<1>2. CASE p < k
  <2>1. p \in Indices(b) /\ p \in 1 .. k - 1
    BY <1>1, <1>2
  <2>2. Rewrites(b, k, l + 1 + t)
    BY DEF Stacked
  <2>3. code'[b][p] = code[b][p]
    BY <2>1, <2>2 DEF Rewrites
  <2> QED
    BY <1>2, <2>1, <2>3 DEF Was
<1>3. CASE l = 1 /\ p = k
  BY <1>3 DEF Stacked
<1>4. CASE p = k + l
  <2>1. code'[b][p] = code[b][k]
    BY <1>1, <1>4 DEF Stacked
  <2> QED
    BY <1>1, <1>4, <2>1 DEF Was
<1>5. CASE t = 1 /\ p = k + l + 1
  BY <1>5 DEF Stacked
<1>6. CASE p > k + l + t
  <2> DEFINE L == l + 1 + t
  <2>1. p \in k + L .. Len(code[b]) + L - 1 /\ p - L + 1 = p - l - t /\ p - l - t \in Indices(b)
    <3> DEFINE x == Len(code[b])
               y == Len(code'[b])
    <3>1. x \in Nat /\ y = x + l + t /\ l \in {0, 1} /\ t \in {0, 1} /\ k \in Nat /\ k >= 1 /\ p \in 1 .. y
      BY <1>1
    <3> HIDE DEF x, y
    <3>2. p \in Nat /\ y \in Nat /\ p <= x + l + t
      BY <3>1
    <3>3. p \in k + L .. x + L - 1 /\ p - L + 1 = p - l - t /\ p - l - t \in 1 .. x
      BY <1>6, <3>1, <3>2
    <3> QED
      BY <1>1, <3>3 DEF x
  <2>2. Rewrites(b, k, L)
    BY DEF Stacked
  <2> HIDE DEF L
  <2>3. code'[b][p] = code[b][p - L + 1]
    BY <2>1, <2>2 DEF Rewrites
  <2> QED
    BY <1>6, <2>1, <2>3 DEF Was
<1>7. p < k \/ (l = 1 /\ p = k) \/ p = k + l \/ (t = 1 /\ p = k + l + 1) \/ p > k + l + t
  <2>1. p \in Nat /\ k \in Nat /\ l \in {0, 1} /\ t \in {0, 1}
    BY <1>1
  <2> QED
    BY ONLY <2>1
<1> QED
  BY <1>2, <1>3, <1>4, <1>5, <1>6, <1>7

(* What is handled afterwards. *)
LEMMA MovedHandled ==
  ASSUME Shape, Coded, NEW b, NEW k, NEW l, NEW t, NEW R, NEW nw, NEW dm, NEW u, Stacked(b, k, l, t, R, nw, dm, u)
  PROVE  /\ \A a \in Blocks : a # b => \A p \in Indices(a) : Handled(a, p)' <=> Handled(a, p)
         /\ \A p \in 1 .. Len(code'[b]) : Handled(b, p)' <=> p <= k + l + t
         /\ \A p \in Indices(b) : Handled(b, p) <=> p < k
         /\ \A a \in Blocks : a # b => \/ a < b /\ \A p \in Indices(a) : Handled(a, p)
                                       \/ b < a /\ \A p \in Indices(a) : ~ Handled(a, p)
<1>1. /\ b \in Blocks /\ Blocks \subseteq Nat /\ k \in Nat /\ l \in {0, 1} /\ t \in {0, 1}
      /\ \A a \in Blocks : Indices(a) = 1 .. Len(code[a]) /\ (a # b => code'[a] = code[a])
  BY MovedShape
<1> DEFINE L == l + 1 + t
<1>2. Rewrites(b, k, L)
  BY DEF Stacked
<1>3. L \in Nat /\ \A p \in Nat : p < k + L <=> p <= k + l + t
  BY <1>1
<1> HIDE DEF L
<1>4. /\ \A a \in Blocks : \A p \in Indices(a) : Handled(a, p) <=> Upto(a, p, b, k)
      /\ \A a \in Blocks : \A p \in 1 .. Len(code'[a]) : Handled(a, p)' <=> Upto(a, p, b, k + L)
  BY <1>2 DEF Rewrites
<1>5. \A p : (Upto(b, p, b, k) <=> p < k) /\ (Upto(b, p, b, k + L) <=> p < k + L)
  BY <1>1 DEF Upto
<1>6. \A a \in Blocks : a # b => \A p : Upto(a, p, b, k) <=> Upto(a, p, b, k + L)
  BY DEF Upto
<1>7. \A p \in 1 .. Len(code'[b]) : Handled(b, p)' <=> p <= k + l + t
  <2> SUFFICES ASSUME NEW p \in 1 .. Len(code'[b]) PROVE Handled(b, p)' <=> p <= k + l + t
    OBVIOUS
  <2>1. Len(code'[b]) \in Nat
    <3>1. Len(code[b]) \in Nat /\ Len(code'[b]) = Len(code[b]) + l + t
      BY <1>1, MovedShape
    <3> QED
      BY <1>1, <3>1
  <2>2. p \in Nat
    BY <2>1
  <2>3. Handled(b, p)' <=> Upto(b, p, b, k + L)
    BY <1>1, <1>4
  <2>4. Upto(b, p, b, k + L) <=> p < k + L
    BY <1>5
  <2>5. p < k + L <=> p <= k + l + t
    BY <1>3, <2>2
  <2> QED
    BY <2>3, <2>4, <2>5
<1>8. \A p \in Indices(b) : Handled(b, p) <=> p < k
  BY <1>1, <1>4, <1>5
<1>9. \A a \in Blocks : a # b => \A p \in Indices(a) : Handled(a, p)' <=> Handled(a, p)
  BY <1>1, <1>4, <1>6
<1>10. ASSUME NEW a \in Blocks, a # b
       PROVE \/ a < b /\ \A p \in Indices(a) : Handled(a, p)
             \/ b < a /\ \A p \in Indices(a) : ~ Handled(a, p)
  <2>1. a \in Nat /\ b \in Nat
    BY <1>1, <1>10
  <2>2. CASE a < b
    BY <1>4, <1>10, <2>2 DEF Upto
  <2>3. CASE b < a
    <3>1. ~ (a < b) /\ a # b
      BY <2>1, <2>3
    <3> QED
      BY <1>4, <1>10, <2>3, <3>1 DEF Upto
  <2> QED
    BY <1>10, <2>1, <2>2, <2>3
<1> QED
  BY <1>7, <1>8, <1>9, <1>10

(* What SpillOperands finds of the instruction at the cursor. *)
SpillRead == { v \in SeqSet(Read(At)) : range[v] = victim }
SpillRange == [v \in DOMAIN range |-> IF v \in SpillRead THEN Len(reg) + 1 ELSE range[v]]
SpillStored == { k \in DOMAIN At.dst : SpillRange[At.dst[k]] \in {victim, Len(reg) + 1} }
SpillLoads == IF SpillRead # {} THEN << Load(Len(range) + 1) >> ELSE << >>
SpillStores == IF SpillStored = {} THEN << >> ELSE << Store(At.dst[1]) >>

LEMMA SpillOperandsAt ==
  ASSUME Known, Coded, SpillOperands
  PROVE  /\ IInv /\ Shape /\ pc = "spill" /\ ~ AtEnd /\ SpillKnown
         /\ At \in Instructions(Len(range)) /\ At \in Instr /\ Len(range) \in Nat /\ Len(reg) \in Nat
         /\ Ranges = 1 .. Len(reg) /\ DOMAIN range = 1 .. Len(range)
         /\ \A v \in DOMAIN range : range[v] \in Ranges
         /\ DOMAIN At.dst = 1 .. Len(At.dst) /\ Len(At.dst) \in Nat /\ Len(At.dst) <= 2
         /\ \A k \in DOMAIN At.dst : At.dst[k] \in DOMAIN range
         /\ SeqSet(Read(At)) \subseteq DOMAIN range
         /\ Len(At.dst) = 2 => \A k \in DOMAIN At.dst : range[At.dst[k]] # victim
<1>1. IInv /\ Shape /\ pc = "spill" /\ ~ AtEnd /\ SpillKnown
  BY SpillIsKnown DEF Known, IInv, SpillOperands
<1>2. /\ At \in Instructions(Len(range)) /\ Instruction(code, cursor)
      /\ cursor[1] \in Blocks
      /\ Len(range) \in Nat /\ Len(reg) \in Nat /\ Ranges = 1 .. Len(reg) /\ DOMAIN range = 1 .. Len(range)
  BY <1>1, SpillerIsAtInstruction, CodeShape DEF Shape, CodeTyped
<1>3. \A v \in DOMAIN range : range[v] \in Ranges
  BY <1>1, ElementOfSeq, CodeShape DEF Shape, RangesTyped
<1>4. PICK b, k : b \in Blocks /\ k \in Indices(b) /\ At = code[b][k]
  BY <1>1, <1>2, CodeShape DEF Instruction, At, Indices
<1>5. /\ At \in Instr /\ DOMAIN At.dst = 1 .. Len(At.dst) /\ Len(At.dst) \in Nat /\ Len(At.dst) <= 2
      /\ \A j \in DOMAIN At.dst : At.dst[j] \in DOMAIN range
      /\ \A v \in SeqSet(Read(At)) : v \in DOMAIN range
  BY <1>1, <1>4, CodeFacts
<1>6. Len(At.dst) = 2 => \A j \in DOMAIN At.dst : range[At.dst[j]] # victim
  <2> SUFFICES ASSUME Len(At.dst) = 2 PROVE \A j \in DOMAIN At.dst : range[At.dst[j]] # victim
    OBVIOUS
  <2>1. ~ Early
    BY <1>1 DEF Early
  <2>2. RegOf(At.dst[1]) # NoReg /\ RegOf(At.dst[2]) # NoReg
    BY <1>4, <2>1 DEF Coded, TwoColored
  <2>3. \A j \in DOMAIN At.dst : j = 1 \/ j = 2
    BY <1>5
  <2>4. reg[victim] = NoReg
    BY <1>1 DEF SpillKnown
  <2> QED
    BY <2>2, <2>3, <2>4 DEF RegOf
<1> QED
  BY <1>1, <1>2, <1>3, <1>5, <1>6

LEMMA SpillStoredIs ==
  ASSUME Known, Coded, SpillOperands
  PROVE  /\ SpillStored = {} => \A d \in DOMAIN At.dst : range[At.dst[d]] # victim
         /\ SpillStored # {} => SpillStored = {1} /\ Len(At.dst) = 1 /\ range[At.dst[1]] = victim
<1>1. /\ SpillKnown /\ Len(reg) \in Nat /\ Ranges = 1 .. Len(reg)
      /\ \A v \in DOMAIN range : range[v] \in Ranges
      /\ DOMAIN At.dst = 1 .. Len(At.dst) /\ Len(At.dst) \in Nat /\ Len(At.dst) <= 2
      /\ \A k \in DOMAIN At.dst : At.dst[k] \in DOMAIN range
      /\ Len(At.dst) = 2 => \A k \in DOMAIN At.dst : range[At.dst[k]] # victim
  BY SpillOperandsAt
<1>2. \A d \in DOMAIN At.dst : d \in SpillStored <=> range[At.dst[d]] = victim
  <2> SUFFICES ASSUME NEW d \in DOMAIN At.dst PROVE d \in SpillStored <=> range[At.dst[d]] = victim
    OBVIOUS
  <2>1. At.dst[d] \in DOMAIN range /\ range[At.dst[d]] \in Ranges /\ victim \in Ranges /\ Len(reg) + 1 \notin Ranges
    BY <1>1 DEF SpillKnown
  <2>2. SpillRange[At.dst[d]] = IF At.dst[d] \in SpillRead THEN Len(reg) + 1 ELSE range[At.dst[d]]
    BY <2>1 DEF SpillRange
  <2>3. At.dst[d] \in SpillRead => range[At.dst[d]] = victim
    BY DEF SpillRead
  <2>4. d \in SpillStored <=> SpillRange[At.dst[d]] = victim \/ SpillRange[At.dst[d]] = Len(reg) + 1
    BY DEF SpillStored
  <2> QED
    BY <2>1, <2>2, <2>3, <2>4
<1>3. SpillStored \subseteq DOMAIN At.dst
  BY DEF SpillStored
<1>4. ASSUME SpillStored # {} PROVE SpillStored = {1} /\ Len(At.dst) = 1 /\ range[At.dst[1]] = victim
  <2>1. PICK d : d \in SpillStored /\ d \in DOMAIN At.dst
    BY <1>3, <1>4
  <2>2. range[At.dst[d]] = victim
    BY <1>2, <2>1
  <2>3. Len(At.dst) = 1
    <3>1. Len(At.dst) # 2
      BY <1>1, <2>1, <2>2
    <3> DEFINE m == Len(At.dst)
    <3>2. m \in Nat /\ m <= 2 /\ m # 2 /\ d \in 1 .. m
      BY <1>1, <2>1, <3>1
    <3> HIDE DEF m
    <3>3. m = 1
      BY <3>2
    <3> QED
      BY <3>3 DEF m
  <2>4. DOMAIN At.dst = {1}
    BY <1>1, <2>3
  <2> QED
    BY <1>3, <2>1, <2>2, <2>3, <2>4
<1> QED
  BY <1>2, <1>4

LEMMA SpillOperandsDoes ==
  ASSUME Known, Coded, SpillOperands
  PROVE  /\ code' = Replace(SpillLoads \o << At >> \o SpillStores)
         /\ cursor' = Past(code', Len(SpillLoads) + (IF SpillStored = {} THEN 1 ELSE 2))
         /\ SpillRead # {} => range' = Append(SpillRange, Len(reg) + 1) /\ reg' = Append(reg, NoReg)
         /\ SpillRead = {} => UNCHANGED << range, reg >>
         /\ UNCHANGED << function, pc, victim, slots >>
<1> DEFINE after == [k \in 1 .. Cardinality(SpillStored) |->
                       Store(At.dst[IF Cardinality(SpillStored) = 2 THEN 3 - k ELSE Min(SpillStored)])]
<1>1. /\ code' = Replace(SpillLoads \o << At >> \o after)
      /\ cursor' = Past(code', Len(SpillLoads) + (IF SpillStored = {} THEN 1 ELSE 2))
      /\ SpillRead # {} => range' = Append(SpillRange, Len(reg) + 1) /\ reg' = Append(reg, NoReg)
      /\ SpillRead = {} => UNCHANGED << range, reg >>
      /\ UNCHANGED << function, pc, victim, slots >>
  BY DEF SpillOperands, AddLiveRange, SpillLoads, SpillStored, SpillRange, SpillRead
<1>2. after = SpillStores
  <2>1. CASE SpillStored = {}
    <3>1. Cardinality(SpillStored) = 0 /\ SpillStores = << >>
      BY <2>1, FS_EmptySet DEF SpillStores
    <3>2. after = [k \in 1 .. 0 |-> Store(At.dst[IF Cardinality(SpillStored) = 2 THEN 3 - k ELSE Min(SpillStored)])]
      BY <3>1
    <3> QED
      BY <3>1, <3>2
  <2>2. CASE SpillStored # {}
    <3>1. SpillStored = {1} /\ SpillStores = << Store(At.dst[1]) >>
      BY <2>2, SpillStoredIs DEF SpillStores
    <3>2. Cardinality(SpillStored) = 1
      BY <3>1, FS_Singleton
    <3>3. Min(SpillStored) = 1
      <4>1. SpillStored \subseteq Nat /\ SpillStored # {}
        BY <3>1
      <4> QED
        BY <3>1, <4>1, MinIsSmallest
    <3> DEFINE s == Store(At.dst[1])
    <3>4. after = [k \in 1 .. 1 |-> s]
      BY <3>2, <3>3
    <3> HIDE DEF after, s
    <3>5. [k \in 1 .. 1 |-> s] = << s >>
      OBVIOUS
    <3> QED
      BY <3>1, <3>4, <3>5 DEF s
  <2> QED
    BY <2>1, <2>2
<1> HIDE DEF after
<1> QED
  BY <1>1, <1>2
Slices(S, x, y, z, first, last) ==
  /\ y \in S
  /\ (first = << >> /\ x = y) \/ (first = << x >> /\ x \in S)
  /\ (last = << >> /\ z = y) \/ (last = << z >> /\ z \in S)
Sandwiched(w, S, x, y, z, first, last) ==
  /\ w \in Seq(S) /\ Len(w) = Len(first) + 1 + Len(last)
  /\ w[1] = x /\ w[Len(first) + 1] = y /\ (last = << z >> => w[Len(first) + 2] = z)
  /\ (first = << >> => Len(first) = 0) /\ (last = << >> => Len(last) = 0)
  /\ (first = << x >> => Len(first) = 1) /\ (last = << z >> => Len(last) = 1)

LEMMA Sandwich ==
  ASSUME NEW S, NEW x, NEW y, NEW z, NEW first, NEW last, Slices(S, x, y, z, first, last)
  PROVE  Sandwiched(first \o << y >> \o last, S, x, y, z, first, last)
<1>0. /\ y \in S
      /\ (first = << >> /\ x = y) \/ (first = << x >> /\ x \in S)
      /\ (last = << >> /\ z = y) \/ (last = << z >> /\ z \in S)
  BY DEF Slices
<1>1. first \in Seq(S) /\ last \in Seq(S)
  <2>1. << >> \in Seq(S)
    BY EmptySeq
  <2>2. \A e \in S : << e >> \in Seq(S)
    OBVIOUS
  <2> QED
    BY <1>0, <2>1, <2>2
<1>2. /\ Len(first) \in Nat /\ Len(last) \in Nat
      /\ (first = << >> => Len(first) = 0) /\ (last = << >> => Len(last) = 0)
      /\ (first = << x >> => Len(first) = 1) /\ (last = << z >> => Len(last) = 1)
  BY <1>1, LenProperties, EmptySeq
<1> DEFINE one == << y >>
           both == first \o one
<1>3. one \in Seq(S) /\ Len(one) = 1 /\ one[1] = y
  BY <1>0
<1> HIDE DEF one
<1>4. /\ both \in Seq(S) /\ Len(both) = Len(first) + 1
      /\ \A j \in 1 .. Len(first) + 1 : both[j] = IF j <= Len(first) THEN first[j] ELSE one[j - Len(first)]
  <2>1. /\ both \in Seq(S) /\ Len(both) = Len(first) + Len(one)
        /\ \A j \in 1 .. Len(first) + Len(one) :
             both[j] = IF j <= Len(first) THEN first[j] ELSE one[j - Len(first)]
    BY <1>1, <1>3, ConcatProperties
  <2> HIDE DEF both
  <2> QED
    BY <1>3, <2>1
<1> HIDE DEF both
<1>5. /\ both \o last \in Seq(S) /\ Len(both \o last) = Len(first) + 1 + Len(last)
      /\ \A j \in 1 .. Len(first) + 1 + Len(last) :
           (both \o last)[j] = IF j <= Len(first) + 1 THEN both[j] ELSE last[j - (Len(first) + 1)]
  <2> DEFINE m == Len(first) + 1
  <2>1. both \in Seq(S) /\ Len(both) = m
    BY <1>4
  <2> HIDE DEF m
  <2>2. /\ both \o last \in Seq(S) /\ Len(both \o last) = Len(both) + Len(last)
        /\ \A j \in 1 .. Len(both) + Len(last) :
             (both \o last)[j] = IF j <= Len(both) THEN both[j] ELSE last[j - Len(both)]
    BY <1>1, <2>1, ConcatProperties
  <2>3. /\ both \o last \in Seq(S) /\ Len(both \o last) = m + Len(last)
        /\ \A j \in 1 .. m + Len(last) :
             (both \o last)[j] = IF j <= m THEN both[j] ELSE last[j - m]
    BY <2>1, <2>2
  <2> QED
    BY <2>3 DEF m
<1>6. both[Len(first) + 1] = y
  <2>1. Len(first) + 1 - Len(first) = 1 /\ Len(first) + 1 \in 1 .. Len(first) + 1 /\ ~ (Len(first) + 1 <= Len(first))
    BY <1>2
  <2> QED
    BY <1>3, <1>4, <2>1
<1>7. both[1] = x
  <2>1. CASE first = << >> /\ x = y
    BY <1>2, <1>6, <2>1
  <2>2. CASE first = << x >>
    <3>1. 1 \in 1 .. Len(first) + 1 /\ 1 <= Len(first) /\ first[1] = x
      BY <1>2, <2>2
    <3> QED
      BY <1>4, <3>1
  <2> QED
    BY <1>0, <2>1, <2>2
<1>8. (both \o last)[1] = x /\ (both \o last)[Len(first) + 1] = y
  BY <1>2, <1>5, <1>6, <1>7
<1>9. ASSUME last = << z >> PROVE (both \o last)[Len(first) + 2] = z
  <2>1. /\ Len(first) + 2 \in 1 .. Len(first) + 1 + Len(last) /\ ~ (Len(first) + 2 <= Len(first) + 1)
        /\ Len(first) + 2 - (Len(first) + 1) = 1 /\ last[1] = z
    BY <1>2, <1>9
  <2> QED
    BY <1>5, <2>1
<1>10. first \o << y >> \o last = both \o last
  BY DEF both, one
<1> QED
  BY <1>1, <1>2, <1>5, <1>8, <1>9, <1>10 DEF Sandwiched

LEMMA SpillRangeIs ==
  ASSUME Known, Coded, SpillOperands
  PROVE  /\ \A v \in DOMAIN range : range'[v] = IF v \in SpillRead THEN Len(reg) + 1 ELSE range[v]
         /\ SpillRead # {} => /\ range'[Len(range) + 1] = Len(reg) + 1
                              /\ DOMAIN range' = DOMAIN range \cup {Len(range) + 1}
                              /\ Ranges' = Ranges \cup {Len(reg) + 1}
                              /\ reg'[Len(reg) + 1] = NoReg
         /\ SpillRead = {} => DOMAIN range' = DOMAIN range /\ Ranges' = Ranges
         /\ \A r \in Ranges : reg'[r] = reg[r]
<1>1. /\ Len(range) \in Nat /\ Len(reg) \in Nat /\ Ranges = 1 .. Len(reg) /\ DOMAIN range = 1 .. Len(range)
      /\ range \in Seq(Nat) /\ reg \in Seq(Nat) /\ \A v \in DOMAIN range : range[v] \in Nat
  <2>1. /\ Len(range) \in Nat /\ Len(reg) \in Nat /\ Ranges = 1 .. Len(reg) /\ DOMAIN range = 1 .. Len(range)
        /\ Shape /\ \A v \in DOMAIN range : range[v] \in Ranges
    BY SpillOperandsAt
  <2>2. range \in Seq(Ranges) /\ reg \in Seq(Nat) /\ Ranges \subseteq Nat
    BY <2>1 DEF Shape, RangesTyped, NoReg
  <2>3. range \in Seq(Nat)
    BY <2>2, SeqMonotonic
  <2> QED
    BY <2>1, <2>2, <2>3
<1>2. CASE SpillRead = {}
  <2>1. range' = range /\ reg' = reg
    BY <1>2, SpillOperandsDoes
  <2> QED
    BY <1>2, <2>1 DEF Ranges
<1>3. CASE SpillRead # {}
  <2> DEFINE nw == Len(reg) + 1
  <2>1. range' = Append(SpillRange, nw) /\ reg' = Append(reg, NoReg)
    BY <1>3, SpillOperandsDoes
  <2>2. nw \in Nat /\ NoReg \in Nat
    BY <1>1 DEF NoReg
  <2>3. SpillRange \in [DOMAIN range -> Nat] /\ \A v \in DOMAIN range : SpillRange[v] = IF v \in SpillRead THEN nw ELSE range[v]
    BY <1>1, <2>2 DEF SpillRange
  <2> HIDE DEF nw
  <2>4. SpillRange \in Seq(Nat) /\ Len(SpillRange) = Len(range)
    <3>1. range \in Seq(Nat) /\ SpillRange \in [DOMAIN range -> Nat]
      BY <1>1, <2>3
    <3> QED
      BY <3>1, SameLength
  <2>5. /\ Append(SpillRange, nw) \in Seq(Nat) /\ Len(Append(SpillRange, nw)) = Len(range) + 1
        /\ \A v \in 1 .. Len(range) : Append(SpillRange, nw)[v] = SpillRange[v]
        /\ Append(SpillRange, nw)[Len(range) + 1] = nw
    BY <2>2, <2>4, AppendProperties
  <2>6. /\ Append(reg, NoReg) \in Seq(Nat) /\ Len(Append(reg, NoReg)) = Len(reg) + 1
        /\ \A r \in 1 .. Len(reg) : Append(reg, NoReg)[r] = reg[r]
        /\ Append(reg, NoReg)[Len(reg) + 1] = NoReg
    BY <1>1, <2>2, AppendProperties
  <2>7. DOMAIN range' = 1 .. Len(range) + 1
    BY <2>1, <2>5, LenProperties
  <2>8. Ranges' = 1 .. Len(reg) + 1
    BY <2>1, <2>6, LenProperties DEF Ranges
  <2>9. DOMAIN range' = DOMAIN range \cup {Len(range) + 1} /\ Ranges' = Ranges \cup {Len(reg) + 1}
    BY <1>1, <2>7, <2>8
  <2> QED
    BY <1>1, <1>3, <2>1, <2>3, <2>5, <2>6, <2>9 DEF nw
<1> QED
  BY <1>2, <1>3

LEMMA SpillOperandsMoves ==
  ASSUME Known, Coded, SpillOperands
  PROVE  \E b, k, l, t, R, nw, dm, u : Stacked(b, k, l, t, R, nw, dm, u)
<1> DEFINE whole == SpillLoads \o << At >> \o SpillStores
           nw == Len(reg) + 1
           dm == Len(range) + 1
           u == At.dst[1]
           n == Len(range) + 1
           l == IF SpillRead # {} THEN 1 ELSE 0
           t == IF SpillStored # {} THEN 1 ELSE 0
<1>1. /\ IInv /\ Shape /\ pc = "spill" /\ ~ AtEnd /\ SpillKnown /\ slots \in Nat
      /\ At \in Instructions(Len(range)) /\ Len(range) \in Nat /\ Len(reg) \in Nat
      /\ Ranges = 1 .. Len(reg) /\ DOMAIN range = 1 .. Len(range)
      /\ \A k \in DOMAIN At.dst : At.dst[k] \in DOMAIN range
      /\ DOMAIN At.dst = 1 .. Len(At.dst)
  BY SpillOperandsAt DEF SpillKnown
<1>2. /\ code' = Replace(whole) /\ cursor' = Past(code', Len(SpillLoads) + (IF SpillStored = {} THEN 1 ELSE 2))
      /\ UNCHANGED << function, pc, victim, slots >>
  BY SpillOperandsDoes
<1>3. /\ SpillStored = {} => \A d \in DOMAIN At.dst : range[At.dst[d]] # victim
      /\ SpillStored # {} => Len(At.dst) = 1 /\ range[u] = victim
  BY SpillStoredIs
<1>4. /\ n \in Nat /\ Len(range) <= n /\ At \in Instructions(n) /\ Load(dm) \in Instructions(n)
      /\ SpillStored # {} => Store(u) \in Instructions(n)
  <2>1. n \in Nat /\ Len(range) <= n /\ dm \in 1 .. n
    BY <1>1
  <2>2. SpillStored # {} => u \in 1 .. n
    BY <1>1, <1>3
  <2> HIDE DEF n, u, dm
  <2> QED
    BY <1>1, <2>1, <2>2, AccessesTyped, InstructionsGrow
<1>5. /\ (SpillLoads = << >> /\ SpillRead = {}) \/ (SpillLoads = << Load(dm) >> /\ SpillRead # {})
      /\ (SpillStores = << >> /\ SpillStored = {}) \/ (SpillStores = << Store(u) >> /\ SpillStored # {})
  BY DEF SpillLoads, SpillStores
<1> HIDE DEF n
<1>6. /\ whole \in Seq(Instructions(n)) /\ Len(whole) = l + 1 + t
      /\ l = 1 => whole[1] = Load(dm)
      /\ whole[l + 1] = At
      /\ t = 1 => whole[l + 2] = Store(u)
      /\ Len(SpillLoads) + (IF SpillStored = {} THEN 1 ELSE 2) = l + 1 + t
  <2> DEFINE S == Instructions(n)
             y == At
             x == IF SpillRead # {} THEN Load(dm) ELSE At
             z == IF SpillStored # {} THEN Store(u) ELSE At
             first == SpillLoads
             last == SpillStores
  <2>1. /\ y \in S
        /\ (first = << >> /\ x = y) \/ (first = << x >> /\ x \in S)
        /\ (last = << >> /\ z = y) \/ (last = << z >> /\ z \in S)
    BY <1>4, <1>5
  <2>2. /\ whole = first \o << y >> \o last
        /\ l = 1 => first = << x >> /\ x = Load(dm)
        /\ l = 0 => first = << >>
        /\ t = 1 => last = << z >> /\ z = Store(u)
        /\ t = 0 => last = << >>
        /\ l \in {0, 1} /\ t \in {0, 1}
        /\ SpillStored = {} <=> t = 0
    BY <1>5
  <2> HIDE DEF S, x, y, z, first, last, whole, l, t
  <2>3. /\ whole \in Seq(S)
        /\ Len(whole) = Len(first) + 1 + Len(last)
        /\ whole[1] = x /\ whole[Len(first) + 1] = y /\ (last = << z >> => whole[Len(first) + 2] = z)
        /\ (first = << >> => Len(first) = 0) /\ (last = << >> => Len(last) = 0)
        /\ (first = << x >> => Len(first) = 1) /\ (last = << z >> => Len(last) = 1)
    <3> DEFINE w == first \o << y >> \o last
    <3>0. Slices(S, x, y, z, first, last)
      BY <2>1 DEF Slices
    <3>1. Sandwiched(w, S, x, y, z, first, last)
      BY <3>0, Sandwich
    <3>2. whole = w
      BY <2>2
    <3> HIDE DEF w
    <3> QED
      BY <3>1, <3>2 DEF Sandwiched
  <2>4. Len(first) = l /\ Len(last) = t
    BY <2>2, <2>3
  <2>5. /\ whole \in Seq(S) /\ Len(whole) = l + 1 + t
        /\ l = 1 => whole[1] = Load(dm)
        /\ whole[l + 1] = y
        /\ t = 1 => whole[l + 2] = Store(u)
    BY <2>2, <2>3, <2>4
  <2>6. Len(first) + (IF SpillStored = {} THEN 1 ELSE 2) = l + 1 + t
    BY <2>2, <2>4
  <2> QED
    BY <2>5, <2>6 DEF S, y, first
<1>7. l \in {0, 1} /\ t \in {0, 1} /\ (l = 1 <=> SpillRead # {}) /\ (t = 1 <=> SpillStored # {})
  OBVIOUS
<1> HIDE DEF whole, l, t, u
<1>8. PICK b, k : Rewrites(b, k, Len(whole)) /\ Puts(b, k, whole)
  BY <1>1, <1>2, <1>4, <1>6, SpillRewrites
<1>9. /\ k \in Nat
      /\ \A j \in 1 .. l + 1 + t : code'[b][k - 1 + j] = whole[j]
  <2>1. k \in Nat
    BY <1>1, <1>8, CodeShape DEF Rewrites, Indices
  <2> QED
    BY <1>6, <1>8, <2>1 DEF Puts
<1>10. /\ l = 1 => code'[b][k] = Load(dm)
       /\ code'[b][k + l] = At
       /\ t = 1 => code'[b][k + l + 1] = Store(u)
  <2>1. /\ k - 1 + 1 = k /\ k - 1 + (l + 1) = k + l /\ k - 1 + (l + 2) = k + l + 1
        /\ 1 \in 1 .. l + 1 + t /\ l + 1 \in 1 .. l + 1 + t /\ (t = 1 => l + 2 \in 1 .. l + 1 + t)
    BY <1>7, <1>9
  <2>2. code'[b][k - 1 + 1] = whole[1] /\ code'[b][k - 1 + (l + 1)] = whole[l + 1]
    BY <1>9, <2>1
  <2>3. t = 1 => code'[b][k - 1 + (l + 2)] = whole[l + 2]
    BY <1>9, <2>1
  <2> QED
    BY <1>6, <2>1, <2>2, <2>3
<1>11. nw \in Nat /\ nw # 0 /\ nw \notin Ranges /\ dm \notin DOMAIN range
  BY <1>1
<1>12. /\ \A v \in DOMAIN range : range'[v] = IF v \in SpillRead THEN nw ELSE range[v]
       /\ l = 1 => range'[dm] = nw
       /\ DOMAIN range' = DOMAIN range \cup (IF l = 1 THEN {dm} ELSE {})
       /\ Ranges' = Ranges \cup (IF l = 1 THEN {nw} ELSE {})
       /\ \A r \in Ranges : reg'[r] = reg[r]
       /\ l = 1 => reg'[nw] = NoReg
  BY <1>7, SpillRangeIs
<1>13. /\ t = 1 => Len(At.dst) = 1 /\ range[u] = victim
       /\ t = 0 => \A d \in DOMAIN At.dst : range[At.dst[d]] # victim
       /\ l = 0 => SpillRead = {}
       /\ Rewrites(b, k, l + 1 + t) /\ u = At.dst[1]
  BY <1>3, <1>6, <1>7, <1>8 DEF u
<1> HIDE DEF nw, dm
<1>14. SpillRead = { v \in SeqSet(Read(At)) : range[v] = victim }
  BY DEF SpillRead
<1>15. Stacked(b, k, l, t, SpillRead, nw, dm, u)
  BY <1>7, <1>10, <1>11, <1>12, <1>13, <1>14 DEF Stacked
<1> QED
  BY <1>15
-----------------------------------------------------------------------------
(***************************************************************************)
(* The claims of the code afterwards.  Before the instruction, a claim to  *)
(* the victim goes to where the store that follows now finds it.  The      *)
(* operands that were read keep the new live range, which is claimed from  *)
(* its load on as long as an instruction that mentions one of them follows.*)
(***************************************************************************)
Shared(R, N, n) == \E v \in R : n \in N[v]
Mentioned(b, q, R, N, n) ==
  \E v \in R : n \in N[v] /\ \E m \in Indices(b) : m > q /\ v \in Operands(code[b][m])
Retained(b, q, R, nw, N, W, n) == { x \in {nw} : (At.id # 0 => - slots \in W[b][q][n]) /\ Mentioned(b, q, R, N, n) }

Preceding(b, p, rng, W, n) == { IF x = victim THEN rng[code[b][p + 1].src[1]] ELSE x : x \in W[b][p][n] }
Reloaded(b, k, R, nw, N, W, n) == W[b][k - 1][n] \cup { x \in {nw} : Shared(R, N, n) }
Unstored(b, k, R, nw, u, rng, N, W, n) ==
  (W[b][k][n] \ {- slots}) \cup { x \in {rng[u]} : n \in N[u] } \cup Retained(b, k, R, nw, N, W, n)
Following(b, q, R, nw, N, W, n) == W[b][q][n] \cup Retained(b, q, R, nw, N, W, n)

Stacking(b, k, l, t, R, nw, dm, u, N, W, rng, N2) ==
  /\ Stacked(b, k, l, t, R, nw, dm, u) /\ Shape /\ Coded /\ Claimed(N, W) /\ SpillKnown
  /\ rng = range'
  /\ N2 = [v \in DOMAIN range' |-> IF v = dm THEN UNION { N[w] : w \in R } ELSE N[v]]

LEMMA StackingFacts ==
  ASSUME NEW b, NEW k, NEW l, NEW t, NEW R, NEW nw, NEW dm, NEW u, NEW N, NEW W, NEW rng, NEW N2,
         Stacking(b, k, l, t, R, nw, dm, u, N, W, rng, N2)
  PROVE  /\ Stacked(b, k, l, t, R, nw, dm, u) /\ Shape /\ Coded /\ Claimed(N, W) /\ Named(N)
         /\ b \in Blocks /\ k \in Indices(b) /\ k \in Nat /\ k >= 1 /\ Indices(b) = 1 .. Len(code[b])
         /\ Len(code[b]) \in Nat /\ At = code[b][k] /\ pc = "spill"
         /\ slots \in Nat /\ - slots < 0 /\ victim \in Ranges /\ Ranges \subseteq Nat /\ 0 \notin Ranges
         /\ nw \notin Ranges /\ nw \in Nat /\ nw # victim /\ dm \notin DOMAIN range
         /\ R = { v \in SeqSet(Read(At)) : range[v] = victim } /\ R \subseteq Operands(At)
         /\ \A v \in DOMAIN range : /\ rng[v] = IF v \in R THEN nw ELSE range[v]
                                    /\ N2[v] = N[v] /\ range[v] \in Ranges
                                    /\ Slotted[v] = IF range[v] = victim THEN - slots ELSE range[v]
         /\ R \subseteq DOMAIN range
         /\ l = 1 => rng[dm] = nw /\ N2[dm] = UNION { N[w] : w \in R }
         /\ \A a \in Blocks : \A p \in Indices(a) : Handled(a, p) => PlaceAt(a, p) = range
         /\ \A p \in Indices(b) : Handled(b, p) <=> p < k
         /\ \A a \in Blocks : a # b => \/ a < b /\ \A p \in Indices(a) : Handled(a, p)
                                       \/ b < a /\ \A p \in Indices(a) : ~ Handled(a, p)
         /\ \A a \in Blocks : Indices(a) = 1 .. Len(code[a]) /\ Len(code[a]) \in Nat
         /\ \A a \in Blocks : \A p \in 0 .. Len(code[a]) : \A n \in Names(function) : nw \notin W[a][p][n]
<1>1. /\ Stacked(b, k, l, t, R, nw, dm, u) /\ Shape /\ Coded /\ Claimed(N, W) /\ SpillKnown
      /\ rng = range' /\ N2 = [v \in DOMAIN range' |-> IF v = dm THEN UNION { N[w] : w \in R } ELSE N[v]]
  BY DEF Stacking
<1>2. /\ b \in Blocks /\ k \in Indices(b) /\ k \in Nat /\ k >= 1 /\ Indices(b) = 1 .. Len(code[b])
      /\ Len(code[b]) \in Nat /\ At = code[b][k] /\ pc = "spill"
  BY <1>1, MovedShape
<1>3. /\ slots \in Nat /\ - slots < 0 /\ victim \in Ranges /\ Ranges \subseteq Nat /\ 0 \notin Ranges
  BY <1>1 DEF SpillKnown
<1>4. /\ nw \notin Ranges /\ nw \in Nat /\ nw # victim /\ dm \notin DOMAIN range
      /\ R = { v \in SeqSet(Read(At)) : range[v] = victim }
      /\ DOMAIN range' = DOMAIN range \cup (IF l = 1 THEN {dm} ELSE {})
      /\ \A v \in DOMAIN range : rng[v] = IF v \in R THEN nw ELSE range[v]
      /\ l = 1 => rng[dm] = nw
  BY <1>1, <1>3 DEF Stacked
<1>5. SeqSet(Read(At)) \subseteq DOMAIN range /\ SeqSet(Read(At)) \subseteq Operands(At)
  <2>1. At \in Instructions(Len(range)) /\ \A v \in SeqSet(Read(At)) : v \in DOMAIN range
    BY <1>1, <1>2, CodeFacts
  <2>2. /\ SeqSet(Read(At)) = SeqSet(At.src) \cup (IF At.both THEN {At.dst[1]} ELSE {})
        /\ At.both => 1 \in DOMAIN At.dst
    BY <2>1, SourcesAreRead
  <2>3. At.both => At.dst[1] \in SeqSet(At.dst)
    BY <2>2 DEF SeqSet
  <2> QED
    BY <2>1, <2>2, <2>3 DEF Operands
<1>6. /\ \A v \in DOMAIN range : N2[v] = N[v]
      /\ l = 1 => N2[dm] = UNION { N[w] : w \in R }
  BY <1>1, <1>4
<1>7. \A v \in DOMAIN range : /\ range[v] \in Ranges
                              /\ Slotted[v] = IF range[v] = victim THEN - slots ELSE range[v]
  BY <1>1, ElementOfSeq, CodeShape DEF Shape, RangesTyped, Slotted
<1>8. /\ \A a \in Blocks : \A p \in Indices(a) : Handled(a, p) => PlaceAt(a, p) = range
  BY DEF PlaceAt
<1>9. /\ \A p \in Indices(b) : Handled(b, p) <=> p < k
      /\ \A a \in Blocks : a # b => \/ a < b /\ \A p \in Indices(a) : Handled(a, p)
                                    \/ b < a /\ \A p \in Indices(a) : ~ Handled(a, p)
  BY <1>1, MovedHandled
<1>12. \A a \in Blocks : Indices(a) = 1 .. Len(code[a]) /\ Len(code[a]) \in Nat
  BY <1>1, MovedShape
<1>10. \A a \in Blocks : \A p \in 0 .. Len(code[a]) : \A n \in Names(function) : nw \notin W[a][p][n]
  <2> SUFFICES ASSUME NEW a \in Blocks, NEW p \in 0 .. Len(code[a]), NEW n \in Names(function), nw \in W[a][p][n]
               PROVE FALSE
    OBVIOUS
  <2>1. nw \in Ranges \/ nw < 0
    BY <1>1 DEF Claimed, Claims, Located
  <2> QED
    BY <1>4, <2>1
<1>11. Named(N) /\ R \subseteq DOMAIN range /\ R \subseteq Operands(At)
  BY <1>1, <1>4, <1>5 DEF Claimed
<1> QED
  BY <1>1, <1>2, <1>3, <1>4, <1>6, <1>7, <1>8, <1>9, <1>10, <1>11, <1>12
(* Where the victim is claimed it has just been computed. *)
LEMMA AtStoreIs ==
  ASSUME Shape, Coded, pc = "spill", NEW b \in Blocks, NEW p \in 0 .. Len(code[b]), AtStore(b, p)
  PROVE  LET v == code[b][p + 1].src[1] IN
         /\ p \in Indices(b) /\ p + 1 \in Indices(b) /\ range[v] = victim /\ v \in DOMAIN range
         /\ 1 \in DOMAIN code[b][p].dst
         /\ \A d \in DOMAIN code[b][p].dst : code[b][p].dst[d] = v
         /\ v \in SeqSet(code[b][p + 1].src)
<1> DEFINE i == code[b][p + 1]
           v == i.src[1]
<1>1. p + 1 \in Indices(b) /\ Handled(b, p + 1) /\ i.op = "store" /\ range[v] = victim /\ p \in Nat
      /\ Len(code[b]) \in Nat
  BY CodeShape DEF AtStore, Indices
<1>2. /\ i \in Instructions(Len(range)) /\ Matched(function, i) /\ DOMAIN i.src = 1 .. Len(i.src)
      /\ \A d \in DOMAIN i.src : i.src[d] \in DOMAIN range
  BY <1>1, CodeFacts
<1>3. i.id = 0
  BY <1>1, <1>2, MatchedFacts DEF Coded, Shape
<1>4. Len(i.src) = 1
  BY <1>1, <1>2, <1>3 DEF Matched
<1>5. v \in SeqSet(Read(i)) /\ v \in DOMAIN range /\ v \in SeqSet(i.src)
  <2>1. 1 \in DOMAIN i.src
    BY <1>2, <1>4
  <2>2. v \in SeqSet(Read(i))
    BY <1>2, <2>1, SourcesAreRead
  <2> QED
    BY <1>2, <2>1, <2>2 DEF SeqSet
<1>6. p + 1 > 1 /\ code[b][p + 1 - 1].dst = << v >>
  <2>1. VictimStored
    BY DEF Coded
  <2> DEFINE q == p + 1
  <2>2. q \in Indices(b) /\ Handled(b, q) /\ v \in SeqSet(Read(code[b][q])) /\ range[v] = victim
    BY <1>1, <1>5
  <2> HIDE DEF q, v
  <2>3. q > 1 /\ code[b][q - 1].dst = << v >>
    BY <2>1, <2>2 DEF VictimStored
  <2> QED
    BY <2>3 DEF q
<1>7. p + 1 - 1 = p /\ p \in Indices(b)
  BY <1>1, <1>6 DEF Indices
<1> QED
  BY <1>1, <1>5, <1>6, <1>7

LEMMA FitsBefore ==
  ASSUME NEW b, NEW k, NEW l, NEW t, NEW R, NEW nw, NEW dm, NEW u, NEW N, NEW W, NEW rng, NEW N2,
         Stacking(b, k, l, t, R, nw, dm, u, N, W, rng, N2),
         NEW c \in Blocks, NEW p \in Indices(c), Handled(c, p), NEW h, NEW a,
         \A n \in Names(function) : h[n] = Preceding(c, p - 1, rng, W, n),
         \A n \in Names(function) : a[n] = Preceding(c, p, rng, W, n)
  PROVE  Fits(function, code[c][p], rng, N2, h, a)
<1> DEFINE i == code[c][p]
<1>1. /\ Shape /\ Coded /\ Claimed(N, W) /\ Named(N) /\ b \in Blocks /\ pc = "spill"
      /\ Indices(c) = 1 .. Len(code[c]) /\ Len(code[c]) \in Nat
      /\ slots \in Nat /\ victim \in Ranges /\ Ranges \subseteq Nat /\ nw \notin Ranges
      /\ R = { v \in SeqSet(Read(At)) : range[v] = victim }
      /\ \A v \in DOMAIN range : /\ rng[v] = IF v \in R THEN nw ELSE range[v]
                                 /\ N2[v] = N[v] /\ range[v] \in Ranges
      /\ Handled(c, p) /\ PlaceAt(c, p) = range
      /\ \A q \in 0 .. Len(code[c]) : \A n \in Names(function) : nw \notin W[c][q][n]
  BY StackingFacts
<1>2. p - 1 \in 0 .. Len(code[c]) /\ p \in 0 .. Len(code[c]) /\ p - 1 + 1 = p /\ p \in Nat
  BY <1>1
<1>3. /\ \A d \in DOMAIN i.dst : i.dst[d] \in DOMAIN range
      /\ \A v \in SeqSet(Read(i)) : v \in DOMAIN range
      /\ Matched(function, i) /\ i \in Instructions(Len(range))
      /\ DOMAIN i.src = 1 .. Len(i.src) /\ \A d \in DOMAIN i.src : i.src[d] \in DOMAIN range
  BY <1>1, CodeFacts
<1>4. Fits(function, i, range, N, W[c][p - 1], W[c][p])
  BY <1>1 DEF Claimed, Claims, Fitting
<1>5. \A x \in Ranges : x # - slots /\ ~ (x < 0)
  <2>1. \A x \in Ranges : x \in Nat /\ x # 0
    BY StackingFacts
  <2> QED
    BY <1>1, <2>1
<1>6. Memory(i) => i.slot \in 1 .. slots
  BY <1>1 DEF Coded, SlotsKnown
<1>7. Memory(i) => - i.slot # victim
  BY <1>1, <1>6
<1>8. /\ i.op = "load" => /\ Fetched(function, i, N2) = Fetched(function, i, N)
                          /\ Fetched(function, i, N) \subseteq Names(function)
      /\ i.op = "store" => N2[i.src[1]] = N[i.src[1]]
      /\ \A v \in SeqSet(Read(i)) : N[v] \subseteq Names(function)
  <2>1. /\ i.op = "load" => Fetched(function, i, N) \subseteq Names(function)
        /\ \A v \in SeqSet(Read(i)) : N[v] \subseteq Names(function)
    BY <1>1, FetchedAreNames
  <2>2. i.op = "load" /\ i.id = 0 => 1 \in DOMAIN i.dst
    <3>1. i.op = "load" /\ i.id = 0 => Len(i.dst) = 1
      BY <1>3 DEF Matched
    <3> QED
      BY <1>1, <3>1, CodeFacts
  <2>3. i.op = "store" => i.id = 0
    BY <1>1, <1>3, MatchedFacts DEF Coded, Shape
  <2>4. i.op = "store" => Len(i.src) = 1
    BY <1>3, <2>3 DEF Matched
  <2>5. i.op = "store" => i.src[1] \in DOMAIN range
    BY <1>3, <2>4
  <2> QED
    BY <1>1, <1>3, <2>1, <2>2, <2>5 DEF Fetched
<1> HIDE DEF i
<1>9. Needs(function, i, rng, N2, h)
  <2>1. ASSUME NEW v \in SeqSet(Read(i)), NEW n \in N2[v] PROVE rng[v] \in h[n]
    <3>1. n \in N[v] /\ n \in Names(function) /\ range[v] \in W[c][p - 1][n] /\ v \in DOMAIN range
      BY <1>1, <1>3, <1>4, <1>8, <2>1 DEF Fits, Needs
    <3>2. CASE range[v] = victim
      <4>1. i.op = "store" /\ p > 1
        BY <1>1, <2>1, <3>2 DEF Coded, VictimStored, i
      <4>2. i.id = 0
        BY <1>1, <1>3, <4>1, MatchedFacts DEF Coded, Shape
      <4>3. Len(i.src) = 1 /\ ~ i.both
        BY <1>3, <4>1, <4>2 DEF Matched
      <4>4. v = i.src[1]
        <5>1. SeqSet(Read(i)) = SeqSet(i.src)
          BY <1>3, <4>3, SourcesAreRead
        <5>2. DOMAIN i.src = {1}
          BY <1>3, <4>3
        <5> QED
          BY <2>1, <5>1, <5>2 DEF SeqSet
      <4>5. rng[v] \in Preceding(c, p - 1, rng, W, n)
        BY <1>2, <3>1, <3>2, <4>4 DEF Preceding, i
      <4> QED
        BY <3>1, <4>5
    <3>3. CASE range[v] # victim
      <4>1. rng[v] = range[v]
        BY <1>1, <3>1, <3>3
      <4>2. rng[v] \in Preceding(c, p - 1, rng, W, n)
        BY <3>1, <3>3, <4>1 DEF Preceding
      <4> QED
        BY <3>1, <4>2
    <3> QED
      BY <3>2, <3>3
  <2>2. ASSUME i.op = "load", NEW n \in Fetched(function, i, N2) PROVE - i.slot \in h[n]
    <3>1. n \in Names(function) /\ - i.slot \in W[c][p - 1][n] /\ - i.slot # victim
      BY <1>4, <1>7, <1>8, <2>2 DEF Fits, Needs, Memory
    <3>2. - i.slot \in Preceding(c, p - 1, rng, W, n)
      BY <3>1 DEF Preceding
    <3> QED
      BY <3>1, <3>2
  <2> QED
    BY <2>1, <2>2 DEF Needs
<1>10. ASSUME NEW n \in Names(function), NEW y \in a[n] PROVE Justified(function, i, rng, N2, h, n, y)
  <2>1. PICK x \in W[c][p][n] : y = IF x = victim THEN rng[code[c][p + 1].src[1]] ELSE x
    BY DEF Preceding
  <2>2. Justified(function, i, range, N, W[c][p - 1], n, x)
    BY <1>4 DEF Fits
  <2>3. x = victim => /\ 1 \in DOMAIN i.dst /\ range[i.dst[1]] = victim
                      /\ \A d \in DOMAIN i.dst : y = rng[i.dst[d]]
    <3> SUFFICES ASSUME x = victim PROVE /\ 1 \in DOMAIN i.dst /\ range[i.dst[1]] = victim
                                         /\ \A d \in DOMAIN i.dst : y = rng[i.dst[d]]
      OBVIOUS
    <3>1. AtStore(c, p)
      BY <1>1, <1>2 DEF Claimed, Claims, Raw
    <3>2. /\ 1 \in DOMAIN i.dst /\ \A d \in DOMAIN i.dst : i.dst[d] = code[c][p + 1].src[1]
          /\ range[code[c][p + 1].src[1]] = victim
      BY <1>1, <1>2, <3>1, AtStoreIs DEF i
    <3> QED
      BY <2>1, <3>2
  <2>4. \A d \in DOMAIN i.dst : /\ x = range[i.dst[d]] => y = rng[i.dst[d]]
                                /\ N[i.dst[d]] \subseteq N2[i.dst[d]]
    <3> SUFFICES ASSUME NEW d \in DOMAIN i.dst
                 PROVE (x = range[i.dst[d]] => y = rng[i.dst[d]]) /\ N[i.dst[d]] \subseteq N2[i.dst[d]]
      OBVIOUS
    <3>1. i.dst[d] \in DOMAIN range
      BY <1>3
    <3>2. x # victim /\ x = range[i.dst[d]] => y = rng[i.dst[d]]
      BY <1>1, <2>1, <3>1
    <3> QED
      BY <1>1, <2>3, <3>1, <3>2
  <2>5. Stores(i) /\ x = - i.slot => y = - i.slot
    BY <1>7, <2>1 DEF Stores, Memory
  <2>6. ASSUME ~ WritesTo(i, range, x)
        PROVE ~ WritesTo(i, rng, y) /\ \A m \in Looked(function, i, n) : x \in W[c][p - 1][m] => y \in h[m]
    <3>1. x # victim
      BY <2>3, <2>6 DEF WritesTo
    <3>2. y = x /\ x # nw
      BY <1>1, <1>2, <2>1, <3>1
    <3>3. ~ WritesTo(i, rng, x)
      BY <1>1, <1>3, <2>6, <3>2 DEF WritesTo
    <3>4. ASSUME NEW m \in Looked(function, i, n), x \in W[c][p - 1][m] PROVE x \in h[m]
      <4>1. m \in Names(function)
        BY <1>1, <3>4, LookedAreNames DEF i
      <4>2. x \in Preceding(c, p - 1, rng, W, m)
        BY <3>1, <3>4 DEF Preceding
      <4> QED
        BY <4>1, <4>2
    <3> QED
      BY <3>2, <3>3, <3>4
  <2>7. i.op = "store" => N[i.src[1]] \subseteq N2[i.src[1]]
    BY <1>8
  <2> QED
    BY <2>2, <2>4, <2>5, <2>6, <2>7, JustifiedVia
<1> QED
  BY <1>9, <1>10 DEF Fits, i
(* The operands that are loaded are settled, those of a store too. *)
LEMMA SpilledIsClosing ==
  ASSUME NEW b, NEW k, NEW l, NEW t, NEW R, NEW nw, NEW dm, NEW u, NEW N, NEW W, NEW rng, NEW N2,
         Stacking(b, k, l, t, R, nw, dm, u, N, W, rng, N2)
  PROVE  R \subseteq Closing(function, At)
<1>1. /\ Shape /\ Coded /\ b \in Blocks /\ k \in Indices(b) /\ k \in Nat /\ k >= k /\ At = code[b][k]
      /\ R \subseteq Operands(At) /\ R = { v \in SeqSet(Read(At)) : range[v] = victim } /\ pc = "spill"
      /\ \A p \in Indices(b) : Handled(b, p) <=> p < k
  BY StackingFacts
<1>2. ~ Handled(b, k) /\ Matched(function, At)
  BY <1>1 DEF Coded, FromSource
<1>3. CASE At.op = "store" /\ R # {}
  <2>1. Len(At.src) = 1 /\ ~ At.both
    <3>1. At.id = 0
      BY <1>1, <1>2, <1>3, MatchedFacts DEF Coded, Shape
    <3> QED
      BY <1>2, <1>3, <3>1 DEF Matched
  <2>2. At.src[1] \in R
    <3>1. DOMAIN At.src = 1 .. Len(At.src) /\ SeqSet(Read(At)) = SeqSet(At.src)
      BY <1>1, <2>1, CodeFacts, SourcesAreRead
    <3>2. SeqSet(At.src) = {At.src[1]}
      BY <2>1, <3>1 DEF SeqSet
    <3> QED
      BY <1>1, <1>3, <3>1, <3>2
  <2>3. WrittenWhenSettled(function)
    BY <1>1, <1>2, <1>3, <2>2 DEF Coded, StoresSettled
  <2> QED
    BY <1>1, <2>3 DEF Closing
<1>4. CASE At.op # "store"
  BY <1>1, <1>4 DEF Closing
<1> QED
  BY <1>3, <1>4

(* Later instructions do not compute the operands that share nw. *)
LEMMA FollowsSteady ==
  ASSUME NEW b, NEW k, NEW l, NEW t, NEW R, NEW nw, NEW dm, NEW u, NEW N, NEW W, NEW rng, NEW N2,
         Stacking(b, k, l, t, R, nw, dm, u, N, W, rng, N2), NEW q \in Indices(b), q >= k
  PROVE  /\ q > k => \A d \in DOMAIN code[b][q].dst : code[b][q].dst[d] \notin R
         /\ \A n : Mentioned(b, q, R, N, n) =>
              \E v \in R : /\ n \in N[v]
                           /\ (q = k /\ v \in SeqSet(At.dst)) \/ n \notin SetBy(function, code[b][q])
<1>1. /\ Steady(N) /\ b \in Blocks /\ k \in Indices(b) /\ k \in Nat /\ At = code[b][k]
      /\ R \subseteq Closing(function, At) /\ Indices(b) = 1 .. Len(code[b]) /\ Len(code[b]) \in Nat
  BY StackingFacts, SpilledIsClosing DEF Claimed
<1>2. ASSUME NEW v \in R, NEW m \in Indices(b), m > k, v \in Operands(code[b][m])
      PROVE /\ v \notin SeqSet(code[b][m].dst)
            /\ \A j \in k .. m : (j = k /\ v \in SeqSet(At.dst)) \/ N[v] \cap SetBy(function, code[b][j]) = {}
  BY <1>1, <1>2 DEF Steady
<1>3. ASSUME q > k, NEW d \in DOMAIN code[b][q].dst, code[b][q].dst[d] \in R PROVE FALSE
  <2>1. code[b][q].dst[d] \in SeqSet(code[b][q].dst) /\ code[b][q].dst[d] \in Operands(code[b][q])
    BY DEF SeqSet, Operands
  <2> QED
    BY <1>2, <1>3, <2>1
<1>4. ASSUME NEW n, Mentioned(b, q, R, N, n)
      PROVE \E v \in R : /\ n \in N[v]
                         /\ (q = k /\ v \in SeqSet(At.dst)) \/ n \notin SetBy(function, code[b][q])
  <2>1. PICK v \in R : n \in N[v] /\ \E m \in Indices(b) : m > q /\ v \in Operands(code[b][m])
    BY <1>4 DEF Mentioned
  <2>2. PICK m \in Indices(b) : m > q /\ v \in Operands(code[b][m])
    BY <2>1
  <2>3. m > k /\ q \in k .. m
    BY <1>1, <2>2
  <2>4. (q = k /\ v \in SeqSet(At.dst)) \/ N[v] \cap SetBy(function, code[b][q]) = {}
    BY <1>2, <2>2, <2>3
  <2> QED
    BY <2>1, <2>4
<1> QED
  BY <1>3, <1>4

(* The slot is given a value only by what computes an operand of its own. *)
LEMMA SlotGiven ==
  ASSUME NEW b, NEW k, NEW l, NEW t, NEW R, NEW nw, NEW dm, NEW u, NEW N, NEW W, NEW rng, NEW N2,
         Stacking(b, k, l, t, R, nw, dm, u, N, W, rng, N2), NEW q \in Indices(b), q >= k, At.id # 0,
         NEW n, Mentioned(b, q, R, N, n), Given(function, code[b][q], Slotted, N, n, - slots)
  PROVE  q = k /\ \E d \in DOMAIN At.dst : At.dst[d] \in R /\ n \in N[At.dst[d]]
<1> DEFINE i == code[b][q]
<1>1. /\ Shape /\ Coded /\ Named(N) /\ b \in Blocks /\ k \in Indices(b) /\ k \in Nat /\ At = code[b][k]
      /\ Indices(b) = 1 .. Len(code[b]) /\ pc = "spill" /\ slots \in Nat /\ - slots < 0
      /\ Ranges \subseteq Nat /\ R = { v \in SeqSet(Read(At)) : range[v] = victim }
      /\ \A v \in DOMAIN range : /\ range[v] \in Ranges
                                 /\ Slotted[v] = IF range[v] = victim THEN - slots ELSE range[v]
      /\ ~ Handled(b, q)
  BY StackingFacts
<1>2. /\ Matched(function, i) /\ \A d \in DOMAIN i.dst : i.dst[d] \in DOMAIN range
      /\ DOMAIN i.dst = 1 .. Len(i.dst) /\ Disciplined(function) /\ function \in Functions
  BY <1>1, CodeFacts DEF Coded, Shape
<1>3. ~ (Stores(i) /\ - slots = - i.slot)
  <2>1. Memory(i) => i.slot \in 1 .. slots /\ i.slot # slots
    BY <1>1 DEF Coded, SlotsKnown
  <2> QED
    BY <1>1, <2>1 DEF Stores, Memory
<1>4. PICK d \in DOMAIN i.dst : - slots = Slotted[i.dst[d]] /\ n \in N[i.dst[d]]
  BY <1>3 DEF Given, Stores
<1>5. range[i.dst[d]] = victim /\ i.dst[d] \in DOMAIN range
  <2>1. i.dst[d] \in DOMAIN range
    BY <1>2
  <2>2. \A x \in Ranges : ~ (x < 0)
    BY <1>1
  <2> QED
    BY <1>1, <1>4, <2>1, <2>2
<1>6. PICK v \in R : /\ n \in N[v]
                     /\ (q = k /\ v \in SeqSet(At.dst)) \/ n \notin SetBy(function, i)
  BY FollowsSteady
<1>7. i.id # 0
  <2> SUFFICES ASSUME i.id = 0 PROVE FALSE
    OBVIOUS
  <2>1. q # k /\ k < q
    BY <1>1
  <2>2. Dummy(i) /\ Len(i.dst) = 1
    <3>1. i.dst # << >>
      BY <1>2, <1>4, EmptySeq
    <3> QED
      BY <1>2, <3>1 DEF Matched, Dummy
  <2>3. d = 1
    BY <1>2, <2>2
  <2>4. v \in SeqSet(Read(code[b][k])) /\ range[v] = victim
    BY <1>1
  <2>5. range[v] # range[i.dst[1]]
    BY <1>1, <2>1, <2>2, <2>4 DEF Coded, LoadsFirst
  <2> QED
    BY <1>5, <2>3, <2>4, <2>5
<1>8. n \in SetBy(function, i)
  <2> DEFINE o == OriginalIn(function, i)
  <2>1. o \in SourceOf(function) /\ (i.dst = o.dst \/ i.dst = << >>)
    BY <1>2, <1>7, MatchedFacts
  <2>2. i.dst = o.dst
    BY <1>2, <1>4, <2>1, EmptySeq
  <2>3. i.dst[d] \in DOMAIN function.name
    BY <1>2, <1>4, <2>1, <2>2, SourceFacts
  <2>4. n = function.name[i.dst[d]]
    BY <1>1, <1>4, <2>3 DEF Named
  <2>5. n \in Sets(function, o)
    BY <1>4, <2>2, <2>4 DEF Sets, SeqSet
  <2> QED
    BY <1>7, <2>5 DEF SetBy
<1>9. q = k /\ v \in SeqSet(At.dst)
  BY <1>6, <1>8
<1> QED
  BY <1>6, <1>9 DEF SeqSet

LEMMA SpilledFits ==
  ASSUME NEW b, NEW k, NEW l, NEW t, NEW R, NEW nw, NEW dm, NEW u, NEW N, NEW W, NEW rng, NEW N2,
         Stacking(b, k, l, t, R, nw, dm, u, N, W, rng, N2), NEW q \in Indices(b), q >= k
  PROVE  /\ Fits(function, code[b][q], Slotted, N, W[b][q - 1], W[b][q]) /\ PlaceAt(b, q) = Slotted /\ ~ Handled(b, q)
         /\ q \in 0 .. Len(code[b]) /\ q - 1 \in 0 .. Len(code[b]) /\ q \in Nat
         /\ \A n \in Names(function) : victim \notin W[b][q][n] /\ victim \notin W[b][q - 1][n]
<1>1. /\ Shape /\ Coded /\ Claimed(N, W) /\ b \in Blocks /\ k \in Nat /\ pc = "spill"
      /\ Indices(b) = 1 .. Len(code[b]) /\ Len(code[b]) \in Nat
      /\ \A p \in Indices(b) : Handled(b, p) <=> p < k
  BY StackingFacts
<1>2. ~ Handled(b, q) /\ PlaceAt(b, q) = Slotted
  BY <1>1 DEF PlaceAt
<1>3. Fits(function, code[b][q], PlaceAt(b, q), N, W[b][q - 1], W[b][q])
  BY <1>1 DEF Claimed, Claims, Fitting
<1>4. q \in 0 .. Len(code[b]) /\ q - 1 \in 0 .. Len(code[b]) /\ q \in Nat /\ q - 1 + 1 = q
  BY <1>1
<1>5. \A p \in {q, q - 1} : p + 1 \in Indices(b) => ~ Handled(b, p + 1)
  BY <1>1, <1>4
<1>6. \A n \in Names(function) : victim \notin W[b][q][n] /\ victim \notin W[b][q - 1][n]
  BY <1>1, <1>4, <1>5, NoClaimOfVictim
<1> QED
  BY <1>2, <1>3, <1>4, <1>6

LEMMA RetainedBack ==
  ASSUME NEW b, NEW k, NEW l, NEW t, NEW R, NEW nw, NEW dm, NEW u, NEW N, NEW W, NEW rng, NEW N2,
         Stacking(b, k, l, t, R, nw, dm, u, N, W, rng, N2), NEW q \in Indices(b), q > k,
         NEW n \in Names(function), NEW x \in Retained(b, q, R, nw, N, W, n)
  PROVE  x = nw /\ n \notin SetBy(function, code[b][q]) /\ x \in Retained(b, q - 1, R, nw, N, W, n)
<1>1. q >= k /\ q # k /\ q \in Nat /\ k \in Nat /\ \A m \in Indices(b) : m \in Nat
  BY StackingFacts
<1>2. x = nw /\ (At.id # 0 => - slots \in W[b][q][n]) /\ Mentioned(b, q, R, N, n)
  BY DEF Retained
<1>3. n \notin SetBy(function, code[b][q])
  BY <1>1, <1>2, FollowsSteady
<1>4. Mentioned(b, q - 1, R, N, n)
  <2>1. PICK v \in R : n \in N[v] /\ \E m \in Indices(b) : m > q /\ v \in Operands(code[b][m])
    BY <1>2 DEF Mentioned
  <2>2. PICK m \in Indices(b) : m > q /\ v \in Operands(code[b][m])
    BY <2>1
  <2>3. m > q - 1
    BY <1>1, <2>2
  <2> QED
    BY <2>1, <2>2, <2>3 DEF Mentioned
<1>5. ASSUME At.id # 0 PROVE - slots \in W[b][q - 1][n]
  <2>1. Justified(function, code[b][q], Slotted, N, W[b][q - 1], n, - slots)
    <3>1. Fits(function, code[b][q], Slotted, N, W[b][q - 1], W[b][q])
      BY <1>1, SpilledFits
    <3>2. - slots \in W[b][q][n]
      BY <1>2, <1>5
    <3> QED
      BY <3>1, <3>2 DEF Fits
  <2>2. ~ Given(function, code[b][q], Slotted, N, n, - slots)
    BY <1>1, <1>2, <1>5, SlotGiven
  <2>3. Keeps(function, code[b][q], W[b][q - 1], n, - slots)
    BY <2>1, <2>2 DEF Justified
  <2>4. CopyLike(function, code[b][q]) => n # To(function, code[b][q])
    <3>1. Matched(function, code[b][q]) /\ Disciplined(function) /\ function \in Functions
      BY StackingFacts, CodeFacts DEF Coded, Shape
    <3>2. CopyLike(function, code[b][q]) => SetBy(function, code[b][q]) = {To(function, code[b][q])}
      BY <3>1, MatchedFacts DEF CopyLike
    <3> QED
      BY <1>3, <3>2
  <2> QED
    BY <2>3, <2>4 DEF Keeps
<1> QED
  BY <1>2, <1>3, <1>4, <1>5 DEF Retained
LEMMA RetainedAt ==
  ASSUME NEW b, NEW k, NEW l, NEW t, NEW R, NEW nw, NEW dm, NEW u, NEW N, NEW W, NEW rng, NEW N2,
         Stacking(b, k, l, t, R, nw, dm, u, N, W, rng, N2),
         NEW n \in Names(function), NEW x \in Retained(b, k, R, nw, N, W, n)
  PROVE  /\ x = nw
         /\ \/ \E d \in DOMAIN At.dst : At.dst[d] \in R /\ n \in N[At.dst[d]]
            \/ /\ Shared(R, N, n) /\ n \notin SetBy(function, At)
               /\ \A d \in DOMAIN At.dst : At.dst[d] \notin R
<1>1. /\ x = nw /\ (At.id # 0 => - slots \in W[b][k][n]) /\ Mentioned(b, k, R, N, n)
  BY DEF Retained
<1>2. /\ Shape /\ Coded /\ b \in Blocks /\ k \in Indices(b) /\ k >= k /\ k \in Nat /\ At = code[b][k]
      /\ R = { v \in SeqSet(Read(At)) : range[v] = victim } /\ R \subseteq DOMAIN range
      /\ \A v \in DOMAIN range : Slotted[v] = IF range[v] = victim THEN - slots ELSE range[v]
  BY StackingFacts
<1>3. PICK v \in R : n \in N[v] /\ (v \in SeqSet(At.dst) \/ n \notin SetBy(function, At))
  BY <1>1, <1>2, FollowsSteady
<1>4. CASE At.id = 0
  <2>1. Matched(function, At) /\ At \in Instructions(Len(range))
    BY <1>2, CodeFacts
  <2>2. SeqSet(Read(At)) # {}
    BY <1>2, <1>3
  <2>3. At.src # << >>
    <3>1. ~ At.both
      BY <1>4, <2>1 DEF Matched
    <3> QED
      BY <2>2, <3>1 DEF Read, SeqSet
  <2>4. At.dst = << >>
    BY <1>4, <2>1, <2>3 DEF Matched
  <2>5. n \notin SetBy(function, At)
    BY <1>4 DEF SetBy
  <2> QED
    BY <1>1, <1>3, <2>4, <2>5 DEF Shared
<1>5. CASE At.id # 0
  <2>1. Justified(function, At, Slotted, N, W[b][k - 1], n, - slots)
    <3>1. Fits(function, code[b][k], Slotted, N, W[b][k - 1], W[b][k])
      BY <1>2, SpilledFits
    <3>2. - slots \in W[b][k][n]
      BY <1>1, <1>5
    <3> QED
      BY <1>2, <3>1, <3>2 DEF Fits
  <2>2. CASE Given(function, At, Slotted, N, n, - slots)
    BY <1>1, <1>2, <1>5, <2>2, SlotGiven
  <2>3. CASE ~ WritesTo(At, Slotted, - slots)
    <3>1. \A d \in DOMAIN At.dst : At.dst[d] \notin R
      BY <1>2, <2>3 DEF WritesTo
    <3>2. v \notin SeqSet(At.dst)
      BY <3>1 DEF SeqSet
    <3> QED
      BY <1>1, <1>3, <3>1, <3>2 DEF Shared
  <2> QED
    BY <2>1, <2>2, <2>3 DEF Justified
<1> QED
  BY <1>4, <1>5

LEMMA FitsAfter ==
  ASSUME NEW b, NEW k, NEW l, NEW t, NEW R, NEW nw, NEW dm, NEW u, NEW N, NEW W, NEW rng, NEW N2,
         Stacking(b, k, l, t, R, nw, dm, u, N, W, rng, N2),
         NEW q \in Indices(b), q > k, NEW place,
         \A v \in DOMAIN range : place[v] = IF v \in R THEN nw ELSE Slotted[v],
         NEW h, NEW a,
         \A n \in Names(function) : h[n] = Following(b, q - 1, R, nw, N, W, n),
         \A n \in Names(function) : a[n] = Following(b, q, R, nw, N, W, n)
  PROVE  Fits(function, code[b][q], place, N2, h, a)
<1> DEFINE i == code[b][q]
<1>1. /\ Shape /\ Coded /\ Named(N) /\ b \in Blocks /\ k \in Nat /\ q >= k /\ Indices(b) = 1 .. Len(code[b])
      /\ slots \in Nat /\ - slots < 0 /\ Ranges \subseteq Nat /\ nw \notin Ranges /\ nw \in Nat
      /\ R = { v \in SeqSet(Read(At)) : range[v] = victim }
      /\ \A v \in DOMAIN range : /\ N2[v] = N[v] /\ range[v] \in Ranges
                                 /\ Slotted[v] = IF range[v] = victim THEN - slots ELSE range[v]
      /\ \A p \in 0 .. Len(code[b]) : \A n \in Names(function) : nw \notin W[b][p][n]
  BY StackingFacts
<1>2. /\ Fits(function, i, Slotted, N, W[b][q - 1], W[b][q])
      /\ q \in 0 .. Len(code[b]) /\ q - 1 \in 0 .. Len(code[b]) /\ q \in Nat
  BY <1>1, SpilledFits
<1>3. /\ \A d \in DOMAIN i.dst : i.dst[d] \in DOMAIN range
      /\ \A v \in SeqSet(Read(i)) : v \in DOMAIN range
      /\ Matched(function, i) /\ i \in Instructions(Len(range))
      /\ DOMAIN i.src = 1 .. Len(i.src) /\ \A d \in DOMAIN i.src : i.src[d] \in DOMAIN range
  BY <1>1, CodeFacts
<1>4. \A d \in DOMAIN i.dst : place[i.dst[d]] = Slotted[i.dst[d]] /\ N2[i.dst[d]] = N[i.dst[d]]
  BY <1>1, <1>3, FollowsSteady
<1>5. SeqSet(Read(i)) \subseteq Operands(i)
  <2>1. /\ SeqSet(Read(i)) = SeqSet(i.src) \cup (IF i.both THEN {i.dst[1]} ELSE {})
        /\ i.both => 1 \in DOMAIN i.dst
    BY <1>3, SourcesAreRead
  <2>2. i.both => i.dst[1] \in SeqSet(i.dst)
    BY <2>1 DEF SeqSet
  <2> QED
    BY <2>1, <2>2 DEF Operands
<1>6. /\ i.op = "load" => /\ Fetched(function, i, N2) = Fetched(function, i, N)
                          /\ Fetched(function, i, N) \subseteq Names(function)
      /\ i.op = "store" => N2[i.src[1]] = N[i.src[1]]
      /\ \A v \in SeqSet(Read(i)) : N[v] \subseteq Names(function)
  <2>1. /\ i.op = "load" => Fetched(function, i, N) \subseteq Names(function)
        /\ \A v \in SeqSet(Read(i)) : N[v] \subseteq Names(function)
    BY <1>1, FetchedAreNames
  <2>2. i.op = "load" /\ i.id = 0 => 1 \in DOMAIN i.dst
    <3>1. i.op = "load" /\ i.id = 0 => Len(i.dst) = 1
      BY <1>3 DEF Matched
    <3> QED
      BY <1>1, <3>1, CodeFacts
  <2>3. i.op = "store" => i.id = 0
    BY <1>1, <1>3, MatchedFacts DEF Coded, Shape
  <2>4. i.op = "store" => Len(i.src) = 1
    BY <1>3, <2>3 DEF Matched
  <2>5. i.op = "store" => i.src[1] \in DOMAIN range
    BY <1>3, <2>4
  <2> QED
    BY <1>1, <1>3, <2>1, <2>2, <2>5 DEF Fetched
<1>a. \A n \in Names(function) : Looked(function, i, n) \subseteq Names(function)
  BY <1>1, LookedAreNames
<1>b. \A n \in Names(function) : \A x \in Retained(b, q, R, nw, N, W, n) :
        x = nw /\ n \notin SetBy(function, i) /\ x \in Retained(b, q - 1, R, nw, N, W, n)
  BY RetainedBack
<1>c. Memory(i) => i.slot \in 1 .. slots
  BY <1>1 DEF Coded, SlotsKnown
<1> HIDE DEF i
<1>7. Needs(function, i, place, N2, h)
  <2>1. ASSUME NEW v \in SeqSet(Read(i)), NEW n \in N2[v] PROVE place[v] \in h[n]
    <3>1. n \in N[v] /\ n \in Names(function) /\ Slotted[v] \in W[b][q - 1][n] /\ v \in DOMAIN range
      BY <1>1, <1>2, <1>3, <1>6, <2>1 DEF Fits, Needs
    <3>2. CASE v \in R
      <4>1. - slots \in W[b][q - 1][n] /\ place[v] = nw
        BY <1>1, <3>1, <3>2
      <4>2. q > q - 1 /\ v \in Operands(code[b][q])
        BY <1>2, <1>5, <2>1 DEF i
      <4>3. Mentioned(b, q - 1, R, N, n)
        BY <3>1, <3>2, <4>2 DEF Mentioned
      <4>4. nw \in Retained(b, q - 1, R, nw, N, W, n)
        BY <4>1, <4>3 DEF Retained
      <4> QED
        BY <3>1, <4>1, <4>4 DEF Following
    <3>3. CASE v \notin R
      <4>1. Slotted[v] \in Following(b, q - 1, R, nw, N, W, n)
        BY <3>1 DEF Following
      <4> QED
        BY <3>1, <3>3, <4>1
    <3> QED
      BY <3>2, <3>3
  <2>2. ASSUME i.op = "load", NEW n \in Fetched(function, i, N2) PROVE - i.slot \in h[n]
    <3>1. n \in Names(function) /\ - i.slot \in W[b][q - 1][n]
      BY <1>2, <1>6, <2>2 DEF Fits, Needs
    <3>2. - i.slot \in Following(b, q - 1, R, nw, N, W, n)
      BY <3>1 DEF Following
    <3> QED
      BY <3>1, <3>2
  <2> QED
    BY <2>1, <2>2 DEF Needs
<1>8. \A x : WritesTo(i, place, x) <=> WritesTo(i, Slotted, x)
  BY <1>4 DEF WritesTo
<1>9. ASSUME NEW n \in Names(function), NEW x \in W[b][q][n] PROVE Justified(function, i, place, N2, h, n, x)
  <2>1. Justified(function, i, Slotted, N, W[b][q - 1], n, x)
    BY <1>2 DEF Fits
  <2>2. \A d \in DOMAIN i.dst : /\ x = Slotted[i.dst[d]] => x = place[i.dst[d]]
                                /\ N[i.dst[d]] \subseteq N2[i.dst[d]]
    BY <1>4
  <2>3. i.op = "store" => N[i.src[1]] \subseteq N2[i.src[1]]
    BY <1>6
  <2>4. \A m \in Looked(function, i, n) : x \in W[b][q - 1][m] => x \in h[m]
    BY <1>a DEF Following
  <2>5. ~ WritesTo(i, Slotted, x) => ~ WritesTo(i, place, x) /\ \A m \in Looked(function, i, n) : x \in W[b][q - 1][m] => x \in h[m]
    BY <1>8, <2>4
  <2> QED
    BY <2>1, <2>2, <2>3, <2>5, JustifiedVia
<1>10. ASSUME NEW n \in Names(function), NEW x \in Retained(b, q, R, nw, N, W, n)
       PROVE Justified(function, i, place, N2, h, n, x)
  <2>1. x = nw /\ n \notin SetBy(function, i) /\ x \in Retained(b, q - 1, R, nw, N, W, n)
    BY <1>b
  <2>2. ~ WritesTo(i, Slotted, x)
    <3>1. \A d \in DOMAIN i.dst : Slotted[i.dst[d]] \in Ranges \/ Slotted[i.dst[d]] = - slots
      BY <1>1, <1>3
    <3>2. Stores(i) => i.slot \in Nat /\ i.slot # 0
      BY <1>1, <1>c DEF Stores, Memory
    <3> QED
      BY <1>1, <2>1, <3>1, <3>2 DEF WritesTo
  <2>3. x \in h[n]
    BY <2>1 DEF Following
  <2> QED
    BY <1>8, <2>1, <2>2, <2>3 DEF Justified, Keeps
<1> QED
  BY <1>7, <1>9, <1>10 DEF Fits, Following, i
-----------------------------------------------------------------------------
(* The instructions that the spiller puts around the one at the cursor. *)
LEMMA LoadIs ==
  ASSUME NEW v
  PROVE  /\ Load(v).id = 0 /\ Load(v).op = "load" /\ Load(v).slot = slots /\ ~ Load(v).both
         /\ Load(v).src = << >> /\ Load(v).dst = << v >> /\ Len(Load(v).dst) = 1
         /\ DOMAIN Load(v).dst = {1} /\ Load(v).dst[1] = v /\ DOMAIN Load(v).src = {}
         /\ SeqSet(Read(Load(v))) = {} /\ SeqSet(Load(v).dst) = {v} /\ Operands(Load(v)) = {v}
         /\ SetBy(function, Load(v)) = {} /\ ~ CopyLike(function, Load(v)) /\ ~ Stores(Load(v))
<1>1. /\ Load(v).id = 0 /\ Load(v).op = "load" /\ Load(v).slot = slots /\ ~ Load(v).both
      /\ Load(v).src = << >> /\ Load(v).dst = << v >>
  BY DEF Load
<1>2. Len(<< v >>) = 1 /\ DOMAIN << v >> = {1} /\ << v >>[1] = v /\ DOMAIN << >> = {}
  OBVIOUS
<1>3. SeqSet(<< v >>) = {v} /\ SeqSet(<< >>) = {}
  BY <1>2 DEF SeqSet
<1>4. Read(Load(v)) = << >>
  BY <1>1 DEF Read
<1> QED
  BY <1>1, <1>2, <1>3, <1>4 DEF Operands, SetBy, CopyLike, Stores

LEMMA StoreIs ==
  ASSUME NEW v
  PROVE  /\ Store(v).id = 0 /\ Store(v).op = "store" /\ Store(v).slot = slots /\ ~ Store(v).both
         /\ Store(v).dst = << >> /\ Store(v).src = << v >> /\ Len(Store(v).src) = 1
         /\ DOMAIN Store(v).src = {1} /\ Store(v).src[1] = v /\ DOMAIN Store(v).dst = {} /\ Len(Store(v).dst) = 0
         /\ SeqSet(Read(Store(v))) = {v} /\ SeqSet(Store(v).dst) = {} /\ Operands(Store(v)) = {v}
         /\ SetBy(function, Store(v)) = {} /\ ~ CopyLike(function, Store(v)) /\ Stores(Store(v))
<1>1. /\ Store(v).id = 0 /\ Store(v).op = "store" /\ Store(v).slot = slots /\ ~ Store(v).both
      /\ Store(v).dst = << >> /\ Store(v).src = << v >>
  BY DEF Store
<1>2. Len(<< v >>) = 1 /\ DOMAIN << v >> = {1} /\ << v >>[1] = v /\ DOMAIN << >> = {} /\ Len(<< >>) = 0
  OBVIOUS
<1>3. SeqSet(<< v >>) = {v} /\ SeqSet(<< >>) = {}
  BY <1>2 DEF SeqSet
<1>4. Read(Store(v)) = << v >>
  BY <1>1 DEF Read
<1> QED
  BY <1>1, <1>2, <1>3, <1>4 DEF Operands, SetBy, CopyLike, Stores

LEMMA FitsLoad ==
  ASSUME NEW b, NEW k, NEW l, NEW t, NEW R, NEW nw, NEW dm, NEW u, NEW N, NEW W, NEW rng, NEW N2,
         Stacking(b, k, l, t, R, nw, dm, u, N, W, rng, N2), l = 1, NEW h, NEW a,
         \A n \in Names(function) : h[n] = W[b][k - 1][n],
         \A n \in Names(function) : a[n] = Reloaded(b, k, R, nw, N, W, n)
  PROVE  Fits(function, Load(dm), rng, N2, h, a)
<1> DEFINE i == Load(dm)
<1>1. /\ Named(N) /\ k \in Indices(b) /\ k \in Nat /\ k >= k /\ At = code[b][k] /\ b \in Blocks
      /\ R = { v \in SeqSet(Read(At)) : range[v] = victim } /\ R \subseteq DOMAIN range
      /\ rng[dm] = nw /\ N2[dm] = UNION { N[w] : w \in R }
      /\ \A v \in DOMAIN range : Slotted[v] = IF range[v] = victim THEN - slots ELSE range[v]
      /\ \A q \in Blocks : \A p \in 0 .. Len(code[q]) : \A n \in Names(function) : nw \notin W[q][p][n]
  BY StackingFacts
<1>2. /\ Fits(function, At, Slotted, N, W[b][k - 1], W[b][k]) /\ k - 1 \in 0 .. Len(code[b])
  BY <1>1, SpilledFits
<1>3. /\ i.id = 0 /\ i.op = "load" /\ i.slot = slots
      /\ DOMAIN i.dst = {1} /\ i.dst[1] = dm /\ SeqSet(Read(i)) = {}
      /\ SetBy(function, i) = {} /\ ~ Stores(i)
  BY LoadIs
<1> HIDE DEF i
<1>4. Needs(function, i, rng, N2, h)
  <2>1. ASSUME NEW n \in Fetched(function, i, N2) PROVE - i.slot \in h[n]
    <3>1. n \in UNION { N[w] : w \in R }
      BY <1>1, <1>3, <2>1 DEF Fetched
    <3>2. PICK v \in R : n \in N[v]
      BY <3>1
    <3>3. v \in SeqSet(Read(At)) /\ Slotted[v] = - slots /\ n \in Names(function)
      BY <1>1, <3>2 DEF Named
    <3>4. - slots \in W[b][k - 1][n]
      BY <1>2, <3>2, <3>3 DEF Fits, Needs
    <3> QED
      BY <1>3, <3>3, <3>4
  <2> QED
    BY <1>3, <2>1 DEF Needs
<1>5. ASSUME NEW n \in Names(function), NEW x \in a[n] PROVE Justified(function, i, rng, N2, h, n, x)
  <2>1. CASE x = nw /\ Shared(R, N, n)
    <3>1. n \in N2[dm]
      BY <1>1, <2>1 DEF Shared
    <3>2. Given(function, i, rng, N2, n, x)
      BY <1>1, <1>3, <2>1, <3>1 DEF Given
    <3> QED
      BY <3>2 DEF Justified
  <2>2. CASE x \in W[b][k - 1][n]
    <3>1. x # nw
      BY <1>1, <1>2, <2>2
    <3>2. ~ WritesTo(i, rng, x)
      BY <1>1, <1>3, <3>1 DEF WritesTo
    <3> QED
      BY <1>3, <2>2, <3>2 DEF Justified, Keeps
  <2> QED
    BY <2>1, <2>2 DEF Reloaded
<1> QED
  BY <1>4, <1>5 DEF Fits, i

(* The instruction itself, with the new live range where it read the       *)
(* victim; what it computes is not in the slot before the store.           *)
LEMMA FitsAt ==
  ASSUME NEW b, NEW k, NEW l, NEW t, NEW R, NEW nw, NEW dm, NEW u, NEW N, NEW W, NEW rng, NEW N2,
         Stacking(b, k, l, t, R, nw, dm, u, N, W, rng, N2), NEW h, NEW a,
         \A n \in Names(function) : h[n] = Reloaded(b, k, R, nw, N, W, n),
         \A n \in Names(function) : a[n] = IF t = 1 THEN Unstored(b, k, R, nw, u, rng, N, W, n)
                                                    ELSE Following(b, k, R, nw, N, W, n)
  PROVE  Fits(function, At, rng, N2, h, a)
<1>1. /\ Shape /\ Coded /\ Named(N) /\ k \in Indices(b) /\ k \in Nat /\ k >= k /\ At = code[b][k] /\ b \in Blocks
      /\ R = { v \in SeqSet(Read(At)) : range[v] = victim } /\ R \subseteq DOMAIN range
      /\ slots \in Nat /\ - slots < 0 /\ Ranges \subseteq Nat /\ nw \notin Ranges /\ nw \in Nat
      /\ \A v \in DOMAIN range : /\ rng[v] = IF v \in R THEN nw ELSE range[v]
                                 /\ N2[v] = N[v] /\ range[v] \in Ranges
                                 /\ Slotted[v] = IF range[v] = victim THEN - slots ELSE range[v]
      /\ \A q \in Blocks : \A p \in 0 .. Len(code[q]) : \A n \in Names(function) : nw \notin W[q][p][n]
  BY StackingFacts
<1>2. /\ Fits(function, At, Slotted, N, W[b][k - 1], W[b][k]) /\ k \in 0 .. Len(code[b])
      /\ \A n \in Names(function) : victim \notin W[b][k][n]
  BY <1>1, SpilledFits
<1>3. /\ \A d \in DOMAIN At.dst : At.dst[d] \in DOMAIN range
      /\ \A v \in SeqSet(Read(At)) : v \in DOMAIN range
      /\ DOMAIN At.dst = 1 .. Len(At.dst)
      /\ Matched(function, At) /\ \A d \in DOMAIN At.src : At.src[d] \in DOMAIN range
      /\ DOMAIN At.src = 1 .. Len(At.src)
  BY <1>1, CodeFacts
<1>4. /\ t \in {0, 1}
      /\ t = 0 => \A d \in DOMAIN At.dst : range[At.dst[d]] # victim
      /\ t = 1 => Len(At.dst) = 1 /\ u = At.dst[1] /\ range[u] = victim
  <2>1. Stacked(b, k, l, t, R, nw, dm, u)
    BY StackingFacts
  <2> QED
    BY <2>1 DEF Stacked
<1>5. t = 1 => DOMAIN At.dst = {1} /\ u \in DOMAIN range
  <2>1. t = 1 => DOMAIN At.dst = {1}
    <3>1. t = 1 => DOMAIN At.dst = 1 .. 1
      BY <1>3, <1>4
    <3> QED
      BY <3>1
  <2> QED
    BY <1>3, <1>4, <2>1
<1>6. Memory(At) => At.slot \in 1 .. slots
  BY <1>1 DEF Coded, SlotsKnown
<1>7. /\ At.op = "load" => /\ Fetched(function, At, N2) = Fetched(function, At, N)
                           /\ Fetched(function, At, N) \subseteq Names(function)
      /\ At.op = "store" => N2[At.src[1]] = N[At.src[1]]
      /\ \A v \in SeqSet(Read(At)) : N[v] \subseteq Names(function)
  <2>1. /\ At.op = "load" => Fetched(function, At, N) \subseteq Names(function)
        /\ \A v \in SeqSet(Read(At)) : N[v] \subseteq Names(function)
    BY <1>1, FetchedAreNames
  <2>2. At.op = "load" /\ At.id = 0 => At.dst[1] \in DOMAIN range
    <3>1. At.op = "load" /\ At.id = 0 => Len(At.dst) = 1
      BY <1>3 DEF Matched
    <3> QED
      BY <1>3, <3>1
  <2>3. At.op = "store" => At.id = 0
    BY <1>1, <1>3, MatchedFacts DEF Coded, Shape
  <2>4. At.op = "store" => Len(At.src) = 1
    BY <1>3, <2>3 DEF Matched
  <2>5. At.op = "store" => At.src[1] \in DOMAIN range
    BY <1>3, <2>4
  <2> QED
    BY <1>1, <2>1, <2>2, <2>5 DEF Fetched
<1>a. \A n \in Names(function) : Looked(function, At, n) \subseteq Names(function)
  BY <1>1, LookedAreNames
<1>8. Needs(function, At, rng, N2, h)
  <2>1. ASSUME NEW v \in SeqSet(Read(At)), NEW n \in N2[v] PROVE rng[v] \in h[n]
    <3>1. n \in N[v] /\ n \in Names(function) /\ Slotted[v] \in W[b][k - 1][n] /\ v \in DOMAIN range
      BY <1>1, <1>2, <1>3, <1>7, <2>1 DEF Fits, Needs
    <3>2. CASE v \in R
      <4>1. rng[v] = nw /\ Shared(R, N, n)
        BY <1>1, <3>1, <3>2 DEF Shared
      <4> QED
        BY <3>1, <4>1 DEF Reloaded
    <3>3. CASE v \notin R
      <4>1. rng[v] = Slotted[v]
        BY <1>1, <2>1, <3>1, <3>3
      <4> QED
        BY <3>1, <4>1 DEF Reloaded
    <3> QED
      BY <3>2, <3>3
  <2>2. ASSUME At.op = "load", NEW n \in Fetched(function, At, N2) PROVE - At.slot \in h[n]
    <3>1. n \in Names(function) /\ - At.slot \in W[b][k - 1][n]
      BY <1>2, <1>7, <2>2 DEF Fits, Needs
    <3> QED
      BY <3>1 DEF Reloaded
  <2> QED
    BY <2>1, <2>2 DEF Needs
<1>9. ASSUME NEW n \in Names(function), NEW x \in W[b][k][n], t = 1 => x # - slots
      PROVE Justified(function, At, rng, N2, h, n, x)
  <2>1. Justified(function, At, Slotted, N, W[b][k - 1], n, x)
    BY <1>2 DEF Fits
  <2>2. x # nw /\ x # victim
    BY <1>1, <1>2
  <2>3. \A d \in DOMAIN At.dst : (x = Slotted[At.dst[d]] <=> x = rng[At.dst[d]]) /\ N[At.dst[d]] = N2[At.dst[d]]
    <3>1. CASE t = 0
      BY <1>1, <1>3, <1>4, <3>1
    <3>2. CASE t = 1
      <4>1. x # Slotted[u] /\ x # rng[u] /\ N[u] = N2[u]
        BY <1>1, <1>4, <1>5, <1>9, <2>2, <3>2
      <4> QED
        BY <1>4, <1>5, <3>2, <4>1
    <3> QED
      BY <1>4, <3>1, <3>2
  <2>4. At.op = "store" => N[At.src[1]] \subseteq N2[At.src[1]]
    BY <1>7
  <2>5. WritesTo(At, rng, x) <=> WritesTo(At, Slotted, x)
    BY <2>3 DEF WritesTo
  <2>6. \A m \in Looked(function, At, n) : x \in W[b][k - 1][m] => x \in h[m]
    BY <1>a DEF Reloaded
  <2> QED
    BY <2>1, <2>3, <2>4, <2>5, <2>6, JustifiedVia
<1>10. ASSUME NEW n \in Names(function), t = 1, n \in N[u]
       PROVE Justified(function, At, rng, N2, h, n, rng[u])
  <2>1. n \in N2[At.dst[1]] /\ 1 \in DOMAIN At.dst /\ rng[u] = rng[At.dst[1]]
    BY <1>1, <1>4, <1>5, <1>10
  <2> QED
    BY <2>1 DEF Justified, Given
<1>11. ASSUME NEW n \in Names(function), NEW x \in Retained(b, k, R, nw, N, W, n)
       PROVE Justified(function, At, rng, N2, h, n, x)
  <2>1. x = nw /\ \/ \E d \in DOMAIN At.dst : At.dst[d] \in R /\ n \in N[At.dst[d]]
                  \/ /\ Shared(R, N, n) /\ n \notin SetBy(function, At)
                     /\ \A d \in DOMAIN At.dst : At.dst[d] \notin R
    BY RetainedAt
  <2>2. CASE \E d \in DOMAIN At.dst : At.dst[d] \in R /\ n \in N[At.dst[d]]
    <3>1. PICK d \in DOMAIN At.dst : At.dst[d] \in R /\ n \in N[At.dst[d]]
      BY <2>2
    <3>2. rng[At.dst[d]] = nw /\ N2[At.dst[d]] = N[At.dst[d]]
      BY <1>1, <3>1
    <3> QED
      BY <2>1, <3>1, <3>2 DEF Justified, Given
  <2>3. CASE /\ Shared(R, N, n) /\ n \notin SetBy(function, At)
             /\ \A d \in DOMAIN At.dst : At.dst[d] \notin R
    <3>1. \A d \in DOMAIN At.dst : rng[At.dst[d]] # nw
      BY <1>1, <1>3, <2>3
    <3>2. Stores(At) => nw # - At.slot
      BY <1>1, <1>6 DEF Stores, Memory
    <3>3. nw \in h[n]
      BY <2>3 DEF Reloaded
    <3> QED
      BY <2>1, <2>3, <3>1, <3>2, <3>3 DEF Justified, Keeps, WritesTo
  <2> QED
    BY <2>1, <2>2, <2>3
<1>12. ASSUME NEW n \in Names(function), NEW x \in a[n] PROVE Justified(function, At, rng, N2, h, n, x)
  <2>1. CASE t = 1
    <3>1. x \in Unstored(b, k, R, nw, u, rng, N, W, n)
      BY <1>12, <2>1
    <3>2. \/ x \in W[b][k][n] /\ x # - slots
          \/ x = rng[u] /\ n \in N[u]
          \/ x \in Retained(b, k, R, nw, N, W, n)
      BY <3>1 DEF Unstored
    <3> QED
      BY <1>9, <1>10, <1>11, <2>1, <3>2
  <2>2. CASE t # 1
    BY <1>9, <1>11, <1>12, <2>2 DEF Following
  <2> QED
    BY <2>1, <2>2
<1> QED
  BY <1>8, <1>12 DEF Fits

(* The store puts what was computed into the slot. *)
LEMMA FitsStore ==
  ASSUME NEW b, NEW k, NEW l, NEW t, NEW R, NEW nw, NEW dm, NEW u, NEW N, NEW W, NEW rng, NEW N2,
         Stacking(b, k, l, t, R, nw, dm, u, N, W, rng, N2), t = 1, NEW h, NEW a,
         \A n \in Names(function) : h[n] = Unstored(b, k, R, nw, u, rng, N, W, n),
         \A n \in Names(function) : a[n] = Following(b, k, R, nw, N, W, n)
  PROVE  Fits(function, Store(u), rng, N2, h, a)
<1> DEFINE i == Store(u)
<1>1. /\ Shape /\ Coded /\ Named(N) /\ k \in Indices(b) /\ k \in Nat /\ k >= k /\ At = code[b][k] /\ b \in Blocks
      /\ pc = "spill" /\ slots \in Nat /\ - slots < 0 /\ Ranges \subseteq Nat /\ nw \notin Ranges /\ nw \in Nat
      /\ \A v \in DOMAIN range : /\ N2[v] = N[v] /\ range[v] \in Ranges
                                 /\ Slotted[v] = IF range[v] = victim THEN - slots ELSE range[v]
  BY StackingFacts
<1>2. /\ Fits(function, At, Slotted, N, W[b][k - 1], W[b][k]) /\ ~ Handled(b, k)
  BY <1>1, SpilledFits
<1>3. /\ DOMAIN At.dst = {1} /\ u = At.dst[1] /\ range[u] = victim /\ u \in DOMAIN range
  <2>1. Len(At.dst) = 1 /\ u = At.dst[1] /\ range[u] = victim
    <3>1. Stacked(b, k, l, t, R, nw, dm, u)
      BY StackingFacts
    <3> QED
      BY <3>1 DEF Stacked
  <2>2. DOMAIN At.dst = 1 .. Len(At.dst) /\ \A d \in DOMAIN At.dst : At.dst[d] \in DOMAIN range
    BY <1>1, CodeFacts
  <2>3. DOMAIN At.dst = 1 .. 1
    BY <2>1, <2>2
  <2> QED
    BY <2>1, <2>2, <2>3
<1>4. /\ i.id = 0 /\ i.op = "store" /\ i.slot = slots /\ i.src[1] = u
      /\ DOMAIN i.dst = {} /\ SeqSet(Read(i)) = {u} /\ SetBy(function, i) = {} /\ Stores(i)
  BY StoreIs
<1> HIDE DEF i
<1>5. N2[u] = N[u] /\ N[u] \subseteq Names(function)
  BY <1>1, <1>3 DEF Named
<1>6. Needs(function, i, rng, N2, h)
  <2>1. ASSUME NEW v \in SeqSet(Read(i)), NEW n \in N2[v] PROVE rng[v] \in h[n]
    <3>1. v = u /\ n \in N[u] /\ n \in Names(function)
      BY <1>4, <1>5, <2>1
    <3> QED
      BY <3>1 DEF Unstored
  <2> QED
    BY <1>4, <2>1 DEF Needs
<1>7. ~ (Stores(At) /\ - slots = - At.slot)
  <2>1. Memory(At) => At.slot \in 1 .. slots /\ At.slot # slots
    BY <1>1, <1>2 DEF Coded, SlotsKnown
  <2> QED
    BY <1>1, <2>1 DEF Stores, Memory
<1>8. ASSUME NEW n \in Names(function), NEW x \in a[n] PROVE Justified(function, i, rng, N2, h, n, x)
  <2>1. CASE x = - slots
    <3>1. x \notin Retained(b, k, R, nw, N, W, n)
      BY <1>1, <2>1 DEF Retained
    <3>2. x \in W[b][k][n]
      BY <3>1 DEF Following
    <3>3. Justified(function, At, Slotted, N, W[b][k - 1], n, - slots)
      BY <1>2, <2>1, <3>2 DEF Fits
    <3>4. WritesTo(At, Slotted, - slots)
      BY <1>1, <1>3 DEF WritesTo
    <3>5. Given(function, At, Slotted, N, n, - slots)
      BY <3>3, <3>4 DEF Justified
    <3>6. n \in N[u]
      BY <1>3, <1>7, <3>5 DEF Given, Stores
    <3> QED
      BY <1>4, <1>5, <2>1, <3>6 DEF Justified, Given
  <2>2. CASE x # - slots
    <3>1. x \in h[n]
      BY <2>2 DEF Following, Unstored
    <3>2. ~ WritesTo(i, rng, x)
      BY <1>4, <2>2 DEF WritesTo
    <3> QED
      BY <1>4, <3>1, <3>2 DEF Justified, Keeps
  <2> QED
    BY <2>1, <2>2
<1> QED
  BY <1>6, <1>8 DEF Fits, i

(* Later blocks mention none of the operands that were read. *)
LEMMA FitsElsewhere ==
  ASSUME NEW b, NEW k, NEW l, NEW t, NEW R, NEW nw, NEW dm, NEW u, NEW N, NEW W, NEW rng, NEW N2,
         Stacking(b, k, l, t, R, nw, dm, u, N, W, rng, N2),
         NEW c \in Blocks, b < c, NEW p \in Indices(c), NEW place,
         \A v \in DOMAIN range : v \notin R => place[v] = PlaceAt(c, p)[v]
  PROVE  Fits(function, code[c][p], place, N2, W[c][p - 1], W[c][p])
<1> DEFINE i == code[c][p]
           old == PlaceAt(c, p)
<1>1. /\ Shape /\ Coded /\ Claimed(N, W) /\ Named(N) /\ k \in Indices(b) /\ At = code[b][k] /\ b \in Blocks
      /\ R \subseteq Closing(function, At)
      /\ \A v \in DOMAIN range : N2[v] = N[v]
  BY StackingFacts, SpilledIsClosing
<1>2. Fits(function, i, old, N, W[c][p - 1], W[c][p])
  BY <1>1 DEF Claimed, Claims, Fitting
<1>3. /\ \A d \in DOMAIN i.dst : i.dst[d] \in DOMAIN range
      /\ \A v \in SeqSet(Read(i)) : v \in DOMAIN range
      /\ Matched(function, i) /\ i \in Instructions(Len(range))
      /\ DOMAIN i.src = 1 .. Len(i.src) /\ \A d \in DOMAIN i.src : i.src[d] \in DOMAIN range
  BY <1>1, CodeFacts
<1>4. Operands(i) \cap R = {}
  <2>1. Closing(function, code[b][k]) \cap Operands(i) = {}
    BY <1>1 DEF Coded, ReadLast
  <2> QED
    BY <1>1, <2>1
<1>5. SeqSet(Read(i)) \subseteq Operands(i) /\ \A d \in DOMAIN i.dst : i.dst[d] \in Operands(i)
  <2>1. /\ SeqSet(Read(i)) = SeqSet(i.src) \cup (IF i.both THEN {i.dst[1]} ELSE {})
        /\ i.both => 1 \in DOMAIN i.dst
    BY <1>3, SourcesAreRead
  <2>2. \A d \in DOMAIN i.dst : i.dst[d] \in SeqSet(i.dst)
    BY DEF SeqSet
  <2> QED
    BY <2>1, <2>2 DEF Operands
<1>6. /\ i.op = "load" => Fetched(function, i, N2) = Fetched(function, i, N)
      /\ i.op = "store" => N2[i.src[1]] = N[i.src[1]]
  <2>2. i.op = "load" /\ i.id = 0 => 1 \in DOMAIN i.dst
    <3>1. i.op = "load" /\ i.id = 0 => Len(i.dst) = 1
      BY <1>3 DEF Matched
    <3> QED
      BY <1>1, <3>1, CodeFacts
  <2>3. i.op = "store" => i.id = 0
    BY <1>1, <1>3, MatchedFacts DEF Coded, Shape
  <2>4. i.op = "store" => Len(i.src) = 1
    BY <1>3, <2>3 DEF Matched
  <2>5. i.op = "store" => i.src[1] \in DOMAIN range
    BY <1>3, <2>4
  <2> QED
    BY <1>1, <1>3, <2>2, <2>5 DEF Fetched
<1> HIDE DEF i, old
<1>7. \A v \in Operands(i) : v \in DOMAIN range => place[v] = old[v] /\ N2[v] = N[v]
  BY <1>1, <1>4 DEF old
<1>8. Needs(function, i, place, N2, W[c][p - 1])
  <2>1. ASSUME NEW v \in SeqSet(Read(i)), NEW n \in N2[v] PROVE place[v] \in W[c][p - 1][n]
    BY <1>2, <1>3, <1>5, <1>7, <2>1 DEF Fits, Needs
  <2>2. ASSUME i.op = "load", NEW n \in Fetched(function, i, N2) PROVE - i.slot \in W[c][p - 1][n]
    BY <1>2, <1>6, <2>2 DEF Fits, Needs
  <2> QED
    BY <2>1, <2>2 DEF Needs
<1>9. ASSUME NEW n \in Names(function), NEW x \in W[c][p][n] PROVE Justified(function, i, place, N2, W[c][p - 1], n, x)
  <2>1. Justified(function, i, old, N, W[c][p - 1], n, x)
    BY <1>2 DEF Fits
  <2>2. \A d \in DOMAIN i.dst : (x = place[i.dst[d]] <=> x = old[i.dst[d]]) /\ N[i.dst[d]] = N2[i.dst[d]]
    BY <1>3, <1>5, <1>7
  <2>3. WritesTo(i, place, x) <=> WritesTo(i, old, x)
    BY <2>2 DEF WritesTo
  <2>4. i.op = "store" => N[i.src[1]] \subseteq N2[i.src[1]]
    BY <1>6
  <2> QED
    BY <2>1, <2>2, <2>3, <2>4, JustifiedVia
<1> QED
  BY <1>8, <1>9 DEF Fits, i

(* The claims after each instruction of the rewritten block. *)
After(b, k, l, t, R, nw, u, N, W, rng, p, n) ==
  IF p < k THEN Preceding(b, p, rng, W, n)
  ELSE IF l = 1 /\ p = k THEN Reloaded(b, k, R, nw, N, W, n)
  ELSE IF t = 1 /\ p = k + l THEN Unstored(b, k, R, nw, u, rng, N, W, n)
  ELSE Following(b, p - l - t, R, nw, N, W, n)
Rewritten(b, k, l, t, R, nw, u, N, W, rng, V) ==
  /\ \A c \in Blocks : b < c => V[c] = W[c]
  /\ \A c \in Blocks : c < b => \A p \in 0 .. Len(code[c]) : \A n \in Names(function) :
       V[c][p][n] = Preceding(c, p, rng, W, n)
  /\ \A p \in 0 .. Len(code'[b]) : \A n \in Names(function) :
       V[b][p][n] = After(b, k, l, t, R, nw, u, N, W, rng, p, n)

LEMMA RewrittenAt ==
  ASSUME NEW b, NEW k, NEW l, NEW t, NEW R, NEW nw, NEW dm, NEW u, NEW N, NEW W, NEW rng, NEW N2,
         Stacking(b, k, l, t, R, nw, dm, u, N, W, rng, N2),
         NEW V, Rewritten(b, k, l, t, R, nw, u, N, W, rng, V), NEW n \in Names(function)
  PROVE  /\ \A p \in 0 .. k - 1 : V[b][p][n] = Preceding(b, p, rng, W, n)
         /\ V[b][k - 1][n] = W[b][k - 1][n]
         /\ V[b][k + l - 1][n] = Reloaded(b, k, R, nw, N, W, n)
         /\ t = 1 => V[b][k + l][n] = Unstored(b, k, R, nw, u, rng, N, W, n)
         /\ \A q \in k .. Len(code[b]) : V[b][q + l + t][n] = Following(b, q, R, nw, N, W, n)
<1>1. /\ b \in Blocks /\ k \in Nat /\ k >= 1 /\ Len(code[b]) \in Nat /\ k <= Len(code[b])
      /\ l \in {0, 1} /\ t \in {0, 1} /\ Len(code'[b]) = Len(code[b]) + l + t /\ k \in Indices(b)
  BY MovedShape DEF Stacking
<1>2. \A p \in 0 .. Len(code'[b]) : V[b][p][n] = After(b, k, l, t, R, nw, u, N, W, rng, p, n)
  BY DEF Rewritten
<1> DEFINE len == Len(code[b])
           more == Len(code'[b])
<1>3. len \in Nat /\ k <= len /\ more = len + l + t
  BY <1>1
<1>4. \A p \in 0 .. more : V[b][p][n] = After(b, k, l, t, R, nw, u, N, W, rng, p, n)
  BY <1>2
<1> HIDE DEF len, more
<1>5. \A p \in 0 .. k - 1 : V[b][p][n] = Preceding(b, p, rng, W, n)
  <2> SUFFICES ASSUME NEW p \in 0 .. k - 1 PROVE V[b][p][n] = Preceding(b, p, rng, W, n)
    OBVIOUS
  <2>1. p \in 0 .. more /\ p < k
    BY <1>1, <1>3
  <2> QED
    BY <1>4, <2>1 DEF After
<1>6. V[b][k - 1][n] = W[b][k - 1][n]
  <2>1. k - 1 \in 0 .. k - 1
    BY <1>1
  <2>2. victim \notin W[b][k - 1][n]
    <3>1. k >= k
      BY <1>1
    <3> QED
      BY <1>1, <3>1, SpilledFits
  <2>3. Preceding(b, k - 1, rng, W, n) = W[b][k - 1][n]
    BY <2>2 DEF Preceding
  <2> QED
    BY <1>5, <2>1, <2>3
<1>7. V[b][k + l - 1][n] = Reloaded(b, k, R, nw, N, W, n)
  <2>1. CASE l = 1
    <3>1. k + l - 1 = k /\ k \in 0 .. more /\ ~ (k < k)
      BY <1>1, <1>3, <2>1
    <3>2. After(b, k, l, t, R, nw, u, N, W, rng, k, n) = Reloaded(b, k, R, nw, N, W, n)
      BY <2>1, <3>1 DEF After
    <3> QED
      BY <1>4, <3>1, <3>2
  <2>2. CASE l = 0
    <3>1. R = {}
      <4>1. Stacked(b, k, l, t, R, nw, dm, u)
        BY DEF Stacking
      <4> QED
        BY <2>2, <4>1 DEF Stacked
    <3>2. Reloaded(b, k, R, nw, N, W, n) = W[b][k - 1][n]
      BY <3>1 DEF Reloaded, Shared
    <3>3. k + l - 1 = k - 1
      BY <1>1, <2>2
    <3> QED
      BY <1>6, <3>2, <3>3
  <2> QED
    BY <1>1, <2>1, <2>2
<1>8. ASSUME t = 1 PROVE V[b][k + l][n] = Unstored(b, k, R, nw, u, rng, N, W, n)
  <2>1. k + l \in 0 .. more /\ ~ (k + l < k) /\ ~ (l = 1 /\ k + l = k)
    BY <1>1, <1>3, <1>8
  <2>2. After(b, k, l, t, R, nw, u, N, W, rng, k + l, n) = Unstored(b, k, R, nw, u, rng, N, W, n)
    BY <1>8, <2>1 DEF After
  <2> QED
    BY <1>4, <2>1, <2>2
<1>9. ASSUME NEW q \in k .. len PROVE V[b][q + l + t][n] = Following(b, q, R, nw, N, W, n)
  <2> DEFINE p == q + l + t
  <2>1. p \in 0 .. more /\ ~ (p < k) /\ ~ (l = 1 /\ p = k) /\ ~ (t = 1 /\ p = k + l) /\ p - l - t = q
    BY <1>1, <1>3, <1>9
  <2> HIDE DEF p
  <2>2. After(b, k, l, t, R, nw, u, N, W, rng, p, n) = Following(b, q, R, nw, N, W, n)
    BY <2>1 DEF After
  <2>3. V[b][p][n] = After(b, k, l, t, R, nw, u, N, W, rng, p, n)
    BY <1>4, <2>1
  <2> QED
    BY <2>2, <2>3 DEF p
<1> QED
  BY <1>5, <1>6, <1>7, <1>8, <1>9 DEF len

(* Nothing changes at the ends of the block. *)
LEMMA RewrittenEnds ==
  ASSUME NEW b, NEW k, NEW l, NEW t, NEW R, NEW nw, NEW dm, NEW u, NEW N, NEW W, NEW rng, NEW N2,
         Stacking(b, k, l, t, R, nw, dm, u, N, W, rng, N2),
         NEW V, Rewritten(b, k, l, t, R, nw, u, N, W, rng, V), NEW n \in Names(function), NEW c \in Blocks
  PROVE  V[c][0][n] = W[c][0][n] /\ V[c][Len(code'[c])][n] = W[c][Len(code[c])][n]
<1>1. /\ b \in Blocks /\ k \in Nat /\ k >= 1 /\ Len(code[b]) \in Nat /\ k <= Len(code[b])
      /\ l \in {0, 1} /\ t \in {0, 1} /\ Len(code'[b]) = Len(code[b]) + l + t
      /\ Indices(b) = 1 .. Len(code[b]) /\ \A e \in Blocks : e # b => code'[e] = code[e]
      /\ Shape /\ Coded /\ Claimed(N, W) /\ pc = "spill"
  BY MovedShape DEF Stacking
<1>0. b \in Nat /\ c \in Nat
  BY MovedShape DEF Stacking
<1>2. CASE b < c
  <2>1. V[c] = W[c] /\ c # b
    BY <1>1, <1>2, <1>0 DEF Rewritten
  <2> QED
    BY <1>1, <2>1
<1>4. CASE c < b
  <2>1. Len(code[c]) \in Nat /\ Indices(c) = 1 .. Len(code[c]) /\ c # b
    BY <1>0, <1>4, StackingFacts
  <2>2. ASSUME NEW p \in 0 .. Len(code[c]), p = 0 \/ p = Len(code[c]) PROVE V[c][p][n] = W[c][p][n]
    <3>1. victim \notin W[c][p][n]
      <4> SUFFICES ASSUME victim \in W[c][p][n] PROVE FALSE
        OBVIOUS
      <4>1. AtStore(c, p)
        BY <1>1, <2>2 DEF Claimed, Claims, Raw
      <4>2. p \in Indices(c) /\ p + 1 \in Indices(c)
        BY <1>1, <2>2, <4>1, AtStoreIs
      <4> QED
        BY <2>1, <2>2, <4>2
    <3>2. Preceding(c, p, rng, W, n) = W[c][p][n]
      BY <3>1 DEF Preceding
    <3> QED
      BY <1>4, <2>2, <3>2 DEF Rewritten
  <2>3. code'[c] = code[c] /\ 0 \in 0 .. Len(code[c]) /\ Len(code[c]) \in 0 .. Len(code[c])
    BY <1>1, <2>1
  <2> QED
    BY <2>2, <2>3
<1>3. CASE c = b
  <2>1. 0 \in 0 .. k - 1 /\ 0 \in 0 .. Len(code[b]) /\ Len(code[b]) \in k .. Len(code[b])
    BY <1>1
  <2>2. victim \notin W[b][0][n]
    <3> SUFFICES ASSUME victim \in W[b][0][n] PROVE FALSE
      OBVIOUS
    <3>1. AtStore(b, 0)
      BY <1>1, <2>1 DEF Claimed, Claims, Raw
    <3>2. 0 \in Indices(b)
      BY <1>1, <2>1, <3>1, AtStoreIs
    <3> QED
      BY <1>1, <3>2
  <2>3. Preceding(b, 0, rng, W, n) = W[b][0][n]
    BY <2>2 DEF Preceding
  <2>4. V[b][0][n] = W[b][0][n]
    <3>1. V[b][0][n] = Preceding(b, 0, rng, W, n)
      BY <2>1, RewrittenAt
    <3> QED
      BY <2>3, <3>1
  <2>5. Following(b, Len(code[b]), R, nw, N, W, n) = W[b][Len(code[b])][n]
    <3>1. ~ Mentioned(b, Len(code[b]), R, N, n)
      BY <1>1 DEF Mentioned
    <3> QED
      BY <3>1 DEF Following, Retained
  <2>6. V[b][Len(code[b]) + l + t][n] = Following(b, Len(code[b]), R, nw, N, W, n)
    BY <2>1, RewrittenAt
  <2> QED
    BY <1>1, <1>3, <2>4, <2>5, <2>6
<1> QED
  BY <1>0, <1>2, <1>3, <1>4

(* Where the variables are after the rewriting. *)
LEMMA PlacesMoved ==
  ASSUME NEW b, NEW k, NEW l, NEW t, NEW R, NEW nw, NEW dm, NEW u, NEW N, NEW W, NEW rng, NEW N2,
         Stacking(b, k, l, t, R, nw, dm, u, N, W, rng, N2)
  PROVE  /\ \A p \in 1 .. Len(code'[b]) : p <= k + l + t => PlaceAt(b, p)' = rng
         /\ \A p \in 1 .. Len(code'[b]) : p > k + l + t =>
              \A v \in DOMAIN range : PlaceAt(b, p)'[v] = IF v \in R THEN nw ELSE Slotted[v]
         /\ \A c \in Blocks : c # b => \A p \in Indices(c) :
              /\ \A v \in DOMAIN range : v \notin R => PlaceAt(c, p)'[v] = PlaceAt(c, p)[v]
              /\ Handled(c, p) => PlaceAt(c, p)' = rng
<1>1. /\ Stacked(b, k, l, t, R, nw, dm, u) /\ Shape /\ Coded /\ rng = range'
  BY DEF Stacking
<1>2. /\ UNCHANGED << victim, slots >> /\ pc = "spill" /\ pc' = "spill"
      /\ k \in Nat /\ l \in {0, 1} /\ t \in {0, 1}
  BY <1>1, MovedShape
<1>3. /\ \A a \in Blocks : a # b => \A p \in Indices(a) : Handled(a, p)' <=> Handled(a, p)
      /\ \A p \in 1 .. Len(code'[b]) : Handled(b, p)' <=> p <= k + l + t
  BY <1>1, MovedHandled
<1>4. /\ nw # victim /\ R \subseteq DOMAIN range
      /\ \A v \in DOMAIN range : /\ rng[v] = IF v \in R THEN nw ELSE range[v]
                                 /\ Slotted[v] = IF range[v] = victim THEN - slots ELSE range[v]
      /\ R = { v \in SeqSet(Read(At)) : range[v] = victim }
  BY StackingFacts
<1>5. DOMAIN range \subseteq DOMAIN range'
  BY <1>1 DEF Stacked
<1>6. \A v \in DOMAIN range : Slotted'[v] = IF v \in R THEN nw ELSE Slotted[v]
  <2>1. \A v \in DOMAIN range : Slotted'[v] = IF range'[v] = victim THEN - slots ELSE range'[v]
    BY <1>2, <1>5 DEF Slotted
  <2> QED
    BY <1>1, <1>4, <2>1
<1>7. ASSUME NEW p \in 1 .. Len(code'[b]), p <= k + l + t PROVE PlaceAt(b, p)' = rng
  BY <1>1, <1>3, <1>7 DEF PlaceAt
<1>8. ASSUME NEW p \in 1 .. Len(code'[b]), p > k + l + t PROVE PlaceAt(b, p)' = Slotted'
  <2>1. ~ Handled(b, p)'
    <3>1. p \in Nat
      OBVIOUS
    <3> QED
      BY <1>2, <1>3, <1>8, <3>1
  <2> QED
    BY <1>2, <2>1 DEF PlaceAt
<1>9. ASSUME NEW c \in Blocks, c # b, NEW p \in Indices(c), NEW v \in DOMAIN range, v \notin R
      PROVE PlaceAt(c, p)'[v] = PlaceAt(c, p)[v]
  <2>1. Handled(c, p)' <=> Handled(c, p)
    BY <1>3, <1>9
  <2>2. CASE Handled(c, p)
    <3>1. PlaceAt(c, p)' = range' /\ PlaceAt(c, p) = range
      BY <2>1, <2>2 DEF PlaceAt
    <3> QED
      BY <1>1, <1>4, <1>9, <3>1
  <2>3. CASE ~ Handled(c, p)
    <3>1. PlaceAt(c, p)' = Slotted' /\ PlaceAt(c, p) = Slotted
      BY <1>2, <2>1, <2>3 DEF PlaceAt
    <3> QED
      BY <1>6, <1>9, <3>1
  <2> QED
    BY <2>2, <2>3
<1>10. ASSUME NEW c \in Blocks, c # b, NEW p \in Indices(c), Handled(c, p) PROVE PlaceAt(c, p)' = rng
  BY <1>1, <1>3, <1>10 DEF PlaceAt
<1> QED
  BY <1>6, <1>7, <1>8, <1>9, <1>10

LEMMA RewrittenFits ==
  ASSUME NEW b, NEW k, NEW l, NEW t, NEW R, NEW nw, NEW dm, NEW u, NEW N, NEW W, NEW rng, NEW N2,
         Stacking(b, k, l, t, R, nw, dm, u, N, W, rng, N2),
         NEW V, Rewritten(b, k, l, t, R, nw, u, N, W, rng, V), NEW p \in 1 .. Len(code'[b])
  PROVE  Fits(function, code'[b][p], PlaceAt(b, p)', N2, V[b][p - 1], V[b][p])
<1>1. /\ b \in Blocks /\ k \in Nat /\ k >= 1 /\ Len(code[b]) \in Nat /\ k <= Len(code[b])
      /\ l \in {0, 1} /\ t \in {0, 1} /\ Len(code'[b]) = Len(code[b]) + l + t
      /\ Indices(b) = 1 .. Len(code[b]) /\ At = code[b][k] /\ k \in Indices(b)
      /\ Shape /\ Coded /\ Stacked(b, k, l, t, R, nw, dm, u)
  BY MovedShape DEF Stacking
<1>2. /\ \A q \in 1 .. Len(code'[b]) : q <= k + l + t => PlaceAt(b, q)' = rng
      /\ \A q \in 1 .. Len(code'[b]) : q > k + l + t =>
           \A v \in DOMAIN range : PlaceAt(b, q)'[v] = IF v \in R THEN nw ELSE Slotted[v]
  BY PlacesMoved
<1>3. \A n \in Names(function) :
         /\ \A q \in 0 .. k - 1 : V[b][q][n] = Preceding(b, q, rng, W, n)
         /\ V[b][k - 1][n] = W[b][k - 1][n]
         /\ V[b][k + l - 1][n] = Reloaded(b, k, R, nw, N, W, n)
         /\ t = 1 => V[b][k + l][n] = Unstored(b, k, R, nw, u, rng, N, W, n)
         /\ \A q \in k .. Len(code[b]) : V[b][q + l + t][n] = Following(b, q, R, nw, N, W, n)
  BY RewrittenAt
<1>4. CASE p < k
  <2>1. p \in Indices(b) /\ p \in 0 .. k - 1 /\ p - 1 \in 0 .. k - 1 /\ p <= k + l + t
    BY <1>1, <1>4
  <2>2. code'[b][p] = code[b][p]
    <3>1. p \in 1 .. k - 1
      BY <1>1, <1>4
    <3> QED
      BY <1>1, <3>1 DEF Stacked, Rewrites
  <2>3. Fits(function, code[b][p], rng, N2, V[b][p - 1], V[b][p])
    <3>1. Handled(b, p)
      BY <1>4, <2>1, StackingFacts
    <3>2. \A n \in Names(function) : V[b][p - 1][n] = Preceding(b, p - 1, rng, W, n)
      BY <1>3, <2>1
    <3>3. \A n \in Names(function) : V[b][p][n] = Preceding(b, p, rng, W, n)
      BY <1>3, <2>1
    <3> DEFINE h == V[b][p - 1]
               a == V[b][p]
    <3>4. /\ \A n \in Names(function) : h[n] = Preceding(b, p - 1, rng, W, n)
          /\ \A n \in Names(function) : a[n] = Preceding(b, p, rng, W, n)
      BY <3>2, <3>3
    <3>5. b \in Blocks /\ p \in Indices(b)
      BY <1>1, <2>1
    <3> HIDE DEF h, a
    <3>6. Fits(function, code[b][p], rng, N2, h, a)
      BY <3>1, <3>4, <3>5, FitsBefore
    <3> QED
      BY <3>6 DEF h, a
  <2> QED
    BY <1>2, <2>1, <2>2, <2>3
<1>5. CASE l = 1 /\ p = k
  <2>1. p <= k + l + t /\ k + l - 1 = p
    BY <1>1, <1>5
  <2>2. code'[b][p] = Load(dm)
    BY <1>1, <1>5 DEF Stacked
  <2>3. Fits(function, Load(dm), rng, N2, V[b][p - 1], V[b][p])
    <3>1. \A n \in Names(function) : V[b][p - 1][n] = W[b][k - 1][n]
      BY <1>3, <1>5
    <3>2. \A n \in Names(function) : V[b][p][n] = Reloaded(b, k, R, nw, N, W, n)
      BY <1>3, <2>1
    <3> QED
      BY <1>5, <3>1, <3>2, FitsLoad
  <2> QED
    BY <1>2, <2>1, <2>2, <2>3
<1>6. CASE p = k + l
  <2>1. p <= k + l + t /\ k + l - 1 = p - 1
    BY <1>1, <1>6
  <2>2. code'[b][p] = At
    BY <1>1, <1>6 DEF Stacked
  <2>3. \A n \in Names(function) : V[b][p - 1][n] = Reloaded(b, k, R, nw, N, W, n)
    BY <1>3, <2>1
  <2>4. \A n \in Names(function) :
           V[b][p][n] = IF t = 1 THEN Unstored(b, k, R, nw, u, rng, N, W, n) ELSE Following(b, k, R, nw, N, W, n)
    <3> SUFFICES ASSUME NEW n \in Names(function)
                 PROVE V[b][p][n] = IF t = 1 THEN Unstored(b, k, R, nw, u, rng, N, W, n)
                                    ELSE Following(b, k, R, nw, N, W, n)
      OBVIOUS
    <3>1. CASE t = 1
      BY <1>3, <1>6, <3>1
    <3>2. CASE t = 0
      <4>1. k \in k .. Len(code[b]) /\ k + l + t = p
        BY <1>1, <1>6, <3>2
      <4> QED
        BY <1>3, <3>2, <4>1
    <3> QED
      BY <1>1, <3>1, <3>2
  <2>5. Fits(function, At, rng, N2, V[b][p - 1], V[b][p])
    BY <2>3, <2>4, FitsAt
  <2> QED
    BY <1>2, <2>1, <2>2, <2>5
<1>7. CASE t = 1 /\ p = k + l + 1
  <2>1. p <= k + l + t /\ k + l = p - 1 /\ k + l + t = p /\ k \in k .. Len(code[b])
    BY <1>1, <1>7
  <2>2. code'[b][p] = Store(u)
    BY <1>1, <1>7 DEF Stacked
  <2>3. \A n \in Names(function) : V[b][p - 1][n] = Unstored(b, k, R, nw, u, rng, N, W, n)
    BY <1>3, <1>7, <2>1
  <2>4. \A n \in Names(function) : V[b][p][n] = Following(b, k, R, nw, N, W, n)
    BY <1>3, <2>1
  <2>5. Fits(function, Store(u), rng, N2, V[b][p - 1], V[b][p])
    BY <1>7, <2>3, <2>4, FitsStore
  <2> QED
    BY <1>2, <2>1, <2>2, <2>5
<1>8. CASE p > k + l + t
  <2> DEFINE q == p - l - t
  <2>1. /\ q \in Indices(b) /\ q > k /\ q + l + t = p /\ (q - 1) + l + t = p - 1
        /\ q \in k .. Len(code[b]) /\ q - 1 \in k .. Len(code[b])
    BY <1>1, <1>8
  <2>2. code'[b][p] = code[b][q]
    <3> DEFINE L == l + 1 + t
    <3>1. p \in k + L .. Len(code[b]) + L - 1 /\ p - L + 1 = q
      <4> DEFINE len == Len(code[b])
      <4>1. len \in Nat /\ p \in 1 .. len + l + t
        BY <1>1
      <4> HIDE DEF len
      <4>2. p \in k + L .. len + L - 1 /\ p - L + 1 = q
        BY <1>1, <1>8, <4>1
      <4> QED
        BY <4>2 DEF len
    <3>2. Rewrites(b, k, L)
      BY <1>1 DEF Stacked
    <3> HIDE DEF L, q
    <3> QED
      BY <3>1, <3>2 DEF Rewrites
  <2> HIDE DEF q
  <2>3. \A n \in Names(function) : V[b][p][n] = Following(b, q, R, nw, N, W, n)
    BY <1>3, <2>1
  <2>4. \A n \in Names(function) : V[b][p - 1][n] = Following(b, q - 1, R, nw, N, W, n)
    <3> DEFINE e == q - 1
    <3>1. e \in k .. Len(code[b]) /\ e + l + t = p - 1
      BY <2>1
    <3> HIDE DEF e
    <3>2. \A n \in Names(function) : V[b][p - 1][n] = Following(b, e, R, nw, N, W, n)
      BY <1>3, <3>1
    <3> QED
      BY <3>2 DEF e
  <2>5. \A v \in DOMAIN range : PlaceAt(b, p)'[v] = IF v \in R THEN nw ELSE Slotted[v]
    BY <1>2, <1>8
  <2>6. Fits(function, code[b][q], PlaceAt(b, p)', N2, V[b][p - 1], V[b][p])
    BY <2>1, <2>3, <2>4, <2>5, FitsAfter
  <2> QED
    BY <2>2, <2>6
<1>9. p < k \/ (l = 1 /\ p = k) \/ p = k + l \/ (t = 1 /\ p = k + l + 1) \/ p > k + l + t
  <2>1. p \in Nat
    OBVIOUS
  <2> QED
    BY <1>1, <2>1
<1> QED
  BY <1>4, <1>5, <1>6, <1>7, <1>8, <1>9

-----------------------------------------------------------------------------
(* What the instructions mention afterwards. *)
LEMMA OperandsAreNamed ==
  ASSUME Shape, Coded, NEW c \in Blocks, NEW p \in Indices(c)
  PROVE  Operands(code[c][p]) \subseteq DOMAIN range
<1>1. /\ \A d \in DOMAIN code[c][p].dst : code[c][p].dst[d] \in DOMAIN range
      /\ \A d \in DOMAIN code[c][p].src : code[c][p].src[d] \in DOMAIN range
  BY CodeFacts
<1> QED
  BY <1>1 DEF Operands, SeqSet

(* Instruction p of the block is one that was there, q, one that mentions  *)
(* dm only, or one that mentions what At computes only.                    *)
IsOld(b, k, l, t, p, q) == q \in Indices(b) /\ Was(k, l, t, p, q) /\ code'[b][p] = code[b][q]
IsLoad(b, k, l, dm, p) == l = 1 /\ p = k /\ code'[b][p] = Load(dm)
IsStore(b, k, l, t, u, p) == t = 1 /\ p = k + l + 1 /\ code'[b][p] = Store(u)

LEMMA MovedIs ==
  ASSUME Shape, Coded, NEW b, NEW k, NEW l, NEW t, NEW R, NEW nw, NEW dm, NEW u, Stacked(b, k, l, t, R, nw, dm, u),
         NEW p \in 1 .. Len(code'[b])
  PROVE  IsLoad(b, k, l, dm, p) \/ IsStore(b, k, l, t, u, p) \/ \E q : IsOld(b, k, l, t, p, q)
BY MovedPositions DEF IsOld, IsLoad, IsStore

LEMMA ComputesStored ==
  ASSUME Shape, Coded, NEW b, NEW k, NEW l, NEW t, NEW R, NEW nw, NEW dm, NEW u, Stacked(b, k, l, t, R, nw, dm, u),
         t = 1
  PROVE  /\ u \in SeqSet(At.dst) /\ u \in Operands(At) /\ u \in DOMAIN range /\ u # dm /\ range[u] = victim
         /\ At.dst = << u >>
<1>1. /\ b \in Blocks /\ k \in Indices(b) /\ At = code[b][k]
  BY MovedShape
<1>2. Len(At.dst) = 1 /\ u = At.dst[1] /\ range[u] = victim /\ dm \notin DOMAIN range
  BY DEF Stacked
<1>3. /\ At \in Instr /\ DOMAIN At.dst = 1 .. Len(At.dst) /\ \A d \in DOMAIN At.dst : At.dst[d] \in DOMAIN range
  BY <1>1, CodeFacts
<1>4. DOMAIN At.dst = 1 .. 1
  BY <1>2, <1>3
<1>5. 1 \in DOMAIN At.dst
  BY <1>4
<1>6. At.dst = << u >>
  <2> DEFINE s == At.dst
             T == Nat \ {0}
  <2>1. s \in Seq(T) /\ Len(s) = 1 /\ s[1] = u
    BY <1>2, <1>3 DEF Instr
  <2> HIDE DEF s, T
  <2>2. s = << s[1] >>
    BY <2>1
  <2> QED
    BY <2>1, <2>2 DEF s
<1> QED
  BY <1>2, <1>3, <1>5, <1>6 DEF SeqSet, Operands

LEMMA MovedOperands ==
  ASSUME Shape, Coded, NEW b, NEW k, NEW l, NEW t, NEW R, NEW nw, NEW dm, NEW u, Stacked(b, k, l, t, R, nw, dm, u),
         NEW p \in 1 .. Len(code'[b]), NEW v \in Operands(code'[b][p])
  PROVE  \/ v = dm /\ IsLoad(b, k, l, dm, p)
         \/ v = u /\ IsStore(b, k, l, t, u, p) /\ v \in DOMAIN range
         \/ v \in DOMAIN range /\ \E q : IsOld(b, k, l, t, p, q) /\ v \in Operands(code[b][q])
<1>1. CASE IsLoad(b, k, l, dm, p)
  BY <1>1, LoadIs DEF IsLoad
<1>2. CASE IsStore(b, k, l, t, u, p)
  <2>1. t = 1 /\ code'[b][p] = Store(u)
    BY <1>2 DEF IsStore
  <2>2. u \in DOMAIN range
    BY <2>1, ComputesStored
  <2> QED
    BY <1>2, <2>1, <2>2, StoreIs
<1>3. ASSUME NEW q, IsOld(b, k, l, t, p, q)
      PROVE v \in DOMAIN range /\ v \in Operands(code[b][q])
  <2>1. b \in Blocks /\ q \in Indices(b) /\ code'[b][p] = code[b][q]
    BY <1>3, MovedShape DEF IsOld
  <2> QED
    BY <2>1, OperandsAreNamed
<1> QED
  BY <1>1, <1>2, <1>3, MovedIs

LEMMA RewrittenSteady ==
  ASSUME NEW b, NEW k, NEW l, NEW t, NEW R, NEW nw, NEW dm, NEW u, NEW N, NEW W, NEW rng, NEW N2,
         Stacking(b, k, l, t, R, nw, dm, u, N, W, rng, N2),
         NEW q \in 1 .. Len(code'[b]), NEW r \in 1 .. Len(code'[b]), q < r,
         NEW v \in Closing(function, code'[b][q]) \cap Operands(code'[b][r])
  PROVE  /\ v \notin SeqSet(code'[b][r].dst)
         /\ \A m \in q .. r : \/ m = q /\ v \in SeqSet(code'[b][q].dst)
                             \/ N2[v] \cap SetBy(function, code'[b][m]) = {}
<1>1. /\ Shape /\ Coded /\ Stacked(b, k, l, t, R, nw, dm, u) /\ Steady(N)
  BY DEF Stacking, Claimed
<1>2. /\ b \in Blocks /\ k \in Indices(b) /\ k \in Nat /\ l \in {0, 1} /\ t \in {0, 1}
      /\ Indices(b) = 1 .. Len(code[b]) /\ Len(code[b]) \in Nat /\ At = code[b][k]
  BY <1>1, MovedShape
<1>3. \A w \in DOMAIN range : N2[w] = N[w] /\ w # dm
  BY StackingFacts
<1>0. v \in Operands(code'[b][q]) /\ v \in Operands(code'[b][r])
  BY DEF Closing
<1>4. v # dm
  <2> SUFFICES ASSUME v = dm PROVE FALSE
    OBVIOUS
  <2>1. IsLoad(b, k, l, dm, q) /\ IsLoad(b, k, l, dm, r)
    BY <1>0, <1>1, <1>3, MovedOperands
  <2> QED
    BY <2>1 DEF IsLoad
<1>5. v \in DOMAIN range /\ N2[v] = N[v]
  BY <1>0, <1>1, <1>3, <1>4, MovedOperands
<1>6. \/ v = u /\ IsStore(b, k, l, t, u, q) /\ WrittenWhenSettled(function)
      \/ \E q0 : IsOld(b, k, l, t, q, q0) /\ v \in Closing(function, code[b][q0])
  <2>1. v \in Operands(code'[b][q])
    BY <1>0
  <2>3. IsStore(b, k, l, t, u, q) => WrittenWhenSettled(function)
    BY StoreIs DEF IsStore, Closing
  <2>4. \A q0 : IsOld(b, k, l, t, q, q0) => v \in Closing(function, code[b][q0])
    BY DEF IsOld
  <2>2. \/ v = dm /\ IsLoad(b, k, l, dm, q)
        \/ v = u /\ IsStore(b, k, l, t, u, q) /\ v \in DOMAIN range
        \/ v \in DOMAIN range /\ \E q0 : IsOld(b, k, l, t, q, q0) /\ v \in Operands(code[b][q0])
    BY <1>1, <2>1, MovedOperands
  <2> QED
    BY <1>4, <2>2, <2>3, <2>4
<1>7. \/ v = u /\ IsStore(b, k, l, t, u, r)
      \/ \E r0 : IsOld(b, k, l, t, r, r0) /\ v \in Operands(code[b][r0])
  <2>1. v \in Operands(code'[b][r])
    OBVIOUS
  <2>2. \/ v = dm /\ IsLoad(b, k, l, dm, r)
        \/ v = u /\ IsStore(b, k, l, t, u, r) /\ v \in DOMAIN range
        \/ v \in DOMAIN range /\ \E r0 : IsOld(b, k, l, t, r, r0) /\ v \in Operands(code[b][r0])
    BY <1>1, <2>1, MovedOperands
  <2> QED
    BY <1>4, <2>2
<1>8. ASSUME NEW q0 \in Indices(b), NEW r0 \in Indices(b), q0 < r0,
             v \in Closing(function, code[b][q0]), v \in Operands(code[b][r0])
      PROVE /\ v \notin SeqSet(code[b][r0].dst)
            /\ \A m \in q0 .. r0 : \/ m = q0 /\ v \in SeqSet(code[b][q0].dst)
                                   \/ N[v] \cap SetBy(function, code[b][m]) = {}
  BY <1>1, <1>2, <1>8 DEF Steady
<1>9. ASSUME NEW m \in 1 .. Len(code'[b])
      PROVE SetBy(function, code'[b][m]) = {} \/ \E m0 : IsOld(b, k, l, t, m, m0)
  BY <1>1, MovedIs, LoadIs, StoreIs DEF IsLoad, IsStore
<1>a. \A m \in q .. r : m \in 1 .. Len(code'[b]) /\ m \in Nat
  <2> DEFINE more == Len(code'[b])
  <2>1. more \in Nat /\ q \in 1 .. more /\ r \in 1 .. more
    BY <1>1, <1>2, MovedShape
  <2> HIDE DEF more
  <2>2. \A m \in q .. r : m \in 1 .. more /\ m \in Nat
    BY <2>1
  <2> QED
    BY <2>2 DEF more
<1>b. \A e, e2, f, f2 \in Nat : Was(k, l, t, e, f) /\ Was(k, l, t, e2, f2) =>
        (e < e2 <=> f < f2) /\ (e = e2 <=> f = f2)
  <2>1. k \in Nat /\ l \in {0, 1} /\ t \in {0, 1}
    BY <1>2
  <2> QED
    BY <2>1 DEF Was
<1>10. CASE v = u /\ IsStore(b, k, l, t, u, r)
  <2>1. t = 1 /\ code'[b][r] = Store(u) /\ r = k + l + 1
    BY <1>10 DEF IsStore
  <2>2. v \in SeqSet(At.dst) /\ v \in Operands(At)
    BY <1>1, <1>10, <2>1, ComputesStored
  <2>3. PICK q0 : IsOld(b, k, l, t, q, q0) /\ v \in Closing(function, code[b][q0])
    <3>1. ~ IsStore(b, k, l, t, u, q)
      BY <2>1 DEF IsStore
    <3> QED
      BY <1>6, <3>1
  <2>4. q0 \in Indices(b) /\ Was(k, l, t, q, q0) /\ code'[b][q] = code[b][q0] /\ q0 \in Nat /\ q \in Nat
    BY <1>2, <1>a, <2>3 DEF IsOld
  <2>5. q0 <= k /\ (q0 = k => q = k + l)
    BY <1>2, <2>1, <2>4 DEF Was
  <2>6. q0 = k
    <3>1. q0 < k => v \notin SeqSet(code[b][k].dst)
      BY <1>2, <1>8, <2>2, <2>3, <2>4
    <3> QED
      BY <1>2, <2>2, <2>4, <2>5, <3>1
  <2>7. \A m \in q .. r : m = q \/ m = r
    BY <1>2, <2>1, <2>5, <2>6
  <2>8. v \in SeqSet(code'[b][q].dst)
    BY <1>2, <2>2, <2>4, <2>6
  <2> QED
    BY <2>1, <2>7, <2>8, StoreIs
<1>11. ASSUME NEW r0, IsOld(b, k, l, t, r, r0), v \in Operands(code[b][r0])
       PROVE /\ v \notin SeqSet(code'[b][r].dst)
             /\ \A m \in q .. r : \/ m = q /\ v \in SeqSet(code'[b][q].dst)
                                 \/ N[v] \cap SetBy(function, code'[b][m]) = {}
  <2>1. r0 \in Indices(b) /\ Was(k, l, t, r, r0) /\ code'[b][r] = code[b][r0] /\ r0 \in Nat /\ r \in Nat
    BY <1>2, <1>11 DEF IsOld
  <2>2. CASE v = u /\ IsStore(b, k, l, t, u, q) /\ WrittenWhenSettled(function)
    <3>1. t = 1 /\ q = k + l + 1 /\ code'[b][q] = Store(u)
      BY <2>2 DEF IsStore
    <3>2. v \in Closing(function, code[b][k])
      BY <1>1, <1>2, <2>2, <3>1, ComputesStored DEF Closing
    <3>3. k < r0
      BY <1>2, <2>1, <3>1 DEF Was
    <3>4. /\ v \notin SeqSet(code[b][r0].dst)
          /\ \A m \in k .. r0 : \/ m = k /\ v \in SeqSet(code[b][k].dst)
                                \/ N[v] \cap SetBy(function, code[b][m]) = {}
      BY <1>2, <1>8, <1>11, <2>1, <3>2, <3>3
    <3>5. ASSUME NEW m \in q .. r PROVE N[v] \cap SetBy(function, code'[b][m]) = {}
      <4>1. CASE SetBy(function, code'[b][m]) = {}
        BY <4>1
      <4>2. ASSUME NEW m0, IsOld(b, k, l, t, m, m0) PROVE N[v] \cap SetBy(function, code'[b][m]) = {}
        <5>1. m0 \in Nat /\ m \in Nat /\ Was(k, l, t, m, m0) /\ code'[b][m] = code[b][m0]
          BY <1>2, <1>a, <3>5, <4>2 DEF IsOld
        <5>2. m0 > k
          BY <1>2, <3>1, <3>5, <5>1 DEF Was
        <5>3. m0 <= r0
          <6>1. m < r \/ m = r
            BY <2>1, <3>5, <5>1
          <6>2. m0 < r0 \/ m0 = r0
            BY <1>b, <2>1, <5>1, <6>1
          <6> QED
            BY <2>1, <5>1, <6>2
        <5>4. m0 \in k .. r0 /\ m0 # k
          BY <1>2, <2>1, <5>1, <5>2, <5>3
        <5> QED
          BY <3>4, <5>1, <5>4
      <4> QED
        BY <1>9, <1>a, <3>5, <4>1, <4>2
    <3> QED
      BY <2>1, <3>4, <3>5
  <2>3. ASSUME NEW q0, IsOld(b, k, l, t, q, q0), v \in Closing(function, code[b][q0])
        PROVE /\ v \notin SeqSet(code'[b][r].dst)
              /\ \A m \in q .. r : \/ m = q /\ v \in SeqSet(code'[b][q].dst)
                                  \/ N[v] \cap SetBy(function, code'[b][m]) = {}
    <3>1. q0 \in Indices(b) /\ Was(k, l, t, q, q0) /\ code'[b][q] = code[b][q0] /\ q0 \in Nat /\ q \in Nat
      BY <1>2, <2>3 DEF IsOld
    <3>2. q0 < r0
      BY <1>b, <2>1, <3>1
    <3>4. /\ v \notin SeqSet(code[b][r0].dst)
          /\ \A m \in q0 .. r0 : \/ m = q0 /\ v \in SeqSet(code[b][q0].dst)
                                 \/ N[v] \cap SetBy(function, code[b][m]) = {}
      BY <1>8, <1>11, <2>1, <2>3, <3>1, <3>2
    <3>5. ASSUME NEW m \in q .. r
          PROVE \/ m = q /\ v \in SeqSet(code'[b][q].dst)
                \/ N[v] \cap SetBy(function, code'[b][m]) = {}
      <4>1. CASE SetBy(function, code'[b][m]) = {}
        BY <4>1
      <4>2. ASSUME NEW m0, IsOld(b, k, l, t, m, m0)
            PROVE \/ m = q /\ v \in SeqSet(code'[b][q].dst)
                  \/ N[v] \cap SetBy(function, code'[b][m]) = {}
        <5>1. m0 \in Nat /\ m \in Nat /\ Was(k, l, t, m, m0) /\ code'[b][m] = code[b][m0]
          BY <1>2, <1>a, <3>5, <4>2 DEF IsOld
        <5>2. q0 < m0 \/ q0 = m0
          <6>1. q < m \/ q = m
            BY <3>1, <3>5, <5>1
          <6> QED
            BY <1>b, <3>1, <5>1, <6>1
        <5>3. m0 < r0 \/ m0 = r0
          <6>1. m < r \/ m = r
            BY <2>1, <3>5, <5>1
          <6> QED
            BY <1>b, <2>1, <5>1, <6>1
        <5>4. m0 \in q0 .. r0
          BY <2>1, <3>1, <5>1, <5>2, <5>3
        <5>5. m0 = q0 => m = q
          BY <1>b, <3>1, <5>1
        <5> QED
          BY <3>1, <3>4, <5>1, <5>4, <5>5
      <4> QED
        BY <1>9, <1>a, <3>5, <4>1, <4>2
    <3> QED
      BY <2>1, <3>4, <3>5
  <2> QED
    BY <1>6, <2>2, <2>3
<1> QED
  BY <1>5, <1>7, <1>10, <1>11

LEMMA RewrittenNames ==
  ASSUME NEW b, NEW k, NEW l, NEW t, NEW R, NEW nw, NEW dm, NEW u, NEW N, NEW W, NEW rng, NEW N2,
         Stacking(b, k, l, t, R, nw, dm, u, N, W, rng, N2)
  PROVE  Named(N2)' /\ Steady(N2)'
<1>1. /\ Shape /\ Coded /\ Stacked(b, k, l, t, R, nw, dm, u) /\ Steady(N) /\ Named(N)
      /\ N2 = [v \in DOMAIN range' |-> IF v = dm THEN UNION { N[w] : w \in R } ELSE N[v]]
  BY DEF Stacking, Claimed
<1>2. /\ UNCHANGED function /\ Blocks' = Blocks /\ b \in Blocks
      /\ \A a \in Blocks : Indices(a) = 1 .. Len(code[a]) /\ Indices(a)' = 1 .. Len(code'[a])
      /\ \A a \in Blocks : a # b => code'[a] = code[a]
  BY <1>1, MovedShape
<1>3. /\ \A w \in DOMAIN range : N2[w] = N[w] /\ w # dm
      /\ R \subseteq DOMAIN range /\ dm \notin DOMAIN range
  BY StackingFacts
<1>4. DOMAIN range' = DOMAIN range \cup (IF l = 1 THEN {dm} ELSE {}) /\ DOMAIN function.name \subseteq DOMAIN range
  BY <1>1 DEF Stacked, Coded, FromSource
<1>5. Named(N2)'
  <2>1. DOMAIN N2 = DOMAIN range'
    BY <1>1
  <2>2. \A v \in DOMAIN range : N[v] \subseteq Names(function)
    BY <1>1 DEF Named
  <2>3. ASSUME NEW v \in DOMAIN N2 PROVE N2[v] \subseteq Names(function)
    <3>1. CASE v = dm
      BY <1>1, <1>3, <2>1, <2>2, <3>1
    <3>2. CASE v # dm
      BY <1>3, <1>4, <2>1, <2>2, <3>2
    <3> QED
      BY <3>1, <3>2
  <2>4. \A v \in DOMAIN function.name : N2[v] = {function.name[v]}
    BY <1>1, <1>3, <1>4 DEF Named
  <2> QED
    BY <1>2, <2>1, <2>3, <2>4 DEF Named
<1>6. ASSUME NEW c \in Blocks', NEW q \in Indices(c)', NEW r \in Indices(c)', q < r,
             NEW v \in Closing(function', code'[c][q]) \cap Operands(code'[c][r])
      PROVE /\ v \notin SeqSet(code'[c][r].dst)
            /\ \A m \in q .. r : \/ m = q /\ v \in SeqSet(code'[c][q].dst)
                                \/ N2[v] \cap SetBy(function', code'[c][m]) = {}
  <2>1. c \in Blocks /\ q \in 1 .. Len(code'[c]) /\ r \in 1 .. Len(code'[c])
    BY <1>2
  <2>2. CASE c = b
    BY <1>2, <1>6, <2>1, <2>2, RewrittenSteady
  <2>3. CASE c # b
    <3>1. code'[c] = code[c] /\ q \in Indices(c) /\ r \in Indices(c)
      BY <1>2, <2>1, <2>3
    <3>2. v \in Closing(function, code[c][q]) \cap Operands(code[c][r]) /\ v \in Operands(code[c][q])
      BY <1>2, <1>6, <3>1 DEF Closing
    <3>3. N2[v] = N[v]
      BY <1>1, <1>3, <2>1, <3>1, <3>2, OperandsAreNamed
    <3>4. /\ v \notin SeqSet(code[c][r].dst)
          /\ \A m \in q .. r : \/ m = q /\ v \in SeqSet(code[c][q].dst)
                              \/ N[v] \cap SetBy(function, code[c][m]) = {}
      BY <1>1, <1>6, <2>1, <3>1, <3>2 DEF Steady
    <3> QED
      BY <1>2, <3>1, <3>3, <3>4
  <2> QED
    BY <2>2, <2>3
<1>7. Steady(N2)'
  BY <1>6 DEF Steady
<1> QED
  BY <1>5, <1>7

(* What is claimed of the rewritten block, case by case. *)
LEMMA RewrittenSplits ==
  ASSUME NEW b, NEW k, NEW l, NEW t, NEW R, NEW nw, NEW dm, NEW u, NEW N, NEW W, NEW rng, NEW N2,
         Stacking(b, k, l, t, R, nw, dm, u, N, W, rng, N2),
         NEW V, Rewritten(b, k, l, t, R, nw, u, N, W, rng, V), NEW n \in Names(function),
         NEW p \in 0 .. Len(code'[b]), NEW x \in V[b][p][n]
  PROVE  \/ x # victim /\ \E q \in 0 .. Len(code[b]) : x \in W[b][q][n]
         \/ x = nw /\ R # {}
         \/ p < k /\ p \in 0 .. Len(code[b]) /\ victim \in W[b][p][n] /\ x = rng[code[b][p + 1].src[1]]
         \/ t = 1 /\ p = k + l /\ x = rng[u]
<1>1. /\ b \in Blocks /\ k \in Nat /\ k >= 1 /\ Len(code[b]) \in Nat /\ k <= Len(code[b])
      /\ l \in {0, 1} /\ t \in {0, 1} /\ Len(code'[b]) = Len(code[b]) + l + t
      /\ Indices(b) = 1 .. Len(code[b]) /\ k \in Indices(b)
  BY MovedShape DEF Stacking
<1>2. ASSUME NEW q \in k .. Len(code[b])
      PROVE /\ q \in 0 .. Len(code[b]) /\ q - 1 \in 0 .. Len(code[b])
            /\ victim \notin W[b][q][n] /\ victim \notin W[b][q - 1][n]
  <2>1. q \in Indices(b) /\ q >= k
    BY <1>1
  <2> QED
    BY <2>1, SpilledFits
<1>a. k \in k .. Len(code[b])
  BY <1>1
<1>3. \A q : \A y \in Retained(b, q, R, nw, N, W, n) : y = nw /\ R # {}
  BY DEF Retained, Mentioned
<1>4. CASE p < k
  <2>1. p \in 0 .. k - 1 /\ p \in 0 .. Len(code[b])
    BY <1>1, <1>4
  <2>2. x \in Preceding(b, p, rng, W, n)
    BY <2>1, RewrittenAt
  <2>3. PICK y \in W[b][p][n] : x = IF y = victim THEN rng[code[b][p + 1].src[1]] ELSE y
    BY <2>2 DEF Preceding
  <2> QED
    BY <1>4, <2>1, <2>3
<1>5. CASE l = 1 /\ p = k
  <2>1. k + l - 1 = p
    BY <1>1, <1>5
  <2>2. x \in Reloaded(b, k, R, nw, N, W, n)
    BY <2>1, RewrittenAt
  <2>3. x \in W[b][k - 1][n] \/ (x = nw /\ R # {})
    BY <2>2 DEF Reloaded, Shared
  <2> QED
    BY <1>2, <1>a, <2>3
<1>6. CASE t = 1 /\ p = k + l
  <2>1. x \in Unstored(b, k, R, nw, u, rng, N, W, n)
    BY <1>6, RewrittenAt
  <2>2. x \in W[b][k][n] \/ x = rng[u] \/ x \in Retained(b, k, R, nw, N, W, n)
    BY <2>1 DEF Unstored
  <2> QED
    BY <1>2, <1>3, <1>6, <1>a, <2>2
<1>7. CASE ~ (p < k) /\ ~ (l = 1 /\ p = k) /\ ~ (t = 1 /\ p = k + l)
  <2> DEFINE q == p - l - t
             len == Len(code[b])
  <2>1. q \in k .. len /\ q + l + t = p
    <3>1. len \in Nat /\ p \in 0 .. len + l + t
      BY <1>1
    <3> HIDE DEF len
    <3> QED
      BY <1>1, <1>7, <3>1
  <2> HIDE DEF q
  <2>2. x \in Following(b, q, R, nw, N, W, n)
    BY <2>1, RewrittenAt
  <2>3. x \in W[b][q][n] \/ x \in Retained(b, q, R, nw, N, W, n)
    BY <2>2 DEF Following
  <2> QED
    BY <1>2, <1>3, <2>1, <2>3
<1> QED
  BY <1>4, <1>5, <1>6, <1>7

LEMMA RewrittenLocated ==
  ASSUME NEW b, NEW k, NEW l, NEW t, NEW R, NEW nw, NEW dm, NEW u, NEW N, NEW W, NEW rng, NEW N2,
         Stacking(b, k, l, t, R, nw, dm, u, N, W, rng, N2),
         NEW V, Rewritten(b, k, l, t, R, nw, u, N, W, rng, V)
  PROVE  Located(V)'
<1>1. /\ Shape /\ Coded /\ Stacked(b, k, l, t, R, nw, dm, u) /\ Located(W) /\ rng = range' /\ Claimed(N, W)
  BY DEF Stacking, Claimed, Claims
<1>2. /\ UNCHANGED << function, slots >> /\ Blocks' = Blocks /\ b \in Blocks /\ k \in Nat /\ pc = "spill"
      /\ \A a \in Blocks : a # b => code'[a] = code[a]
  BY <1>1, MovedShape
<1>3. /\ R # {} => nw \in Ranges'
      /\ Ranges \subseteq Ranges' /\ l \in {0, 1} /\ (l = 0 => R = {})
  BY <1>1 DEF Stacked
<1>4. \A v \in DOMAIN range : rng[v] \in Ranges'
  <2>1. \A v \in DOMAIN range : /\ rng[v] = IF v \in R THEN nw ELSE range[v]
                                /\ range[v] \in Ranges
    BY StackingFacts
  <2> QED
    BY <1>3, <2>1
<1>5. ASSUME NEW p \in 0 .. Len(code'[b]), NEW n \in Names(function), NEW x \in V[b][p][n]
      PROVE x \in Ranges' \/ (x \in Int /\ x < 0 /\ - x <= slots)
  <2>1. CASE \E q \in 0 .. Len(code[b]) : x \in W[b][q][n]
    BY <1>1, <1>2, <1>3, <2>1 DEF Located
  <2>2. CASE x = nw /\ R # {}
    BY <1>3, <2>2
  <2>3. CASE p < k /\ p \in 0 .. Len(code[b]) /\ victim \in W[b][p][n] /\ x = rng[code[b][p + 1].src[1]]
    <3>1. AtStore(b, p)
      BY <1>1, <1>2, <2>3 DEF Claimed, Claims, Raw
    <3>2. code[b][p + 1].src[1] \in DOMAIN range
      BY <1>1, <1>2, <2>3, <3>1, AtStoreIs
    <3> QED
      BY <1>4, <2>3, <3>2
  <2>4. CASE t = 1 /\ p = k + l /\ x = rng[u]
    <3>1. u \in DOMAIN range
      BY <1>1, <2>4, ComputesStored
    <3> QED
      BY <1>4, <2>4, <3>1
  <2> QED
    BY <2>1, <2>2, <2>3, <2>4, RewrittenSplits
<1>6. ASSUME NEW c \in Blocks, NEW p \in 0 .. Len(code'[c]), NEW n \in Names(function), NEW x \in V[c][p][n]
      PROVE x \in Ranges' \/ (x \in Int /\ x < 0 /\ - x <= slots)
  <2>1. CASE c = b
    BY <1>5, <1>6, <2>1
  <2>2. CASE b < c /\ c # b
    <3>1. V[c] = W[c] /\ code'[c] = code[c]
      BY <1>2, <2>2 DEF Rewritten
    <3> QED
      BY <1>1, <1>3, <1>6, <3>1 DEF Located
  <2>3. CASE c < b /\ c # b
    <3>1. p \in 0 .. Len(code[c])
      BY <1>2, <1>6, <2>3
    <3>2. PICK y \in W[c][p][n] : x = IF y = victim THEN rng[code[c][p + 1].src[1]] ELSE y
      BY <1>6, <2>3, <3>1 DEF Rewritten, Preceding
    <3>3. CASE y = victim
      <4>1. AtStore(c, p)
        BY <1>1, <1>2, <3>1, <3>2, <3>3 DEF Claimed, Claims, Raw
      <4>2. code[c][p + 1].src[1] \in DOMAIN range
        BY <1>1, <1>2, <3>1, <4>1, AtStoreIs
      <4> QED
        BY <1>4, <3>2, <3>3, <4>2
    <3>4. CASE y # victim
      BY <1>1, <1>3, <3>1, <3>2, <3>4 DEF Located
    <3> QED
      BY <3>3, <3>4
  <2>4. c = b \/ (b < c /\ c # b) \/ (c < b /\ c # b)
    BY StackingFacts
  <2> QED
    BY <2>1, <2>2, <2>3, <2>4
<1> QED
  BY <1>2, <1>6 DEF Located, Names

LEMMA RewrittenRaw ==
  ASSUME NEW b, NEW k, NEW l, NEW t, NEW R, NEW nw, NEW dm, NEW u, NEW N, NEW W, NEW rng, NEW N2,
         Stacking(b, k, l, t, R, nw, dm, u, N, W, rng, N2),
         NEW V, Rewritten(b, k, l, t, R, nw, u, N, W, rng, V)
  PROVE  Raw(V)'
<1>1. /\ Shape /\ Coded /\ Stacked(b, k, l, t, R, nw, dm, u) /\ Raw(W) /\ rng = range' /\ Claimed(N, W)
  BY DEF Stacking, Claimed, Claims
<1>2. /\ UNCHANGED << function, victim >> /\ Blocks' = Blocks /\ b \in Blocks /\ k \in Nat /\ pc = "spill"
      /\ \A a \in Blocks : a # b => code'[a] = code[a]
      /\ \A a \in Blocks : Indices(a) = 1 .. Len(code[a]) /\ Len(code[a]) \in Nat
      /\ l \in {0, 1} /\ t \in {0, 1} /\ Len(code'[b]) = Len(code[b]) + l + t
      /\ k \in Indices(b) /\ k <= Len(code[b]) /\ At = code[b][k]
  BY <1>1, MovedShape
<1>3. /\ nw # victim /\ R \subseteq Operands(At)
      /\ \A v \in DOMAIN range : rng[v] = IF v \in R THEN nw ELSE range[v]
      /\ \A p \in Indices(b) : Handled(b, p) <=> p < k
  BY StackingFacts
<1>4. /\ \A a \in Blocks : a # b => \A p \in Indices(a) : Handled(a, p)' <=> Handled(a, p)
      /\ \A p \in 1 .. Len(code'[b]) : Handled(b, p)' <=> p <= k + l + t
  BY <1>1, MovedHandled
<1>5. ASSUME NEW p \in 0 .. Len(code'[b]), NEW n \in Names(function), victim \in V[b][p][n]
      PROVE AtStore(b, p)'
  <2>1. \/ p < k /\ p \in 0 .. Len(code[b]) /\ victim \in W[b][p][n] /\ victim = rng[code[b][p + 1].src[1]]
        \/ t = 1 /\ p = k + l /\ victim = rng[u]
    BY <1>3, <1>5, RewrittenSplits
  <2>2. CASE p < k /\ p \in 0 .. Len(code[b]) /\ victim \in W[b][p][n] /\ victim = rng[code[b][p + 1].src[1]]
    <3>1. AtStore(b, p)
      BY <1>1, <1>2, <2>2 DEF Raw
    <3>2. p + 1 \in Indices(b) /\ Handled(b, p + 1) /\ code[b][p + 1].op = "store"
      BY <1>1, <1>2, <2>2, <3>1, AtStoreIs DEF AtStore
    <3>3. p + 1 \in 1 .. k - 1 /\ p + 1 \in 1 .. Len(code'[b]) /\ p + 1 <= k + l + t /\ p < Len(code'[b])
      <4> DEFINE len == Len(code[b])
                 more == Len(code'[b])
      <4>1. len \in Nat /\ more = len + l + t /\ k <= len /\ p + 1 < k /\ p \in 0 .. len
        BY <1>2, <1>3, <2>2, <3>2
      <4> HIDE DEF len, more
      <4>2. p + 1 \in 1 .. k - 1 /\ p + 1 \in 1 .. more /\ p + 1 <= k + l + t /\ p < more
        BY <1>2, <4>1
      <4> QED
        BY <4>2 DEF more
    <3>4. code'[b][p + 1] = code[b][p + 1]
      BY <1>1, <3>3 DEF Stacked, Rewrites
    <3>5. Handled(b, p + 1)'
      BY <1>4, <3>3
    <3> QED
      BY <1>1, <1>2, <2>2, <3>2, <3>3, <3>4, <3>5 DEF AtStore
  <2>3. CASE t = 1 /\ p = k + l /\ victim = rng[u]
    <3>1. p + 1 \in 1 .. Len(code'[b]) /\ p + 1 <= k + l + t /\ p < Len(code'[b]) /\ p + 1 = k + l + 1
      <4> DEFINE len == Len(code[b])
                 more == Len(code'[b])
      <4>1. len \in Nat /\ more = len + l + t /\ k <= len
        BY <1>2
      <4> HIDE DEF len, more
      <4>2. p + 1 \in 1 .. more /\ p + 1 <= k + l + t /\ p < more /\ p + 1 = k + l + 1
        BY <1>2, <2>3, <4>1
      <4> QED
        BY <4>2 DEF more
    <3>2. code'[b][p + 1] = Store(u)
      BY <1>1, <2>3, <3>1 DEF Stacked
    <3>3. Handled(b, p + 1)'
      BY <1>4, <3>1
    <3>4. code'[b][p + 1].op = "store" /\ code'[b][p + 1].src[1] = u
      BY <3>2, StoreIs
    <3> QED
      BY <1>1, <1>2, <2>3, <3>1, <3>3, <3>4 DEF AtStore
  <2> QED
    BY <2>1, <2>2, <2>3
<1>6. ASSUME NEW c \in Blocks, c # b, NEW p \in 0 .. Len(code'[c]), NEW n \in Names(function), victim \in V[c][p][n]
      PROVE AtStore(c, p)'
  <2>1. code'[c] = code[c] /\ p \in 0 .. Len(code[c])
    BY <1>2, <1>6
  <2>2. CASE b < c
    <3>1. V[c] = W[c]
      BY <1>6, <2>2 DEF Rewritten
    <3>2. AtStore(c, p)
      BY <1>1, <1>2, <1>6, <2>1, <3>1 DEF Raw
    <3>3. p + 1 \in Indices(c) /\ Handled(c, p + 1)
      BY <1>1, <1>2, <2>1, <3>2, AtStoreIs DEF AtStore
    <3>4. ~ (c < b)
      BY <2>2, StackingFacts, MovedShape DEF Stacking
    <3> QED
      BY <1>6, <3>3, <3>4, StackingFacts
  <2>3. CASE c < b
    <3>1. PICK y \in W[c][p][n] : victim = IF y = victim THEN rng[code[c][p + 1].src[1]] ELSE y
      BY <1>6, <2>1, <2>3 DEF Rewritten, Preceding
    <3>2. victim \in W[c][p][n] /\ victim = rng[code[c][p + 1].src[1]]
      BY <3>1
    <3>3. AtStore(c, p)
      BY <1>1, <1>2, <1>6, <2>1, <3>2 DEF Raw
    <3>4. p + 1 \in Indices(c)
      BY <1>1, <1>2, <2>1, <3>3, AtStoreIs
    <3>5. Handled(c, p + 1)'
      BY <1>4, <1>6, <3>3, <3>4 DEF AtStore
    <3> QED
      BY <1>1, <1>2, <2>1, <3>2, <3>3, <3>5 DEF AtStore
  <2> QED
    BY <1>6, <2>2, <2>3, StackingFacts
<1>7. ASSUME NEW c \in Blocks, NEW p \in 0 .. Len(code'[c]), NEW n \in Names(function), victim \in V[c][p][n]
      PROVE AtStore(c, p)'
  BY <1>5, <1>6, <1>7
<1> QED
  BY <1>2, <1>7 DEF Raw, Names

LEMMA RewrittenClaims ==
  ASSUME NEW b, NEW k, NEW l, NEW t, NEW R, NEW nw, NEW dm, NEW u, NEW N, NEW W, NEW rng, NEW N2,
         Stacking(b, k, l, t, R, nw, dm, u, N, W, rng, N2),
         NEW V, Rewritten(b, k, l, t, R, nw, u, N, W, rng, V)
  PROVE  Claimed(N2, V)'
<1>1. /\ Shape /\ Coded /\ Stacked(b, k, l, t, R, nw, dm, u) /\ Claimed(N, W)
  BY DEF Stacking
<1>2. /\ UNCHANGED function /\ Blocks' = Blocks /\ b \in Blocks
      /\ \A a \in Blocks : Indices(a) = 1 .. Len(code[a]) /\ Indices(a)' = 1 .. Len(code'[a])
      /\ \A a \in Blocks : a # b => code'[a] = code[a]
  BY <1>1, MovedShape
<1>3. \A c \in Blocks : \A n \in Names(function) :
        V[c][0][n] = W[c][0][n] /\ V[c][Len(code'[c])][n] = W[c][Len(code[c])][n]
  BY RewrittenEnds
<1>4. Fitting(V, N2)'
  <2>1. ASSUME NEW c \in Blocks, NEW p \in 1 .. Len(code'[c])
        PROVE Fits(function, code'[c][p], PlaceAt(c, p)', N2, V[c][p - 1], V[c][p])
    <3>1. CASE c = b
      BY <2>1, <3>1, RewrittenFits
    <3>2. CASE c # b /\ b < c
      <4>1. V[c] = W[c] /\ code'[c] = code[c] /\ p \in Indices(c)
        BY <1>2, <2>1, <3>2 DEF Rewritten
      <4>2. \A v \in DOMAIN range : v \notin R => PlaceAt(c, p)'[v] = PlaceAt(c, p)[v]
        BY <3>2, <4>1, PlacesMoved
      <4>3. Fits(function, code[c][p], PlaceAt(c, p)', N2, W[c][p - 1], W[c][p])
        BY <3>2, <4>1, <4>2, FitsElsewhere
      <4> QED
        BY <4>1, <4>3
    <3>3. CASE c # b /\ c < b /\ \A q \in Indices(c) : Handled(c, q)
      <4>1. /\ code'[c] = code[c] /\ p \in Indices(c) /\ Handled(c, p)
            /\ p - 1 \in 0 .. Len(code[c]) /\ p \in 0 .. Len(code[c])
        BY <1>2, <2>1, <3>3, StackingFacts
      <4>2. \A n \in Names(function) : /\ V[c][p - 1][n] = Preceding(c, p - 1, rng, W, n)
                                       /\ V[c][p][n] = Preceding(c, p, rng, W, n)
        BY <3>3, <4>1 DEF Rewritten
      <4>3. Fits(function, code[c][p], rng, N2, V[c][p - 1], V[c][p])
        BY <4>1, <4>2, FitsBefore
      <4>4. PlaceAt(c, p)' = rng
        BY <3>3, <4>1, PlacesMoved
      <4> QED
        BY <4>1, <4>3, <4>4
    <3>4. c = b \/ (c # b /\ b < c) \/ (c # b /\ c < b /\ \A q \in Indices(c) : Handled(c, q))
      BY StackingFacts
    <3> QED
      BY <3>1, <3>2, <3>3, <3>4
  <2> QED
    BY <1>2, <2>1 DEF Fitting
<1>5. Passed(V)'
  <2>1. \A c \in Blocks : function.succ[c] \subseteq Blocks
    <3>1. function \in Functions
      BY <1>1 DEF Shape
    <3> QED
      BY <3>1, FunctionsAssumption DEF Blocks
  <2>2. ASSUME NEW c \in Blocks, NEW s \in function.succ[c], NEW n \in Names(function)
        PROVE V[s][0][n] \subseteq V[c][Len(code'[c])][n]
    <3>1. W[s][0][n] \subseteq W[c][Len(code[c])][n]
      BY <1>1 DEF Claimed, Claims, Passed
    <3>2. s \in Blocks
      BY <2>1
    <3> QED
      BY <1>3, <3>1, <3>2
  <2> QED
    BY <1>2, <2>2 DEF Passed, Names
<1>6. Arrived(V)'
  <2>1. ASSUME NEW n \in Names(function), NEW x \in V[1][0][n]
        PROVE \/ x = SP /\ n = SP
              \/ x \in Ranges' /\ n \in function.params /\ reg'[x] = function.home[n]
    <3>1. 1 \in Blocks
      BY <1>1, EntryIsBlock
    <3>2. x \in W[1][0][n]
      BY <1>3, <3>1
    <3>3. \/ x = SP /\ n = SP
          \/ x \in Ranges /\ n \in function.params /\ reg[x] = function.home[n]
      BY <1>1, <3>2 DEF Claimed, Claims, Arrived
    <3>4. Ranges \subseteq Ranges' /\ \A r \in Ranges : reg'[r] = reg[r]
      BY <1>1 DEF Stacked
    <3> QED
      BY <3>3, <3>4
  <2> QED
    BY <1>2, <2>1 DEF Arrived, Names
<1> QED
  BY <1>4, <1>5, <1>6, RewrittenNames, RewrittenLocated, RewrittenRaw DEF Claimed, Claims

-----------------------------------------------------------------------------
(* The shape of the code afterwards. *)
LEMMA ReadsAreOperands ==
  ASSUME Shape, Coded, NEW c \in Blocks, NEW p \in Indices(c)
  PROVE  SeqSet(Read(code[c][p])) \subseteq Operands(code[c][p])
<1>1. code[c][p] \in Instructions(Len(range))
  BY CodeFacts
<1>2. /\ SeqSet(Read(code[c][p])) = SeqSet(code[c][p].src) \cup (IF code[c][p].both THEN {code[c][p].dst[1]} ELSE {})
      /\ code[c][p].both => 1 \in DOMAIN code[c][p].dst
  BY <1>1, SourcesAreRead
<1>3. code[c][p].both => code[c][p].dst[1] \in SeqSet(code[c][p].dst)
  BY <1>2 DEF SeqSet
<1> QED
  BY <1>2, <1>3 DEF Operands

LEMMA RangesMoved ==
  ASSUME Shape, Coded, SpillKnown, NEW b, NEW k, NEW l, NEW t, NEW R, NEW nw, NEW dm, NEW u,
         Stacked(b, k, l, t, R, nw, dm, u)
  PROVE  /\ R \subseteq DOMAIN range /\ R \subseteq Operands(At) /\ nw # victim
         /\ \A v \in DOMAIN range : /\ range'[v] = IF v \in R THEN nw ELSE range[v]
                                    /\ v \in R => range[v] = victim
                                    /\ range[v] \in Ranges /\ range[v] # nw /\ v # dm
<1>1. /\ b \in Blocks /\ k \in Indices(b) /\ At = code[b][k]
  BY MovedShape
<1>2. /\ R = { v \in SeqSet(Read(At)) : range[v] = victim } /\ nw \notin Ranges /\ victim \in Ranges
      /\ \A v \in DOMAIN range : range'[v] = IF v \in R THEN nw ELSE range[v]
      /\ dm \notin DOMAIN range
  BY DEF Stacked, SpillKnown
<1>3. R \subseteq Operands(At) /\ R \subseteq DOMAIN range
  BY <1>1, <1>2, ReadsAreOperands, OperandsAreNamed
<1>4. \A v \in DOMAIN range : range[v] \in Ranges
  BY ElementOfSeq, CodeShape DEF Shape, RangesTyped
<1> QED
  BY <1>2, <1>3, <1>4

LEMMA StackedFromSource ==
  ASSUME Shape, Coded, NEW b, NEW k, NEW l, NEW t, NEW R, NEW nw, NEW dm, NEW u,
         Stacked(b, k, l, t, R, nw, dm, u)
  PROVE  FromSource' /\ ReadLast'
<1>1. /\ UNCHANGED function /\ Blocks' = Blocks /\ b \in Blocks /\ k \in Indices(b) /\ At = code[b][k]
      /\ \A a \in Blocks : Indices(a) = 1 .. Len(code[a]) /\ Indices(a)' = 1 .. Len(code'[a])
      /\ \A a \in Blocks : a # b => code'[a] = code[a]
  BY MovedShape
<1>2. DOMAIN function.name \subseteq DOMAIN range /\ DOMAIN range \subseteq DOMAIN range' /\ dm \notin DOMAIN range
  BY DEF Stacked, Coded, FromSource
<1>3. Matched(function, Load(dm)) /\ Matched(function, Store(u))
  <2>1. dm \notin DOMAIN function.name
    BY <1>2
  <2> QED
    BY <2>1, LoadIs, StoreIs DEF Matched
<1>4. ASSUME NEW c \in Blocks, NEW p \in 1 .. Len(code'[c]) PROVE Matched(function, code'[c][p])
  <2>1. CASE c = b
    BY <1>3, <1>4, <2>1, MovedIs DEF IsLoad, IsStore, IsOld, Coded, FromSource
  <2>2. CASE c # b
    BY <1>1, <1>4, <2>2 DEF Coded, FromSource
  <2> QED
    BY <2>1, <2>2
<1>5. FromSource'
  BY <1>1, <1>2, <1>4 DEF FromSource
<1>6. ASSUME NEW c \in Blocks, NEW p \in 1 .. Len(code'[c]), NEW v \in Operands(code'[c][p])
      PROVE \/ c = b /\ v = dm
            \/ v \in DOMAIN range /\ \E q \in Indices(c) : v \in Operands(code[c][q])
  <2>1. CASE c = b
    <3>1. v \in Operands(code'[b][p]) /\ p \in 1 .. Len(code'[b])
      BY <1>6, <2>1
    <3>2. \/ v = dm /\ IsLoad(b, k, l, dm, p)
          \/ v = u /\ IsStore(b, k, l, t, u, p) /\ v \in DOMAIN range
          \/ v \in DOMAIN range /\ \E q : IsOld(b, k, l, t, p, q) /\ v \in Operands(code[b][q])
      BY <3>1, MovedOperands
    <3>3. CASE v = u /\ IsStore(b, k, l, t, u, p) /\ v \in DOMAIN range
      BY <1>1, <2>1, <3>3, ComputesStored DEF IsStore
    <3>4. CASE v \in DOMAIN range /\ \E q : IsOld(b, k, l, t, p, q) /\ v \in Operands(code[b][q])
      BY <2>1, <3>4 DEF IsOld
    <3> QED
      BY <2>1, <3>2, <3>3, <3>4
  <2>2. CASE c # b
    <3>1. code'[c] = code[c] /\ p \in Indices(c) /\ v \in Operands(code[c][p])
      BY <1>1, <1>6, <2>2
    <3> QED
      BY <3>1, OperandsAreNamed
  <2> QED
    BY <2>1, <2>2
<1>9. ASSUME NEW c \in Blocks, NEW p \in 1 .. Len(code'[c]), NEW v \in Closing(function, code'[c][p]), v # dm
      PROVE \E q \in Indices(c) : v \in Closing(function, code[c][q])
  <2>0. v \in Operands(code'[c][p])
    BY DEF Closing
  <2>1. CASE c = b
    <3>1. \/ IsStore(b, k, l, t, u, p) /\ v = u
          \/ \E q : IsOld(b, k, l, t, p, q)
      BY <1>9, <2>0, <2>1, MovedOperands
    <3>2. CASE IsStore(b, k, l, t, u, p) /\ v = u
      <4>1. WrittenWhenSettled(function)
        BY <1>9, <2>1, <3>2, StoreIs DEF IsStore, Closing
      <4>2. u \in Operands(At)
        BY <3>2, ComputesStored DEF IsStore
      <4> QED
        BY <1>1, <2>1, <3>2, <4>1, <4>2 DEF Closing
    <3>3. ASSUME NEW q, IsOld(b, k, l, t, p, q) PROVE \E e \in Indices(c) : v \in Closing(function, code[c][e])
      BY <1>9, <2>1, <3>3 DEF IsOld
    <3> QED
      BY <3>1, <3>2, <3>3
  <2>2. CASE c # b
    BY <1>1, <1>9, <2>2
  <2> QED
    BY <2>1, <2>2
<1>7. ASSUME NEW a \in Blocks, NEW c \in Blocks, a < c, NEW q \in 1 .. Len(code'[a]), NEW r \in 1 .. Len(code'[c])
      PROVE Closing(function, code'[a][q]) \cap Operands(code'[c][r]) = {}
  <2> SUFFICES ASSUME NEW v \in Closing(function, code'[a][q]), v \in Operands(code'[c][r]) PROVE FALSE
    OBVIOUS
  <2>0. a # c /\ v \in Operands(code'[a][q])
    BY <1>7, MovedShape DEF Closing
  <2>1. \/ a = b /\ v = dm
        \/ v \in DOMAIN range
    BY <1>6, <1>7, <2>0
  <2>2. \/ c = b /\ v = dm
        \/ v \in DOMAIN range /\ \E e \in Indices(c) : v \in Operands(code[c][e])
    BY <1>6, <1>7
  <2>3. v # dm /\ \E e \in Indices(c) : v \in Operands(code[c][e])
    BY <1>2, <2>0, <2>1, <2>2
  <2>4. \E e \in Indices(a) : v \in Closing(function, code[a][e])
    BY <1>7, <1>9, <2>3
  <2> QED
    BY <1>7, <2>3, <2>4 DEF Coded, ReadLast
<1>8. ReadLast'
  <2>1. ASSUME NEW a \in Blocks', NEW c \in Blocks', a < c, NEW q \in Indices(a)', NEW r \in Indices(c)'
        PROVE Closing(function', code'[a][q]) \cap Operands(code'[c][r]) = {}
    <3>1. a \in Blocks /\ c \in Blocks /\ q \in 1 .. Len(code'[a]) /\ r \in 1 .. Len(code'[c]) /\ function' = function
      BY <1>1, <2>1
    <3> QED
      BY <1>7, <2>1, <3>1
  <2> QED
    BY <2>1 DEF ReadLast
<1> QED
  BY <1>5, <1>8

LEMMA StackedColors ==
  ASSUME Shape, Coded, SpillKnown, NEW b, NEW k, NEW l, NEW t, NEW R, NEW nw, NEW dm, NEW u,
         Stacked(b, k, l, t, R, nw, dm, u)
  PROVE  TwoColored' /\ OnlyStackPointer' /\ SlotsKnown'
<1>1. /\ UNCHANGED << function, slots >> /\ Blocks' = Blocks /\ b \in Blocks /\ k \in Nat /\ pc = "spill" /\ pc' = "spill"
      /\ l \in {0, 1} /\ t \in {0, 1}
      /\ \A a \in Blocks : Indices(a) = 1 .. Len(code[a]) /\ Indices(a)' = 1 .. Len(code'[a])
      /\ \A a \in Blocks : a # b => code'[a] = code[a]
  BY MovedShape
<1>2. ~ Early /\ ~ Early' /\ ~ Uncolored'
  BY <1>1 DEF Early, Uncolored, Merging
<1>3. /\ R \subseteq DOMAIN range
      /\ \A v \in DOMAIN range : /\ range'[v] = IF v \in R THEN nw ELSE range[v]
                                 /\ v \in R => range[v] = victim
                                 /\ range[v] \in Ranges
  BY RangesMoved
<1>4. /\ Ranges' = Ranges \cup (IF l = 1 THEN {nw} ELSE {})
      /\ \A r \in Ranges : reg'[r] = reg[r]
      /\ l = 1 => reg'[nw] = NoReg
  BY DEF Stacked
<1>5. \A c \in Blocks : \A p \in 1 .. Len(code'[c]) :
        \/ c # b /\ p \in Indices(c) /\ code'[c][p] = code[c][p]
        \/ c = b /\ (IsLoad(b, k, l, dm, p) \/ IsStore(b, k, l, t, u, p) \/ \E q : IsOld(b, k, l, t, p, q))
  BY <1>1, MovedIs
<1>6. \A c \in Blocks : \A p \in 1 .. Len(code'[c]) :
        \/ \E v : code'[c][p] = Load(v) \/ code'[c][p] = Store(v)
        \/ \E q \in Indices(c) : code'[c][p] = code[c][q]
  BY <1>5 DEF IsLoad, IsStore, IsOld
<1>7. TwoColored'
  <2>1. ASSUME NEW v \in DOMAIN range, reg[range[v]] # NoReg PROVE reg'[range'[v]] = reg[range[v]]
    <3>1. v \notin R
      BY <1>3, <2>1 DEF SpillKnown
    <3>2. range'[v] = range[v] /\ range[v] \in Ranges
      BY <1>3, <3>1
    <3> QED
      BY <1>4, <3>2
  <2>2. ASSUME NEW c \in Blocks', NEW p \in Indices(c)', Len(code'[c][p].dst) = 2
        PROVE /\ reg'[range'[code'[c][p].dst[1]]] # NoReg /\ reg'[range'[code'[c][p].dst[2]]] # NoReg
              /\ reg'[range'[code'[c][p].dst[1]]] # reg'[range'[code'[c][p].dst[2]]]
    <3>0. c \in Blocks /\ p \in 1 .. Len(code'[c])
      BY <1>1, <2>2
    <3>1. PICK q \in Indices(c) : code'[c][p] = code[c][q]
      <4>1. \A v : Len(Load(v).dst) = 1 /\ Len(Store(v).dst) = 0
        BY LoadIs, StoreIs
      <4>2. \/ \E v : code'[c][p] = Load(v) \/ code'[c][p] = Store(v)
            \/ \E q \in Indices(c) : code'[c][p] = code[c][q]
        BY <1>6, <3>0
      <4>3. ~ \E v : code'[c][p] = Load(v) \/ code'[c][p] = Store(v)
        <5> SUFFICES ASSUME NEW v, code'[c][p] = Load(v) \/ code'[c][p] = Store(v) PROVE FALSE
          OBVIOUS
        <5>1. Len(code'[c][p].dst) = 1 \/ Len(code'[c][p].dst) = 0
          BY <4>1
        <5> QED
          BY <2>2, <5>1
      <4> QED
        BY <4>2, <4>3
    <3> DEFINE d == code[c][q].dst[1]
               e == code[c][q].dst[2]
    <3>2. reg[range[d]] # NoReg /\ reg[range[e]] # NoReg /\ reg[range[d]] # reg[range[e]]
      BY <1>2, <2>2, <3>0, <3>1 DEF Coded, TwoColored, RegOf
    <3>3. d \in DOMAIN range /\ e \in DOMAIN range
      <4>1. DOMAIN code[c][q].dst = 1 .. Len(code[c][q].dst)
        BY <3>0, CodeFacts
      <4>2. DOMAIN code[c][q].dst = 1 .. 2
        BY <2>2, <3>1, <4>1
      <4>3. 1 \in DOMAIN code[c][q].dst /\ 2 \in DOMAIN code[c][q].dst
        BY <4>2
      <4> QED
        BY <3>0, <4>3, CodeFacts
    <3>4. code'[c][p].dst[1] = d /\ code'[c][p].dst[2] = e
      BY <3>1
    <3> HIDE DEF d, e
    <3> QED
      BY <2>1, <3>2, <3>3, <3>4
  <2> QED
    BY <2>2 DEF TwoColored, RegOf
<1>8. OnlyStackPointer'
  <2>1. ASSUME NEW r \in Ranges', reg'[r] = RSP PROVE r = SP
    <3>1. CASE r \in Ranges
      BY <1>4, <2>1, <3>1 DEF Coded, OnlyStackPointer
    <3>2. CASE l = 1 /\ r = nw
      BY <1>4, <2>1, <3>2, KAssumption DEF NoReg, RSP
    <3> QED
      BY <1>4, <2>1, <3>1, <3>2
  <2> QED
    BY <2>1 DEF OnlyStackPointer
<1>9. SlotsKnown'
  <2>1. /\ slots \in 1 .. slots /\ slots # 0
    BY <1>1 DEF SpillKnown, Coded, SlotsKnown
  <2>2. /\ \A a \in Blocks : a # b => \A p \in Indices(a) : Handled(a, p)' <=> Handled(a, p)
        /\ \A p \in 1 .. Len(code'[b]) : Handled(b, p)' <=> p <= k + l + t
        /\ \A p \in Indices(b) : Handled(b, p) <=> p < k
    BY MovedHandled
  <2>3. ASSUME NEW c \in Blocks, NEW p \in 1 .. Len(code'[c]), Memory(code'[c][p])
        PROVE /\ code'[c][p].slot \in 1 .. slots
              /\ ~ Handled(c, p)' => code'[c][p].slot # slots
    <3>1. CASE c # b /\ p \in Indices(c) /\ code'[c][p] = code[c][p]
      BY <1>1, <2>2, <2>3, <3>1 DEF Coded, SlotsKnown
    <3>2. CASE c = b /\ IsLoad(b, k, l, dm, p)
      <4>1. code'[b][p].slot = slots /\ p <= k + l + t
        BY <1>1, <3>2, LoadIs DEF IsLoad
      <4> QED
        BY <2>1, <2>2, <2>3, <3>2, <4>1
    <3>3. CASE c = b /\ IsStore(b, k, l, t, u, p)
      <4>1. code'[b][p].slot = slots /\ p <= k + l + t
        BY <1>1, <3>3, StoreIs DEF IsStore
      <4> QED
        BY <2>1, <2>2, <2>3, <3>3, <4>1
    <3>4. ASSUME NEW q, c = b, IsOld(b, k, l, t, p, q)
          PROVE /\ code'[c][p].slot \in 1 .. slots
                /\ ~ Handled(c, p)' => code'[c][p].slot # slots
      <4>1. q \in Indices(b) /\ Was(k, l, t, p, q) /\ code'[b][p] = code[b][q] /\ p \in Nat /\ q \in Nat
        BY <1>1, <2>3, <3>4 DEF IsOld
      <4>2. code[b][q].slot \in 1 .. slots /\ (~ Handled(b, q) => code[b][q].slot # slots)
        BY <1>1, <2>3, <3>4, <4>1 DEF Coded, SlotsKnown
      <4>3. p > k + l + t => ~ (q < k)
        BY <1>1, <4>1 DEF Was
      <4>4. ~ Handled(b, p)' => ~ Handled(b, q)
        <5>1. ~ (p <= k + l + t) => p > k + l + t
          BY <1>1, <4>1
        <5>2. p \in 1 .. Len(code'[b])
          BY <2>3, <3>4
        <5> QED
          BY <2>2, <4>1, <4>3, <5>1, <5>2
      <4> QED
        BY <3>4, <4>1, <4>2, <4>4
    <3> QED
      BY <1>5, <2>3, <3>1, <3>2, <3>3, <3>4
  <2> QED
    BY <1>1, <1>2, <2>1, <2>3 DEF SlotsKnown
<1> QED
  BY <1>7, <1>8, <1>9

LEMMA StackedStored ==
  ASSUME Shape, Coded, SpillKnown, NEW b, NEW k, NEW l, NEW t, NEW R, NEW nw, NEW dm, NEW u,
         Stacked(b, k, l, t, R, nw, dm, u)
  PROVE  VictimStored'
<1>1. /\ UNCHANGED << function, victim >> /\ Blocks' = Blocks /\ b \in Blocks /\ k \in Nat /\ k >= 1
      /\ pc = "spill" /\ pc' = "spill"
      /\ l \in {0, 1} /\ t \in {0, 1} /\ k \in Indices(b) /\ At = code[b][k]
      /\ \A a \in Blocks : Indices(a) = 1 .. Len(code[a]) /\ Indices(a)' = 1 .. Len(code'[a])
      /\ \A a \in Blocks : a # b => code'[a] = code[a]
  BY MovedShape
<1>2. /\ \A a \in Blocks : a # b => \A p \in Indices(a) : Handled(a, p)' <=> Handled(a, p)
      /\ \A p \in 1 .. Len(code'[b]) : Handled(b, p)' <=> p <= k + l + t
      /\ \A p \in Indices(b) : Handled(b, p) <=> p < k
  BY MovedHandled
<1>3. /\ nw # victim
      /\ \A v \in DOMAIN range : /\ range'[v] = IF v \in R THEN nw ELSE range[v]
                                 /\ range[v] # nw
  BY RangesMoved
<1>a. R = { v \in SeqSet(Read(At)) : range[v] = victim } /\ Rewrites(b, k, l + 1 + t)
      /\ code'[b][k + l] = At
  BY DEF Stacked
<1>b. \A p \in 1 .. k - 1 : code'[b][p] = code[b][p]
  BY <1>a DEF Rewrites
<1>4. ASSUME NEW p \in 1 .. Len(code'[b]), Handled(b, p)', NEW v \in SeqSet(Read(code'[b][p])), range'[v] = victim
      PROVE code'[b][p].op = "store" /\ p > 1 /\ code'[b][p - 1].dst = << v >>
  <2>0. p <= k + l + t /\ p \in Nat
    BY <1>2, <1>4
  <2>1. CASE IsLoad(b, k, l, dm, p)
    <3>1. SeqSet(Read(Load(dm))) = {}
      BY LoadIs
    <3> QED
      BY <1>4, <2>1, <3>1 DEF IsLoad
  <2>2. CASE IsStore(b, k, l, t, u, p)
    <3>1. t = 1 /\ p = k + l + 1 /\ code'[b][p] = Store(u)
      BY <2>2 DEF IsStore
    <3>2. v = u /\ code'[b][p].op = "store"
      BY <1>4, <3>1, StoreIs
    <3>3. At.dst = << u >>
      BY <3>1, ComputesStored
    <3>4. p > 1 /\ p - 1 = k + l
      BY <1>1, <3>1
    <3> QED
      BY <1>a, <3>2, <3>3, <3>4
  <2>3. ASSUME NEW q, IsOld(b, k, l, t, p, q)
        PROVE code'[b][p].op = "store" /\ p > 1 /\ code'[b][p - 1].dst = << v >>
    <3>1. q \in Indices(b) /\ Was(k, l, t, p, q) /\ code'[b][p] = code[b][q]
      BY <2>3 DEF IsOld
    <3>2. v \in SeqSet(Read(code[b][q])) /\ v \in DOMAIN range
      BY <1>1, <1>4, <3>1, CodeFacts
    <3>3. v \notin R /\ range[v] = victim
      BY <1>3, <1>4, <3>2
    <3>4. q # k
      BY <1>1, <1>a, <3>2, <3>3
    <3>5. p < k /\ q = p
      BY <1>1, <2>0, <3>1, <3>4 DEF Was
    <3>6. Handled(b, q)
      BY <1>2, <3>1, <3>5
    <3>7. code[b][q].op = "store" /\ q > 1 /\ code[b][q - 1].dst = << v >>
      BY <1>1, <3>1, <3>2, <3>3, <3>6 DEF Coded, VictimStored
    <3>8. p - 1 \in 1 .. k - 1
      BY <1>1, <2>0, <3>5, <3>7
    <3>9. code'[b][p - 1] = code[b][p - 1]
      BY <1>b, <3>8
    <3> QED
      BY <3>1, <3>5, <3>7, <3>9
  <2> QED
    BY <2>1, <2>2, <2>3, MovedIs
<1>5. ASSUME NEW c \in Blocks, c # b, NEW p \in Indices(c), Handled(c, p)', NEW v \in SeqSet(Read(code'[c][p])),
             range'[v] = victim
      PROVE code'[c][p].op = "store" /\ p > 1 /\ code'[c][p - 1].dst = << v >>
  <2>1. code'[c] = code[c] /\ Handled(c, p)
    BY <1>1, <1>2, <1>5
  <2>2. v \in DOMAIN range
    BY <1>5, <2>1, CodeFacts
  <2>3. range[v] = victim
    BY <1>3, <1>5, <2>2
  <2>4. code[c][p].op = "store" /\ p > 1 /\ code[c][p - 1].dst = << v >>
    BY <1>1, <1>5, <2>1, <2>3 DEF Coded, VictimStored
  <2> QED
    BY <2>1, <2>4
<1>6. ASSUME NEW c \in Blocks', NEW p \in Indices(c)', Handled(c, p)', NEW v \in SeqSet(Read(code'[c][p])),
             range'[v] = victim'
      PROVE code'[c][p].op = "store" /\ p > 1 /\ code'[c][p - 1].dst = << v >>
  <2>1. c \in Blocks /\ p \in 1 .. Len(code'[c]) /\ (c # b => p \in Indices(c))
    BY <1>1, <1>6
  <2>2. CASE c = b
    BY <1>1, <1>4, <1>6, <2>1, <2>2
  <2>3. CASE c # b
    BY <1>1, <1>5, <1>6, <2>1, <2>3
  <2> QED
    BY <2>2, <2>3
<1> QED
  BY <1>6 DEF VictimStored

LEMMA StackedSettled ==
  ASSUME Shape, Coded, SpillKnown, NEW b, NEW k, NEW l, NEW t, NEW R, NEW nw, NEW dm, NEW u,
         Stacked(b, k, l, t, R, nw, dm, u)
  PROVE  StoresSettled'
<1>1. /\ UNCHANGED << function, victim >> /\ Blocks' = Blocks /\ b \in Blocks /\ k \in Nat /\ k >= 1
      /\ pc = "spill" /\ l \in {0, 1} /\ t \in {0, 1}
      /\ \A a \in Blocks : Indices(a) = 1 .. Len(code[a]) /\ Indices(a)' = 1 .. Len(code'[a])
      /\ \A a \in Blocks : a # b => code'[a] = code[a]
  BY MovedShape
<1>2. /\ \A a \in Blocks : a # b => \A p \in Indices(a) : Handled(a, p)' <=> Handled(a, p)
      /\ \A p \in 1 .. Len(code'[b]) : Handled(b, p)' <=> p <= k + l + t
      /\ \A p \in Indices(b) : Handled(b, p) <=> p < k
  BY MovedHandled
<1>3. nw # victim /\ \A v \in DOMAIN range : range'[v] = IF v \in R THEN nw ELSE range[v]
  BY RangesMoved
<1>4. ASSUME NEW c \in Blocks, NEW q \in Indices(c), ~ Handled(c, q), code[c][q].op = "store",
             range'[code[c][q].src[1]] = victim
      PROVE WrittenWhenSettled(function)
  <2>1. code[c][q].src[1] \in DOMAIN range
    <3>1. Matched(function, code[c][q]) /\ code[c][q].id = 0
      BY <1>4, MatchedFacts DEF Coded, FromSource, Shape
    <3>2. DOMAIN code[c][q].src = 1 .. 1
      BY <1>4, <3>1, CodeFacts DEF Matched
    <3> QED
      BY <1>4, <3>2, CodeFacts
  <2>2. range[code[c][q].src[1]] = victim
    BY <1>3, <1>4, <2>1
  <2> QED
    BY <1>1, <1>4, <2>2 DEF Coded, StoresSettled
<1>5. ASSUME NEW p \in 1 .. Len(code'[b]), ~ Handled(b, p)'
      PROVE \E q \in Indices(b) : code'[b][p] = code[b][q] /\ ~ Handled(b, q)
  <2>1. p \in Nat /\ p > k + l + t
    BY <1>1, <1>2, <1>5, MovedShape
  <2>2. ~ IsLoad(b, k, l, dm, p) /\ ~ IsStore(b, k, l, t, u, p)
    BY <1>1, <2>1 DEF IsLoad, IsStore
  <2>3. PICK q : IsOld(b, k, l, t, p, q)
    BY <2>2, MovedIs
  <2>4. q \in Indices(b) /\ Was(k, l, t, p, q) /\ code'[b][p] = code[b][q] /\ q \in Nat
    BY <1>1, <2>3, MovedShape DEF IsOld
  <2>5. ~ (q < k)
    BY <1>1, <2>1, <2>4 DEF Was
  <2> QED
    BY <1>2, <2>4, <2>5
<1>6. ASSUME NEW c \in Blocks', NEW p \in Indices(c)', ~ Handled(c, p)', code'[c][p].op = "store",
             range'[code'[c][p].src[1]] = victim
      PROVE WrittenWhenSettled(function)
  <2>1. CASE c = b
    BY <1>1, <1>4, <1>5, <1>6, <2>1
  <2>2. CASE c # b
    BY <1>1, <1>2, <1>4, <1>6, <2>2
  <2> QED
    BY <2>1, <2>2
<1> QED
  BY <1>1, <1>6 DEF StoresSettled

LEMMA StackedLoadsFirst ==
  ASSUME Shape, Coded, SpillKnown, NEW b, NEW k, NEW l, NEW t, NEW R, NEW nw, NEW dm, NEW u,
         Stacked(b, k, l, t, R, nw, dm, u)
  PROVE  LoadsFirst'
<1>1. /\ UNCHANGED << function, victim >> /\ Blocks' = Blocks /\ b \in Blocks /\ k \in Nat /\ k >= 1
      /\ pc = "spill" /\ pc' = "spill"
      /\ l \in {0, 1} /\ t \in {0, 1} /\ k \in Indices(b) /\ At = code[b][k]
      /\ \A a \in Blocks : Indices(a) = 1 .. Len(code[a]) /\ Indices(a)' = 1 .. Len(code'[a])
      /\ \A a \in Blocks : a # b => code'[a] = code[a]
  BY MovedShape
<1>2. \A p \in Indices(b) : Handled(b, p) <=> p < k
  BY MovedHandled
<1>3. /\ \A v \in DOMAIN range : /\ range'[v] = IF v \in R THEN nw ELSE range[v]
                                 /\ v \in R => range[v] = victim
                                 /\ range[v] # nw
  BY RangesMoved
<1>4. ASSUME NEW c \in Blocks, NEW p \in Indices(c), Dummy(code[c][p])
      PROVE code[c][p].dst[1] \in DOMAIN range /\ code[c][p].dst[1] \in Operands(code[c][p])
  <2>1. Matched(function, code[c][p]) /\ DOMAIN code[c][p].dst = 1 .. Len(code[c][p].dst)
    BY <1>4, CodeFacts
  <2>2. Len(code[c][p].dst) = 1
    BY <1>4, <2>1 DEF Matched, Dummy
  <2>3. DOMAIN code[c][p].dst = 1 .. 1
    BY <2>1, <2>2
  <2>4. 1 \in DOMAIN code[c][p].dst
    BY <2>3
  <2> QED
    BY <1>4, <2>4, CodeFacts DEF Operands, SeqSet
<1>5. ASSUME NEW c \in Blocks, NEW q \in Indices(c), NEW r \in Indices(c), q < r, code[c][q].id # 0, Dummy(code[c][r]),
             NEW v \in SeqSet(Read(code[c][q]))
      PROVE range'[v] # range'[code[c][r].dst[1]]
  <2>1. range[v] # range[code[c][r].dst[1]]
    BY <1>5 DEF Coded, LoadsFirst
  <2>2. v \in DOMAIN range /\ code[c][r].dst[1] \in DOMAIN range
    BY <1>4, <1>5, CodeFacts
  <2> QED
    BY <1>3, <2>1, <2>2
<1>6. ASSUME NEW q \in 1 .. Len(code'[b]), NEW r \in 1 .. Len(code'[b]), q < r, code'[b][q].id # 0, Dummy(code'[b][r]),
             NEW v \in SeqSet(Read(code'[b][q]))
      PROVE range'[v] # range'[code'[b][r].dst[1]]
  <2>1. PICK q0 : IsOld(b, k, l, t, q, q0)
    <3>1. ~ IsLoad(b, k, l, dm, q) /\ ~ IsStore(b, k, l, t, u, q)
      BY <1>6, LoadIs, StoreIs DEF IsLoad, IsStore
    <3> QED
      BY <3>1, MovedIs
  <2>2. q0 \in Indices(b) /\ Was(k, l, t, q, q0) /\ code'[b][q] = code[b][q0] /\ q0 \in Nat /\ q \in Nat /\ r \in Nat
    BY <1>1, <2>1 DEF IsOld
  <2>3. ASSUME NEW r0, IsOld(b, k, l, t, r, r0) PROVE range'[v] # range'[code'[b][r].dst[1]]
    <3>1. r0 \in Indices(b) /\ Was(k, l, t, r, r0) /\ code'[b][r] = code[b][r0] /\ r0 \in Nat
      BY <1>1, <2>3 DEF IsOld
    <3>2. q0 < r0
      BY <1>1, <1>6, <2>2, <3>1 DEF Was
    <3> QED
      BY <1>1, <1>5, <1>6, <2>2, <3>1, <3>2
  <2>4. CASE IsLoad(b, k, l, dm, r)
    <3>1. l = 1 /\ r = k /\ code'[b][r] = Load(dm)
      BY <2>4 DEF IsLoad
    <3>2. range'[code'[b][r].dst[1]] = nw
      BY <3>1, LoadIs DEF Stacked
    <3>3. q0 = q /\ q < k
      BY <1>1, <1>6, <2>2, <3>1 DEF Was
    <3>4. Handled(b, q0)
      BY <1>2, <2>2, <3>3
    <3>5. v \in SeqSet(Read(code[b][q0])) /\ v \in DOMAIN range
      BY <1>1, <1>6, <2>2, CodeFacts
    <3>6. v \notin R
      <4> SUFFICES ASSUME v \in R PROVE FALSE
        OBVIOUS
      <4>1. code[b][q0].op = "store"
        BY <1>1, <1>3, <2>2, <3>4, <3>5 DEF Coded, VictimStored
      <4>2. Matched(function, code[b][q0]) /\ Disciplined(function) /\ function \in Functions /\ code[b][q0].id # 0
        BY <1>1, <1>6, <2>2, CodeFacts DEF Coded, Shape
      <4> QED
        BY <4>1, <4>2, MatchedFacts
    <3> QED
      BY <1>3, <3>2, <3>5, <3>6
  <2>5. ~ IsStore(b, k, l, t, u, r)
    BY <1>6, StoreIs DEF IsStore, Dummy
  <2> QED
    BY <2>3, <2>4, <2>5, MovedIs
<1>7. ASSUME NEW c \in Blocks', NEW q \in Indices(c)', NEW r \in Indices(c)', q < r, code'[c][q].id # 0,
             Dummy(code'[c][r]), NEW v \in SeqSet(Read(code'[c][q]))
      PROVE range'[v] # range'[code'[c][r].dst[1]]
  <2>1. c \in Blocks /\ q \in 1 .. Len(code'[c]) /\ r \in 1 .. Len(code'[c])
    BY <1>1
  <2>2. CASE c = b
    BY <1>6, <1>7, <2>1, <2>2
  <2>3. CASE c # b
    <3>1. code'[c] = code[c] /\ q \in Indices(c) /\ r \in Indices(c)
      BY <1>1, <2>1, <2>3
    <3> QED
      BY <1>5, <1>7, <2>1, <3>1
  <2> QED
    BY <2>2, <2>3
<1> QED
  BY <1>7 DEF LoadsFirst, Dummy

LEMMA StackedCodes ==
  ASSUME Shape, Coded, SpillKnown, NEW b, NEW k, NEW l, NEW t, NEW R, NEW nw, NEW dm, NEW u,
         Stacked(b, k, l, t, R, nw, dm, u)
  PROVE  Coded'
<1>1. UNCHANGED function /\ pc' = "spill"
  BY MovedShape
<1>2. FromSource' /\ ReadLast'
  BY StackedFromSource
<1>3. TwoColored' /\ OnlyStackPointer' /\ SlotsKnown'
  BY StackedColors
<1>4. VictimStored' /\ LoadsFirst' /\ StoresSettled'
  BY StackedStored, StackedLoadsFirst, StackedSettled
<1>5. Untouched' /\ StackPointerStays'
  BY <1>1 DEF Untouched, StackPointerStays, Early, Uncolored, Merging
<1> QED
  BY <1>1, <1>2, <1>3, <1>4, <1>5 DEF Coded

LEMMA SpillOperandsFaithful ==
  ASSUME Known, Coded, Faithful, SpillOperands
  PROVE  Coded' /\ Faithful'
<1>1. Shape /\ pc = "spill" /\ SpillKnown
  BY SpillIsKnown DEF SpillOperands, Known, IInv
<1>2. PICK b, k, l, t, R, nw, dm, u : Stacked(b, k, l, t, R, nw, dm, u)
  BY SpillOperandsMoves
<1>3. Coded'
  BY <1>1, <1>2, StackedCodes
<1>4. PICK N, W : Claimed(N, W)
  BY <1>1 DEF Faithful, Early
<1>5. PICK rng, N2 : /\ rng = range'
                     /\ N2 = [v \in DOMAIN range' |-> IF v = dm THEN UNION { N[w] : w \in R } ELSE N[v]]
  OBVIOUS
<1>6. Stacking(b, k, l, t, R, nw, dm, u, N, W, rng, N2)
  BY <1>1, <1>2, <1>4, <1>5 DEF Stacking
<1>7. PICK V : V = [c \in Blocks |->
                      IF b < c THEN W[c]
                      ELSE IF c < b
                      THEN [p \in 0 .. Len(code[c]) |-> [n \in Names(function) |-> Preceding(c, p, rng, W, n)]]
                      ELSE [p \in 0 .. Len(code'[b]) |->
                              [n \in Names(function) |-> After(b, k, l, t, R, nw, u, N, W, rng, p, n)]]]
  OBVIOUS
<1>8. Rewritten(b, k, l, t, R, nw, u, N, W, rng, V)
  <2>1. b \in Blocks /\ Blocks \subseteq Nat
    BY <1>1, <1>2, MovedShape
  <2>2. \A c \in Blocks : b < c => V[c] = W[c]
    BY <1>7
  <2>4. \A c \in Blocks : c < b => \A p \in 0 .. Len(code[c]) : \A n \in Names(function) :
          V[c][p][n] = Preceding(c, p, rng, W, n)
    <3> SUFFICES ASSUME NEW c \in Blocks, c < b, NEW p \in 0 .. Len(code[c]), NEW n \in Names(function)
                 PROVE V[c][p][n] = Preceding(c, p, rng, W, n)
      OBVIOUS
    <3>1. ~ (b < c)
      BY <2>1
    <3> QED
      BY <1>7, <3>1
  <2>3. V[b] = [p \in 0 .. Len(code'[b]) |->
                  [n \in Names(function) |-> After(b, k, l, t, R, nw, u, N, W, rng, p, n)]]
    <3>1. ~ (b < b)
      BY <2>1
    <3> QED
      BY <1>7, <2>1, <3>1
  <2> QED
    BY <2>2, <2>3, <2>4 DEF Rewritten
<1>9. Claimed(N2, V)'
  BY <1>6, <1>8, RewrittenClaims
<1>10. pc' = "spill"
  BY <1>1, <1>2, MovedShape
<1> QED
  BY <1>3, <1>9, <1>10 DEF Faithful

LEMMA SpillFaithful ==
  ASSUME Known, Coded, Faithful, SpillCopy \/ SpillConst \/ SpillOperands
  PROVE  Coded' /\ Faithful'
BY SpillCopyFaithful, SpillConstFaithful, SpillOperandsFaithful

-----------------------------------------------------------------------------
(* What the allocator does to the code, and the run, together.             *)
SpillsOnce == \A r \in queue : StartSpill(r) /\ Respilled(r) => WrittenWhenSettled(function)
Precolors == BuildInterference /\ resume = "precolor" => ColoringProper' /\ liveIn[1] \subseteq function.params
Computed ==
  /\ Shape /\ Typed /\ Coded /\ Followed /\ Visited = Blocks
  /\ pc # "running" => Known /\ Faithful

LEMMA NextFaithful ==
  ASSUME Known, Coded, Faithful, Visited = Blocks, Located0, Next, UNCHANGED runVars, Precolors, SpillsOnce
  PROVE  Coded' /\ (pc' # "done" => Faithful') /\ Finished' /\ pc' # "running"
<1>1. CASE AllColored
  <2>1. pc' = "done"
    BY <1>1 DEF AllColored
  <2> QED
    BY <1>1, <2>1, AllColoredFinishes
<1>2. CASE ~ AllColored
  <2>1. pc' \notin {"done", "running"}
    <3>1. Build \/ Restart \/ EndRound => pc' \in {"liveness", "color"}
      BY DEF Build, Restart, EndRound, Analyse
    <3>2. /\ VisitBlock => pc' = "liveness"
          /\ BuildInterference => pc' \in {"coalesce", "color"}
          /\ Coalesce => pc' = "coalesce"
      <4>1. VisitBlock => pc' = "liveness"
        BY DEF VisitBlock
      <4>2. BuildInterference => pc' \in {"coalesce", "color"}
        BY DEF BuildInterference
      <4>3. Coalesce => pc' = "coalesce"
        BY DEF Coalesce
      <4> QED
        BY <4>1, <4>2, <4>3
    <3>3. ASSUME NEW r \in queue, Color(r) \/ StartSpill(r) PROVE pc' \in {"color", "spill"}
      BY <3>3 DEF Color, StartSpill
    <3>4. SpillCopy \/ SpillConst \/ SpillOperands => pc' = "spill"
      BY DEF SpillCopy, SpillConst, SpillOperands
    <3> QED
      BY <1>2, <3>1, <3>2, <3>3, <3>4 DEF Next
  <2>2. Coded' /\ Faithful'
    <3>1. CASE Build
      BY <3>1, BuildFaithful
    <3>2. CASE VisitBlock
      BY <3>2, VisitBlockFaithful
    <3>3. CASE BuildInterference
      BY <3>3, BuildInterferenceFaithful DEF Precolors
    <3>4. CASE Coalesce
      BY <3>4, CoalesceFaithful
    <3>5. CASE EndRound
      BY <3>5, EndRoundFaithful
    <3>6. ASSUME NEW r \in queue, Color(r) PROVE Coded' /\ Faithful'
      BY <3>6, ColorFaithful
    <3>7. ASSUME NEW r \in queue, StartSpill(r) PROVE Coded' /\ Faithful'
      BY <3>7, StartSpillFaithful DEF SpillsOnce
    <3>8. CASE SpillCopy \/ SpillConst \/ SpillOperands
      BY <3>8, SpillFaithful
    <3>9. CASE Restart
      BY <3>9, RestartFaithful
    <3> QED
      BY <1>2, <3>1, <3>2, <3>3, <3>4, <3>5, <3>6, <3>7, <3>8, <3>9 DEF Next
  <2> QED
    BY <2>1, <2>2 DEF Finished
<1> QED
  BY <1>1, <1>2

(* Where the allocation is not under way nothing is claimed of it. *)
LEMMA DoneIsFaithful ==
  ASSUME pc = "done"
  PROVE  Faithful
  BY DEF Faithful

LEMMA RunStays ==
  ASSUME Values, Located0, UNCHANGED runVars, function' = function, pc # "running" , pc' # "running"
  PROVE  Values' /\ Located0'
<1>1. UNCHANGED << at, env, regs, frame >>
  BY DEF runVars
<1>2. Values'
  BY <1>1 DEF Values, Names, SourceOf, Registers, RSP
<1>3. Located0'
  BY <1>1 DEF Located0, Running, Names, AtEntry, Value
<1> QED
  BY <1>2, <1>3

LEMMA NextIsOn ==
  ASSUME Next
  PROVE  pc # "running" /\ function' = function
<1>1. CASE Build \/ Restart \/ EndRound
  BY <1>1 DEF Build, Restart, EndRound
<1>2. CASE VisitBlock
  BY <1>2 DEF VisitBlock
<1>3. CASE BuildInterference
  BY <1>3 DEF BuildInterference
<1>4. CASE Coalesce
  BY <1>4 DEF Coalesce
<1>5. ASSUME NEW r \in queue, Color(r) \/ StartSpill(r) PROVE pc # "running" /\ function' = function
  BY <1>5 DEF Color, StartSpill
<1>6. CASE AllColored
  BY <1>6 DEF AllColored
<1>7. CASE SpillCopy
  BY <1>7 DEF SpillCopy
<1>8. CASE SpillConst
  BY <1>8 DEF SpillConst
<1>9. CASE SpillOperands
  BY <1>9 DEF SpillOperands
<1> QED
  BY <1>1, <1>2, <1>3, <1>4, <1>5, <1>6, <1>7, <1>8, <1>9 DEF Next

LEMMA NextComputes ==
  ASSUME Computed, Next, UNCHANGED runVars, Precolors, SpillsOnce
  PROVE  Computed'
<1>1. pc # "running" /\ function' = function
  BY NextIsOn
<1>2. Known /\ Faithful /\ Coded /\ Values /\ Located0 /\ Visited = Blocks
  BY <1>1 DEF Computed, Followed
<1>3. Known'
  <2>1. BuildInterference /\ resume = "precolor" => ColoringProper'
    BY DEF Precolors
  <2> QED
    BY <1>2, <2>1, NextInvariant, NextTyped, NextColors DEF Known
<1>4. Coded' /\ Faithful' /\ Finished' /\ pc' # "running"
  <2>1. Coded' /\ (pc' # "done" => Faithful') /\ Finished' /\ pc' # "running"
    BY <1>2, NextFaithful
  <2>2. pc' = "done" => Faithful'
    BY DEF Faithful
  <2> QED
    BY <2>1, <2>2
<1>5. function' = function
  BY <1>1
<1>6. Values' /\ Located0'
  BY <1>1, <1>2, <1>4, <1>5, RunStays
<1>7. (Visited = Blocks)'
  BY <1>2, <1>5, VisitedStays
<1> QED
  BY <1>3, <1>4, <1>6, <1>7 DEF Computed, Followed, Known, IInv

LEMMA StutterCodes ==
  ASSUME Coded, UNCHANGED vars
  PROVE  Coded'
<1>1. UNCHANGED << function, pc, code, range, reg, victim, slots, cursor, resume >>
  BY DEF vars, liveness
<1>2. /\ Early' = Early /\ Blocks' = Blocks /\ Ranges' = Ranges
      /\ (\A b : Indices(b)' = Indices(b)) /\ (\A v : RegOf(v)' = RegOf(v))
  BY <1>1 DEF Early, Blocks, Ranges, Indices, RegOf
<1>3. Untouched' /\ FromSource'
  BY <1>1, <1>2 DEF Coded, Untouched, FromSource
<1>4. ReadLast'
  BY <1>1, <1>2 DEF Coded, ReadLast
<1>5. TwoColored' /\ OnlyStackPointer'
  BY <1>1, <1>2 DEF Coded, TwoColored, OnlyStackPointer
<1>6. /\ Uncolored' = Uncolored /\ \A b, p : Handled(b, p)' = Handled(b, p)
  BY <1>1 DEF Uncolored, Merging, Handled
<1>7. SlotsKnown' /\ LoadsFirst'
  BY <1>1, <1>2, <1>6 DEF Coded, SlotsKnown, LoadsFirst
<1>8. VictimStored' /\ StoresSettled'
  BY <1>1, <1>2, <1>6 DEF Coded, VictimStored, StoresSettled
<1>9. StackPointerStays'
  BY <1>1, <1>2, <1>6 DEF Coded, StackPointerStays, Source
<1> QED
  BY <1>1, <1>3, <1>4, <1>5, <1>7, <1>8, <1>9 DEF Coded

LEMMA StutterClaims ==
  ASSUME UNCHANGED vars, NEW N, NEW W, Claimed(N, W)
  PROVE  Claimed(N, W)'
<1>1. UNCHANGED << function, pc, code, range, reg, victim, slots, cursor >> /\ Ranges' = Ranges
  BY DEF vars, Ranges
<1>2. Named(N)' /\ Steady(N)'
  BY <1>1, NamesStay DEF Claimed
<1>3. Passed(W)' /\ Located(W)'
  BY <1>1, PlacesStay DEF Claimed, Claims
<1>4. Fitting(W, N)'
  BY <1>1 DEF Claimed, Claims, Fitting, PlaceAt, Slotted, Handled, Blocks, Indices
<1>5. Arrived(W)' /\ Raw(W)'
  BY <1>1 DEF Claimed, Claims, Arrived, Raw, AtStore, Handled, Names, Blocks
<1> QED
  BY <1>2, <1>3, <1>4, <1>5 DEF Claimed, Claims

LEMMA StutterComputes ==
  ASSUME Computed, UNCHANGED << vars, runVars >>
  PROVE  Computed'
<1>1. UNCHANGED vars /\ UNCHANGED runVars
  OBVIOUS
<1>2. /\ UNCHANGED << function, pc, code, range, reg, slots, victim, wasSpilled, queue, merged >>
      /\ UNCHANGED << liveIn, resume, assignments, spillCost, at, env, regs, frame, neighbors, cursor >>
      /\ Ranges' = Ranges /\ Blocks' = Blocks
  BY <1>1 DEF vars, runVars, liveness, costs, Ranges, Blocks
<1>3. Shape'
  BY <1>2 DEF Computed, Shape, CodeTyped, RangesTyped, LiveTyped, Mutual, BeforePrecolor, CursorInCode, AtEnd
<1>4. Typed'
  BY <1>2 DEF Computed, Typed, RegistersTyped, CostsTyped, ControlTyped, Kept
<1>5. Coded'
  BY <1>1, StutterCodes DEF Computed
<1>6. ASSUME NEW N, NEW W, Claimed(N, W) PROVE Claimed(N, W)'
  BY <1>1, <1>6, StutterClaims
<1>7. ASSUME NEW N, NEW W, NEW A, Claimed(N, W), Within(W, A) PROVE Claimed(N, W)' /\ Within(W, A)'
  BY <1>2, <1>6, <1>7, WithinStays
<1>8. ASSUME pc # "running" PROVE Known' /\ Faithful'
  <2>1. Known'
    <3>1. [Next]_vars /\ [BuildInterference /\ resume = "precolor" => ColoringProper']_vars
      BY <1>1
    <3> QED
      BY <1>8, <3>1, NextInvariant, NextTyped, NextColors DEF Known, Computed
  <2>2. Faithful
    BY <1>8 DEF Computed
  <2>3. ASSUME pc \in {"liveness", "color", "spill"}, ~ Early PROVE \E N, W : Claimed(N, W)'
    BY <1>6, <2>2, <2>3 DEF Faithful
  <2>4. ASSUME pc = "coalesce" PROVE \E N, W, A : Claimed(N, W)' /\ Annotates(A)' /\ Within(W, A)'
    <3>1. PICK N, W, A : Claimed(N, W) /\ Annotates(A) /\ Within(W, A)
      BY <2>2, <2>4 DEF Faithful
    <3>2. Visited' = Visited /\ Tracked' = Tracked /\ Adjacent' = Adjacent
      BY <1>2, VisitedStays DEF Tracked, Adjacent
    <3>3. Annotates(A)'
      BY <1>2, <3>1, <3>2 DEF Annotates, Sound, Flows
    <3> QED
      BY <1>7, <3>1, <3>3
  <2>5. Early' = Early
    BY <1>2 DEF Early
  <2> QED
    BY <1>2, <2>1, <2>3, <2>4, <2>5 DEF Faithful
<1>9. Finished'
  <2> SUFFICES ASSUME pc \in {"done", "running"}
               PROVE (\A r \in Ranges : reg[r] # NoReg) /\ \E N, W, A : Proven(N, W, A)'
    BY <1>2 DEF Finished, NoReg
  <2>1. PICK N, W, A : Proven(N, W, A)
    BY DEF Computed, Followed, Finished
  <2>2. ColorsApart(A)'
    BY <1>2, <2>1, ColorsApartStays DEF Proven
  <2>3. (Running => Holds(W[at[1]][Point]))'
    BY <1>2, <2>1 DEF Proven, Running, Holds, Content, Point, Names
  <2>4. Proven(N, W, A)'
    BY <1>7, <2>1, <2>2, <2>3 DEF Proven
  <2> QED
    BY <2>4 DEF Computed, Followed, Finished
<1>10. Values' /\ Located0'
  BY <1>2 DEF Computed, Followed, Values, Located0, Names, SourceOf, Registers, RSP, Running, Indices, AtEntry, Value
<1>11. (Visited = Blocks)'
  BY <1>2, VisitedStays DEF Computed
<1> QED
  BY <1>2, <1>3, <1>4, <1>5, <1>8, <1>9, <1>10, <1>11 DEF Computed, Followed

LEMMA EnterComputes ==
  ASSUME Computed, Enter
  PROVE  Computed'
<1>1. /\ UNCHANGED << function, code, range, reg, slots, victim, wasSpilled, queue, merged >>
      /\ UNCHANGED << liveIn, resume, assignments, spillCost, neighbors, cursor >>
      /\ Ranges' = Ranges /\ Blocks' = Blocks /\ pc = "done" /\ pc' = "running"
  BY DEF Enter, liveness, costs, Ranges, Blocks
<1>2. Shape'
  BY <1>1 DEF Computed, Shape, CodeTyped, RangesTyped, LiveTyped, Mutual, BeforePrecolor, CursorInCode, AtEnd
<1>3. Typed'
  BY <1>1 DEF Computed, Typed, RegistersTyped, CostsTyped, ControlTyped, Kept
<1>4. Coded'
  <2>1. ~ Early /\ ~ Early' /\ ~ Uncolored' /\ pc' # "spill"
    BY <1>1 DEF Early, Uncolored, Merging
  <2> QED
    BY <1>1, <2>1, RegistersStay, CodedStays DEF Computed
<1>5. Followed'
  BY EnterFollows DEF Computed
<1>6. (Visited = Blocks)'
  BY <1>1, VisitedStays DEF Computed
<1> QED
  BY <1>1, <1>2, <1>3, <1>4, <1>5, <1>6 DEF Computed

LEMMA ExecuteComputes ==
  ASSUME Computed, Execute
  PROVE  Computed'
<1>1. /\ UNCHANGED << function, code, range, reg, slots, victim, wasSpilled, queue, merged >>
      /\ UNCHANGED << liveIn, resume, assignments, spillCost, neighbors, cursor, pc >>
      /\ UNCHANGED vars /\ Ranges' = Ranges /\ Blocks' = Blocks
  BY DEF Execute, vars, liveness, costs, Ranges, Blocks
<1>2. pc = "running"
  BY DEF Execute, Computed, Followed, Located0
<1>3. Shape'
  BY <1>1 DEF Computed, Shape, CodeTyped, RangesTyped, LiveTyped, Mutual, BeforePrecolor, CursorInCode, AtEnd
<1>4. Typed'
  BY <1>1 DEF Computed, Typed, RegistersTyped, CostsTyped, ControlTyped, Kept
<1>5. Coded'
  BY <1>1, StutterCodes DEF Computed
<1>6. Followed'
  BY ExecuteFollows DEF Computed
<1>7. (Visited = Blocks)'
  BY <1>1, VisitedStays DEF Computed
<1> QED
  BY <1>1, <1>2, <1>3, <1>4, <1>5, <1>6, <1>7 DEF Computed

LEMMA InitComputes ==
  ASSUME RunInit, Disciplined(function), Visited = Blocks
  PROVE  Computed
<1>1. Init /\ pc = "build" /\ at = << 0, 0 >> /\ env = [n \in Names(function) |-> AtEntry(n)]
  BY DEF RunInit, Init, Names
<1>2. Known
  BY <1>1, InitInvariant, InitTyped, InitColors DEF Known
<1>3. Coded /\ Faithful
  BY <1>1, InitCoded DEF Faithful
<1>4. Finished /\ Located0
  BY <1>1 DEF Finished, Located0, Running
<1>5. Values
  <2>1. DOMAIN env = Names(function) /\ DOMAIN regs = Registers /\ DOMAIN frame = 1 .. MaxSpills
    BY <1>1 DEF RunInit
  <2>2. function \in Functions
    BY <1>2 DEF Known, IInv, Shape
  <2>3. ASSUME NEW n \in Names(function), NEW o \in SourceOf(function) PROVE env[n][1] # o.id
    BY <1>1, <1>3, <2>2, SourceFacts DEF Coded, AtEntry, Value
  <2> QED
    BY <2>1, <2>3 DEF Values
<1> QED
  BY <1>2, <1>3, <1>4, <1>5 DEF Computed, Followed, Known, IInv

LEMMA RunComputes ==
  Computed /\ [RunNext]_<< vars, runVars >> /\ [Precolors /\ SpillsOnce]_vars => Computed'
<1> SUFFICES ASSUME Computed, [RunNext]_<< vars, runVars >>, [Precolors /\ SpillsOnce]_vars PROVE Computed'
  OBVIOUS
<1>1. CASE UNCHANGED << vars, runVars >>
  BY <1>1, StutterComputes
<1>2. CASE Next /\ UNCHANGED runVars /\ ~ UNCHANGED vars
  BY <1>2, NextComputes
<1>3. CASE Enter
  BY <1>3, EnterComputes
<1>4. CASE Execute
  BY <1>4, ExecuteComputes
<1> QED
  BY <1>1, <1>2, <1>3, <1>4 DEF RunNext

(* The code the allocator leaves computes what it was given: whatever path *)
(* is taken, every instruction finds in the registers and the stack slots  *)
(* it reads the values of its variables, after any merges and spills.  The *)
(* structures of the code are shared as the selector shares temporaries,   *)
(* the liveness pass reaches every block, and the function's own           *)
(* precolouring is proper (precolor_function), with what is live at its    *)
(* start among its parameters. What has been spilled is not spilled again  *)
(* where a structure is updated or computed in one block for another ("If  *)
(* this was already spilled, we can't spill it again",                     *)
(* compute_spill_costs).                                                   *)
THEOREM AllocatedCodeComputes ==
  RunSpec /\ Disciplined(function) /\ Visited = Blocks /\ [][Precolors /\ SpillsOnce]_vars
  => []UsesSeeTheirValues
<1>1. RunInit /\ Disciplined(function) /\ Visited = Blocks => Computed
  BY InitComputes
<1>2. Computed /\ [RunNext]_<< vars, runVars >> /\ [Precolors /\ SpillsOnce]_vars => Computed'
  BY RunComputes
<1>3. Computed => UsesSeeTheirValues
  BY FollowedSees DEF Computed
<1> QED
  BY <1>1, <1>2, <1>3, PTL DEF RunSpec
=============================================================================
