---------------------------- MODULE FramesProofs ----------------------------
(***************************************************************************)
(* Proofs about Frames, for any types, any number of registers and any     *)
(* bounds.                                                                 *)
(*                                                                         *)
(* That regions are disjoint is inductive once it is known which of them   *)
(* the realigning loop has come to (InOrder) and that everything that is   *)
(* placed has a size (Typed).  That the addresses in the code are current  *)
(* rests on one fact: after the optimizer's sweep there is no region       *)
(* without a mark, so that the selector's sweep moves nothing              *)
(* (NothingMoves).  That arguments are found compares two areas by where   *)
(* the first i parameters end in the first of them (Ends, Agree).          *)
(***************************************************************************)
EXTENDS Frames, SequenceTheorems, FiniteSetTheorems, TLAPS

AreaTyped ==
  /\ typeOf \in Seq(TypeSet) /\ base \in Seq(Nat) /\ Len(base) = Len(typeOf)
  /\ regions \subseteq 1 .. Len(typeOf) /\ pending \subseteq regions
  /\ total \in Nat

MemberSet == [ offset : Nat, size : Nat, align : Alignments ]
OpenAggregateTyped ==
  open.class \in {"struct", "union"} =>
    /\ open \in [ class : {"struct", "union"}, complete : BOOLEAN, size : Nat, align : Alignments \cup {0},
                  members : Seq(MemberSet) ]
    /\ open.members # << >> => open.align \in Alignments

Typed ==
  /\ types \subseteq TypeSet
  /\ "class" \in DOMAIN open /\ OpenAggregateTyped
  /\ signature \in Seq(TypeSet)
  /\ elaborated \in TypeSet \cup {NoDefinition}

(* The loop comes to the regions in their order. *)
InOrder == \A r \in LaidOut, p \in pending : r < p

NothingMoves ==
  /\ phase \in {"swept", "selecting"} => regions \subseteq marked
  /\ pending # {} => phase = "swept"
  /\ offsets # {} => phase \in {"selecting", "allocating", "framed"}
  /\ \A o \in offsets : o[1] \in regions /\ base[o[1]] = o[2]

AreaInv == AreaTyped /\ InOrder /\ RegionsDisjoint
IInv == AreaInv /\ Typed /\ NothingMoves

-----------------------------------------------------------------------------
(* A region begins at or after the end of what is taken. *)
LEMMA StartAfter ==
  ASSUME NEW n \in Nat, NEW t \in TypeSet
  PROVE  /\ StartOf(n, t) \in Nat /\ StartOf(n, t) >= n
         /\ SizeOf(t) \in Nat
<1>1. t.size \in Nat /\ t.align \in Nat \ {0}
  BY DEF TypeSet, Alignments
<1>2. n % t.align \in Nat
  BY <1>1
<1>3. RoundUp(n, 16) \in Nat /\ RoundUp(n, 16) >= n
  BY DEF RoundUp
<1> QED
  BY <1>1, <1>2, <1>3 DEF StartOf, SizeOf

(* The next multiple of a unit. *)
LEMMA NextMultiple ==
  ASSUME NEW n \in Nat, NEW unit \in Nat \ {0}
  PROVE  RoundUpTo(n, unit) \in Nat /\ RoundUpTo(n, unit) >= n
<1>1. n % unit \in 0 .. unit - 1
  OBVIOUS
<1>2. \/ n % unit = 0
      \/ (n - (n % unit)) + unit \in Nat /\ (n - (n % unit)) + unit >= n
  BY <1>1
<1> QED
  BY <1>2 DEF RoundUpTo

-----------------------------------------------------------------------------
(* The operations of a stack data area. *)

(* A new area has no regions. *)
LEMMA EmptyArea ==
  ASSUME NEW k, Alloc(k)
  PROVE  AreaInv'
BY DEF Alloc, AreaInv, AreaTyped, InOrder, RegionsDisjoint, LaidOut

(* A new region lies behind all the others, and moves none of them. *)
LEMMA CreateKeeps ==
  ASSUME AreaInv, NEW t \in TypeSet, create_stack_region_for_type(t)
  PROVE  /\ AreaInv'
         /\ NextId \in regions' /\ base'[NextId] = StartOf(total, t)
         /\ \A r \in regions : r \in regions' /\ base'[r] = base[r]
         /\ pending = {} /\ pending' = {}
<1> PICK id : id = NextId
  OBVIOUS
<1> DEFINE start == StartOf(total, t)
<1>1. /\ typeOf \in Seq(TypeSet) /\ base \in Seq(Nat) /\ Len(base) = Len(typeOf)
      /\ regions \subseteq 1 .. Len(typeOf) /\ total \in Nat
  BY DEF AreaInv, AreaTyped
<1>2. start \in Nat /\ start >= total /\ SizeOf(t) \in Nat
  BY <1>1, StartAfter
<1>3. /\ pending = {} /\ pending' = {} /\ regions' = regions \cup {id}
      /\ typeOf' = Append(typeOf, t) /\ base' = Append(base, start)
      /\ total' = start + SizeOf(t) /\ id = Len(typeOf) + 1
  BY DEF create_stack_region_for_type, Idle, NextId
<1>4. /\ typeOf' \in Seq(TypeSet) /\ base' \in Seq(Nat)
      /\ Len(typeOf') = Len(typeOf) + 1 /\ Len(base') = Len(base) + 1
      /\ typeOf'[id] = t /\ base'[id] = start
      /\ \A r \in 1 .. Len(typeOf) : typeOf'[r] = typeOf[r] /\ base'[r] = base[r]
  BY <1>1, <1>2, <1>3, AppendProperties
<1>5. AreaTyped'
  <2>1. Len(typeOf) \in Nat
    BY <1>1, LenProperties
  <2>2. regions' \subseteq 1 .. Len(typeOf')
    <3> SUFFICES ASSUME NEW r \in regions' PROVE r \in 1 .. Len(typeOf')
      OBVIOUS
    <3>1. CASE r \in regions
      BY <1>1, <1>4, <2>1, <3>1
    <3>2. CASE r = id
      BY <1>3, <1>4, <2>1, <3>2
    <3> QED
      BY <1>3, <3>1, <3>2
  <2>3. total' \in Nat
    BY <1>2, <1>3
  <2>4. pending' \subseteq regions' /\ Len(base') = Len(typeOf')
    BY <1>1, <1>3, <1>4
  <2> QED
    BY <1>4, <2>2, <2>3, <2>4 DEF AreaTyped
<1>6. InOrder'
  BY <1>3 DEF InOrder
<1>7. LaidOut = regions /\ LaidOut' = regions \cup {id}
  BY <1>3 DEF LaidOut
<1>8. /\ \A r \in regions : End(r)' = End(r) /\ End(r) <= total /\ End(r) \in Nat
      /\ End(id)' = total'
  <2>1. \A r \in regions : End(r) \in Nat
    <3> SUFFICES ASSUME NEW r \in regions PROVE End(r) \in Nat
      OBVIOUS
    <3>1. typeOf[r] \in TypeSet /\ base[r] \in Nat
      BY <1>1, ElementOfSeq
    <3> QED
      BY <3>1, StartAfter DEF End
  <2>2. \A r \in regions : End(r)' = End(r)
    BY <1>1, <1>4 DEF End, SizeOf
  <2>3. \A r \in regions : End(r) <= total
    BY <1>7 DEF AreaInv, RegionsDisjoint
  <2>4. End(id)' = total'
    BY <1>3, <1>4 DEF End, SizeOf
  <2> QED
    BY <2>1, <2>2, <2>3, <2>4
<1>9. RegionsDisjoint'
  <2>1. ASSUME NEW r \in LaidOut', NEW s \in LaidOut', r < s
        PROVE  (End(r) <= base[s])'
    <3>1. CASE s = id
      BY <1>1, <1>2, <1>3, <1>4, <1>7, <1>8, <2>1, <3>1
    <3>2. CASE s # id
      <4>1. s \in regions /\ r \in regions
        BY <1>1, <1>3, <1>7, <2>1, <3>2
      <4>2. End(r) <= base[s]
        BY <1>7, <2>1, <4>1 DEF AreaInv, RegionsDisjoint
      <4> QED
        BY <1>1, <1>4, <1>8, <4>1, <4>2
    <3> QED
      BY <3>1, <3>2
  <2>2. ASSUME NEW r \in LaidOut'
        PROVE  (End(r) <= total)'
    BY <1>1, <1>2, <1>3, <1>7, <1>8, <2>2
  <2> QED
    BY <2>1, <2>2 DEF RegionsDisjoint
<1> QED
  BY <1>1, <1>3, <1>4, <1>5, <1>6, <1>9 DEF AreaInv, NextId

(* A mark moves nothing. *)
LEMMA MarkKeeps ==
  ASSUME AreaInv, NEW r, mark_stack_region(r)
  PROVE  AreaInv' /\ UNCHANGED << regions, typeOf, base, pending >> /\ marked' = marked \cup {r}
BY DEF mark_stack_region, AreaInv, AreaTyped, InOrder, RegionsDisjoint, LaidOut, End, SizeOf

(* Sweeping leaves regions with marks, all of them to be laid out again if *)
(* one has gone.                                                           *)
LEMMA SweepKeeps ==
  ASSUME AreaInv, sweep_stack_data_area
  PROVE  /\ AreaInv' /\ regions' \subseteq marked' /\ pending = {}
         /\ regions \subseteq marked => UNCHANGED << regions, typeOf, base, pending >>
<1>1. /\ pending = {} /\ regions' = regions \cap marked /\ UNCHANGED << typeOf, base, marked >>
      /\ regions \subseteq marked => UNCHANGED << total, pending >>
      /\ ~ (regions \subseteq marked) => total' = 0 /\ pending' = regions'
  BY DEF sweep_stack_data_area, Idle
<1>2. AreaTyped'
  <2>1. total' \in Nat /\ pending' \subseteq regions'
    BY <1>1 DEF AreaInv, AreaTyped
  <2>2. regions' \subseteq 1 .. Len(typeOf')
    BY <1>1 DEF AreaInv, AreaTyped
  <2> QED
    BY <1>1, <2>1, <2>2 DEF AreaInv, AreaTyped
<1>3. CASE regions \subseteq marked
  BY <1>1, <1>2, <1>3 DEF AreaInv, InOrder, RegionsDisjoint, LaidOut, End, SizeOf
<1>4. CASE ~ (regions \subseteq marked)
  <2>1. LaidOut' = {}
    BY <1>1, <1>4 DEF LaidOut
  <2> QED
    BY <1>1, <1>2, <1>4, <2>1 DEF AreaInv, InOrder, RegionsDisjoint
<1> QED
  BY <1>3, <1>4

(* The loop puts the next region behind those it has come to. *)
LEMMA RealignKeeps ==
  ASSUME AreaInv, realign_data_area
  PROVE  AreaInv' /\ UNCHANGED << regions, marked >> /\ pending # {}
<1>1. PICK r \in pending :
        /\ \A s \in pending : r <= s
        /\ base' = [ base EXCEPT ![r] = StartOf(total, typeOf[r]) ]
        /\ total' = StartOf(total, typeOf[r]) + SizeOf(typeOf[r])
        /\ pending' = pending \ {r}
        /\ UNCHANGED << kind, regions, typeOf, marked >>
  BY DEF realign_data_area
<1> DEFINE start == StartOf(total, typeOf[r])
<1>2. /\ typeOf \in Seq(TypeSet) /\ base \in Seq(Nat) /\ Len(base) = Len(typeOf)
      /\ regions \subseteq 1 .. Len(typeOf) /\ pending \subseteq regions /\ total \in Nat
  BY DEF AreaInv, AreaTyped
<1>3. \A s \in regions : typeOf[s] \in TypeSet /\ base[s] \in Nat
  BY <1>2, ElementOfSeq
<1>4. start \in Nat /\ start >= total /\ SizeOf(typeOf[r]) \in Nat
  BY <1>1, <1>2, <1>3, StartAfter
<1>5. /\ base' \in Seq(Nat) /\ Len(base') = Len(base) /\ base'[r] = start
      /\ \A s \in regions : s # r => base'[s] = base[s]
  <2>1. r \in 1 .. Len(base)
    BY <1>1, <1>2
  <2>2. base' \in Seq(Nat) /\ Len(base') = Len(base)
    BY <1>1, <1>2, <1>4, <2>1, ExceptSeq
  <2>3. DOMAIN base = 1 .. Len(base)
    BY <1>2, LenProperties
  <2> QED
    BY <1>1, <1>2, <2>1, <2>2, <2>3
<1>6. AreaTyped'
  <2>1. total' \in Nat
    BY <1>1, <1>4
  <2> QED
    BY <1>1, <1>2, <1>5, <2>1 DEF AreaTyped
<1>7. LaidOut' = LaidOut \cup {r} /\ r \notin LaidOut /\ LaidOut \subseteq regions
  BY <1>1, <1>2 DEF LaidOut
<1>8. /\ \A s \in LaidOut : End(s)' = End(s) /\ End(s) \in Nat /\ End(s) <= total /\ s < r
      /\ End(r)' = total'
  <2>1. \A s \in LaidOut : End(s)' = End(s)
    BY <1>1, <1>5, <1>7 DEF End, SizeOf
  <2>2. ASSUME NEW s \in LaidOut PROVE End(s) \in Nat
    <3>1. typeOf[s] \in TypeSet /\ base[s] \in Nat
      BY <1>3, <1>7
    <3> QED
      BY <3>1, StartAfter DEF End
  <2>3. \A s \in LaidOut : End(s) <= total /\ s < r
    BY <1>1 DEF AreaInv, RegionsDisjoint, InOrder
  <2>4. End(r)' = total'
    BY <1>1, <1>5 DEF End, SizeOf
  <2> QED
    BY <2>1, <2>2, <2>3, <2>4
<1>9. InOrder'
  <2> SUFFICES ASSUME NEW s \in LaidOut', NEW p \in pending' PROVE s < p
    BY DEF InOrder
  <2>1. p \in pending /\ p # r /\ r <= p /\ p \in Nat /\ r \in Nat
    BY <1>1, <1>2
  <2>2. CASE s = r
    BY <2>1, <2>2
  <2>3. CASE s # r
    BY <1>7, <2>1, <2>3 DEF AreaInv, InOrder
  <2> QED
    BY <2>2, <2>3
<1>10. RegionsDisjoint'
  <2>1. ASSUME NEW s \in LaidOut', NEW q \in LaidOut', s < q
        PROVE  (End(s) <= base[q])'
    <3>1. CASE q = r
      <4>1. s \in LaidOut
        BY <1>1, <1>2, <1>7, <2>1, <3>1
      <4> QED
        BY <1>2, <1>4, <1>5, <1>8, <3>1, <4>1
    <3>2. CASE q # r
      <4>1. q \in LaidOut /\ q < r
        BY <1>7, <1>8, <3>2
      <4>2. s \in LaidOut
        BY <1>1, <1>2, <1>7, <2>1, <4>1
      <4>3. End(s) <= base[q]
        BY <2>1, <4>1, <4>2 DEF AreaInv, RegionsDisjoint
      <4> QED
        BY <1>5, <1>7, <1>8, <3>2, <4>1, <4>2, <4>3
    <3> QED
      BY <3>1, <3>2
  <2>2. ASSUME NEW s \in LaidOut'
        PROVE  (End(s) <= total)'
    BY <1>1, <1>2, <1>4, <1>7, <1>8, <2>2
  <2> QED
    BY <2>1, <2>2 DEF RegionsDisjoint
<1> QED
  BY <1>1, <1>6, <1>9, <1>10 DEF AreaInv

(* Alignment makes the area larger and moves nothing. *)
LEMMA AlignKeeps ==
  ASSUME AreaInv, align_stack_data_area
  PROVE  AreaInv' /\ UNCHANGED << regions, typeOf, base, marked, pending >>
<1>1. total \in Nat /\ UNCHANGED << regions, typeOf, base, marked, pending >>
  BY DEF AreaInv, AreaTyped, align_stack_data_area
<1>2. total' \in Nat /\ total' >= total
  BY <1>1 DEF align_stack_data_area, RoundUp
<1>3. \A r \in LaidOut : End(r) \in Nat
  <2> SUFFICES ASSUME NEW r \in LaidOut PROVE End(r) \in Nat
    OBVIOUS
  <2>1. typeOf[r] \in TypeSet /\ base[r] \in Nat
    BY ElementOfSeq DEF AreaInv, AreaTyped, LaidOut
  <2> QED
    BY <2>1, StartAfter DEF End
<1>4. AreaTyped' /\ InOrder'
  BY <1>1, <1>2 DEF AreaInv, AreaTyped, InOrder, LaidOut
<1>5. RegionsDisjoint'
  BY <1>1, <1>2, <1>3 DEF AreaInv, RegionsDisjoint, LaidOut, End, SizeOf
<1> QED
  BY <1>1, <1>4, <1>5 DEF AreaInv

-----------------------------------------------------------------------------
(* Definitions leave types with a size and an alignment. *)

(* A class with a size and an alignment is a type. *)
LEMMA TypeTyped ==
  ASSUME NEW class \in Classes, NEW size \in Nat, NEW align \in Alignments
  PROVE  Type(class, size, align) \in TypeSet
BY DEF Type, TypeSet

(* Every type that can be spelled is one. *)
LEMMA SpelledTyped ==
  ASSUME types \subseteq TypeSet
  PROVE  Spelled \subseteq TypeSet
<1> SUFFICES ASSUME NEW t \in types, NEW n \in Bounds PROVE ArrayOf(t, n) \in TypeSet
  BY DEF Spelled, Arrays
<1>1. t.size \in Nat /\ t.align \in Alignments /\ n \in Nat
  BY BoundsAssumption DEF TypeSet
<1>2. n * t.size \in Nat
  BY <1>1
<1> QED
  BY <1>1, <1>2, TypeTyped DEF ArrayOf, Classes

(* What a list is passed as, and what its members are, are types. *)
LEMMA PassedTyped ==
  ASSUME NEW t \in TypeSet
  PROVE  Passed(t) \in TypeSet /\ ListOf(t) \in TypeSet /\ Count \in TypeSet
<1>1. Pointer \in TypeSet /\ Count \in TypeSet
  BY TypeTyped DEF Pointer, Count, Classes, Alignments
<1>2. Passed(t) \in TypeSet /\ Passed(t).align \in Alignments
  BY <1>1 DEF Passed, TypeSet
<1> QED
  BY <1>1, <1>2, TypeTyped DEF ListOf, Classes

(* The size an enumeration gets is one of four. *)
LEMMA EnumerationSize ==
  ASSUME NEW v
  PROVE  determine_required_minimum_signed_integer_type_size(v) \in {1, 2, 4, 8}
<1> DEFINE Holds(n) == AsSigned(v, n) = AsSigned(v, 8)
<1>1. \E n \in {1, 2, 4, 8} : Holds(n) /\ \A m \in {1, 2, 4, 8} : m < n => ~ Holds(m)
  <2>1. Holds(8)
    OBVIOUS
  <2> HIDE DEF Holds
  <2>2. CASE Holds(1)
    BY <2>2
  <2>3. CASE ~ Holds(1) /\ Holds(2)
    BY <2>3
  <2>4. CASE ~ Holds(1) /\ ~ Holds(2) /\ Holds(4)
    BY <2>4
  <2>5. CASE ~ Holds(1) /\ ~ Holds(2) /\ ~ Holds(4)
    BY <2>1, <2>5
  <2> QED
    BY <2>2, <2>3, <2>4, <2>5
<1> QED
  BY <1>1 DEF determine_required_minimum_signed_integer_type_size

(* A member that is added has an alignment, and so has what it is part of. *)
LEMMA MemberAdded ==
  ASSUME Typed, open.class \in {"struct", "union"}, NEW t \in TypeSet,
         NEW offset \in Nat, NEW size \in Nat,
         open' = [ open EXCEPT !.members = Append(@, Member(t, offset)),
                               !.size = size,
                               !.align = Max2(@, t.align) ],
         UNCHANGED << types, signature, elaborated >>
  PROVE  Typed'
<1>1. /\ open \in [ class : {"struct", "union"}, complete : BOOLEAN, size : Nat, align : Alignments \cup {0},
                     members : Seq(MemberSet) ]
  BY DEF Typed, OpenAggregateTyped
<1>2. t.size \in Nat /\ t.align \in Alignments
  BY DEF TypeSet
<1>3. Member(t, offset) \in MemberSet
  BY <1>2 DEF Member, MemberSet
<1>4. Max2(open.align, t.align) \in Alignments
  BY <1>1, <1>2 DEF Max2, Alignments
<1>5. Append(open.members, Member(t, offset)) \in Seq(MemberSet)
  BY <1>1, <1>3
<1>6. /\ open' \in [ class : {"struct", "union"}, complete : BOOLEAN, size : Nat, align : Alignments \cup {0},
                      members : Seq(MemberSet) ]
      /\ open'.align \in Alignments
  BY <1>1, <1>4, <1>5
<1> QED
  BY <1>6 DEF Typed, OpenAggregateTyped

(* Every step of a definition leaves types. *)
LEMMA DefinitionKeeps ==
  ASSUME Typed, TypesNext, UNCHANGED << signature, elaborated >>
  PROVE  Typed'
<1>1. Spelled \subseteq TypeSet
  BY SpelledTyped DEF Typed
<1>2. ASSUME open.class \in {"struct", "union"}
      PROVE  /\ open \in [ class : {"struct", "union"}, complete : BOOLEAN, size : Nat, align : Alignments \cup {0},
                            members : Seq(MemberSet) ]
             /\ open.members # << >> => open.align \in Alignments
  BY <1>2 DEF Typed, OpenAggregateTyped
<1>3. ASSUME UNCHANGED << types, open >> PROVE Typed'
  BY <1>3 DEF Typed, OpenAggregateTyped
<1>4. ASSUME NEW class \in {"struct", "union"}, OpenAggregate(class) PROVE Typed'
  BY <1>4 DEF OpenAggregate, Typed, OpenAggregateTyped
<1>5. ASSUME NEW t \in Spelled, add_struct_member(t) PROVE Typed'
  <2> DEFINE end == EndOf(open.members)
             offset == RoundUpTo(end, t.align)
             size == open.size + t.size + (offset - end)
  <2>1. t \in TypeSet /\ t.size \in Nat /\ t.align \in Nat \ {0}
    BY <1>1 DEF TypeSet, Alignments
  <2>2. end \in Nat
    <3>1. CASE open.members = << >>
      BY <3>1 DEF EndOf
    <3>2. CASE open.members # << >>
      <4>1. open.members \in Seq(MemberSet)
        BY <1>2, <1>5 DEF add_struct_member, Defining
      <4>2. Last(open.members) \in MemberSet
        <5>1. Len(open.members) \in 1 .. Len(open.members)
          BY <3>2, <4>1, EmptySeq, LenProperties
        <5> QED
          BY <4>1, <5>1, ElementOfSeq DEF Last
      <4> QED
        BY <3>2, <4>2 DEF EndOf, MemberSet
    <3> QED
      BY <3>1, <3>2
  <2>3. offset \in Nat /\ offset >= end
    BY <2>1, <2>2, NextMultiple
  <2> HIDE DEF end, offset
  <2>4. open.class = "struct" /\ open.size \in Nat /\ size \in Nat
    BY <1>2, <1>5, <2>1, <2>2, <2>3 DEF add_struct_member, Defining
  <2> HIDE DEF size
  <2>5. /\ open' = [ open EXCEPT !.members = Append(@, Member(t, offset)),
                                 !.size = size, !.align = Max2(@, t.align) ]
        /\ UNCHANGED << types, signature, elaborated >>
    BY <1>5 DEF add_struct_member, end, offset, size
  <2> QED
    BY <2>1, <2>3, <2>4, <2>5, MemberAdded
<1>6. ASSUME NEW t \in Spelled, add_union_member(t) PROVE Typed'
  <2> DEFINE size == Max2(open.size, t.size)
  <2>1. t \in TypeSet /\ t.size \in Nat
    BY <1>1 DEF TypeSet
  <2>2. open.class = "union" /\ size \in Nat
    BY <1>2, <1>6, <2>1 DEF add_union_member, Defining, Max2
  <2>3. /\ open' = [ open EXCEPT !.members = Append(@, Member(t, 0)),
                                 !.size = size, !.align = Max2(@, t.align) ]
        /\ UNCHANGED << types, signature, elaborated >>
    BY <1>6 DEF add_union_member
  <2> HIDE DEF size
  <2> QED
    BY <2>1, <2>2, <2>3, MemberAdded
<1>7. ASSUME NEW class \in {"struct", "union"}, CloseAggregate(class) PROVE Typed'
  <2>1. /\ open \in [ class : {"struct", "union"}, complete : BOOLEAN, size : Nat, align : Alignments \cup {0},
                       members : Seq(MemberSet) ]
        /\ open.align \in Alignments
    BY <1>2, <1>7 DEF CloseAggregate, Defining
  <2>2. FinalSize \in Nat
    <3>1. Max2(open.align, 2) \in Nat \ {0} /\ open.size \in Nat
      BY <2>1 DEF Max2, Alignments
    <3> QED
      BY <3>1, NextMultiple DEF FinalSize
  <2>3. /\ open' = [ open EXCEPT !.complete = TRUE, !.size = FinalSize ]
        /\ types' = types \cup { Type(open.class, FinalSize, open.align) }
    BY <1>7 DEF CloseAggregate
  <2>4. types' \subseteq TypeSet
    BY <2>1, <2>2, <2>3, TypeTyped DEF Classes, Typed
  <2>5. /\ open' \in [ class : {"struct", "union"}, complete : BOOLEAN, size : Nat, align : Alignments \cup {0},
                        members : Seq(MemberSet) ]
        /\ open'.align \in Alignments
    BY <2>1, <2>2, <2>3
  <2> QED
    BY <2>4, <2>5 DEF Typed, OpenAggregateTyped
<1>8. ASSUME OpenEnumeration PROVE Typed'
  BY <1>8 DEF OpenEnumeration, Typed, OpenAggregateTyped
<1>9. ASSUME NEW v \in Constants, ExplicitMember(v) PROVE Typed'
  BY <1>9, <1>3 DEF ExplicitMember, Defining, Reject, Typed, OpenAggregateTyped
<1>10. ASSUME ImplicitMember PROVE Typed'
  BY <1>10, <1>3 DEF ImplicitMember, Defining, Reject, Typed, OpenAggregateTyped
<1>11. ASSUME CloseEnumeration PROVE Typed'
  <2> PICK size \in {1, 2, 4, 8} :
        size = determine_required_minimum_signed_integer_type_size(open.largest)
    BY EnumerationSize
  <2>1. types' = types \cup { Type("enum", size, size) }
    BY <1>11 DEF CloseEnumeration
  <2>2. types' \subseteq TypeSet
    BY <2>1, TypeTyped DEF Classes, Alignments, Typed
  <2> QED
    BY <1>11, <2>2 DEF CloseEnumeration, Defining, Typed, OpenAggregateTyped
<1>12. ASSUME \/ switch_statement
              \/ (Defining("struct") \/ Defining("union")) /\ Reject("member")
              \/ \E style \in Styles : default_statement(style)
              \/ \E v \in CaseConstants, style \in Styles : case_statement(v, style)
       PROVE  Typed'
  BY <1>12, <1>3 DEF default_statement, switch_statement, case_statement, Reject
<1> QED
  BY <1>4, <1>5, <1>6, <1>7, <1>8, <1>9, <1>10, <1>11, <1>12
  DEF TypesNext, struct_definer, struct_member, struct_member_list, union_definer, union_member,
      union_member_list

-----------------------------------------------------------------------------
(* Steps in which no address is in the code yet. *)
Quiet(p) == p \notin {"swept", "selecting", "allocating", "framed"}
LEMMA QuietStep ==
  ASSUME NothingMoves, Quiet(phase), Quiet(phase'), UNCHANGED offsets, pending' = {}
  PROVE  NothingMoves'
BY DEF NothingMoves, Quiet

(* In them, the area is idle. *)
LEMMA QuietIsIdle ==
  ASSUME NothingMoves, Quiet(phase)
  PROVE  pending = {} /\ offsets = {}
BY DEF NothingMoves, Quiet

(* A step that leaves the area alone leaves what is said of it. *)
LEMMA SameArea ==
  ASSUME AreaInv, UNCHANGED area
  PROVE  AreaInv'
BY DEF area, AreaInv, AreaTyped, InOrder, RegionsDisjoint, LaidOut, End, SizeOf

(* And so for types and signatures. *)
LEMMA SameTypes ==
  ASSUME Typed, UNCHANGED << types, open, signature, elaborated >>
  PROVE  Typed'
BY DEF Typed, OpenAggregateTyped

(* At first there is nothing but the basic types. *)
LEMMA InitHolds == Init => IInv
<1> SUFFICES ASSUME Init PROVE IInv
  OBVIOUS
<1>1. AreaInv
  BY DEF Init, AreaInv, AreaTyped, InOrder, RegionsDisjoint, LaidOut
<1>2. Typed
  BY ScalarsAssumption DEF Init, TypesInit, Typed, OpenAggregateTyped, NoDefinition
<1>3. NothingMoves
  BY DEF Init, NothingMoves
<1> QED
  BY <1>1, <1>2, <1>3 DEF IInv

(* The steps of the body of a function. *)
LEMMA BodyKeeps ==
  ASSUME IInv, Body
  PROVE  IInv'
<1>1. AreaInv /\ Typed /\ NothingMoves
  BY DEF IInv
<1>2. Spelled \subseteq TypeSet
  BY <1>1, SpelledTyped DEF Typed
<1>3. UNCHANGED << types, open, signature, elaborated >>
  BY DEF Body, DeclareLocal, MarkUseful, SelectReference, OptimizerSweep, SelectorSweep, Realign,
         FinishFrame, Spill, definition, call
<1>4. Typed'
  BY <1>1, <1>3, SameTypes
<1>5. ASSUME NEW t \in Spelled, DeclareLocal(t) PROVE AreaInv' /\ NothingMoves'
  <2>1. Quiet(phase) /\ Quiet(phase') /\ UNCHANGED offsets
    BY <1>5 DEF DeclareLocal, Quiet
  <2>2. AreaInv' /\ pending' = {}
    BY <1>1, <1>2, <1>5, CreateKeeps DEF DeclareLocal
  <2> QED
    BY <1>1, <2>1, <2>2, QuietStep
<1>6. ASSUME NEW r \in regions, MarkUseful(r) PROVE AreaInv' /\ NothingMoves'
  <2>1. /\ AreaInv' /\ marked' = marked \cup {r}
        /\ UNCHANGED << regions, base, pending, phase, offsets >>
    BY <1>1, <1>6, MarkKeeps DEF MarkUseful
  <2> QED
    BY <1>1, <2>1 DEF NothingMoves
<1>7. ASSUME NEW r \in regions, SelectReference(r) PROVE AreaInv' /\ NothingMoves'
  <2>1. /\ AreaInv' /\ marked' = marked \cup {r} /\ UNCHANGED << regions, base, pending >>
        /\ phase \in {"swept", "selecting"} /\ phase' = "selecting" /\ pending = {}
        /\ offsets' = offsets \cup { << r, base[r] >> }
    BY <1>1, <1>7, MarkKeeps DEF SelectReference, mark_stack_region, Idle
  <2> QED
    BY <1>1, <2>1 DEF NothingMoves
<1>8. ASSUME OptimizerSweep PROVE AreaInv' /\ NothingMoves'
  <2>1. /\ AreaInv' /\ regions' \subseteq marked' /\ pending = {}
        /\ regions \subseteq marked => UNCHANGED << regions, base, pending >>
        /\ phase \in {"body", "swept"} /\ phase' = "swept" /\ UNCHANGED offsets
    BY <1>1, <1>8, SweepKeeps DEF OptimizerSweep
  <2>2. offsets = {}
    BY <1>1, <2>1 DEF NothingMoves
  <2> QED
    BY <1>1, <2>1, <2>2 DEF NothingMoves
<1>9. ASSUME SelectorSweep PROVE AreaInv' /\ NothingMoves'
  <2>1. /\ AreaInv' /\ pending = {}
        /\ regions \subseteq marked => UNCHANGED << regions, base, pending >>
        /\ phase = "selecting" /\ phase' = "allocating" /\ UNCHANGED offsets
    BY <1>1, <1>9, SweepKeeps DEF SelectorSweep
  <2>2. regions \subseteq marked
    BY <1>1, <2>1 DEF NothingMoves
  <2> QED
    BY <1>1, <2>1, <2>2 DEF NothingMoves
<1>10. ASSUME Realign PROVE AreaInv' /\ NothingMoves'
  <2>1. AreaInv' /\ UNCHANGED << regions, marked, phase, offsets >> /\ pending # {}
    BY <1>1, <1>10, RealignKeeps DEF Realign
  <2>2. phase = "swept" /\ offsets = {} /\ regions \subseteq marked
    BY <1>1, <2>1 DEF NothingMoves
  <2> QED
    BY <2>1, <2>2 DEF NothingMoves
<1>11. ASSUME FinishFrame PROVE AreaInv' /\ NothingMoves'
  <2>1. /\ AreaInv' /\ UNCHANGED << regions, base, pending, offsets >> /\ pending = {}
        /\ phase' = "framed"
    BY <1>1, <1>11, AlignKeeps DEF FinishFrame, align_stack_data_area, Idle
  <2> QED
    BY <1>1, <2>1 DEF NothingMoves
<1>12. ASSUME NEW t \in types, Spill(t) PROVE AreaInv' /\ NothingMoves'
  <2> PICK id : id = NextId
    OBVIOUS
  <2> DEFINE start == StartOf(total, t)
  <2>1. t \in TypeSet
    BY <1>1 DEF Typed
  <2>2. /\ AreaInv' /\ pending' = {} /\ id \in regions' /\ base'[id] = start
        /\ \A r \in regions : r \in regions' /\ base'[r] = base[r]
    BY <1>1, <1>12, <2>1, CreateKeeps DEF Spill
  <2>3. phase = "allocating" /\ phase' = phase /\ offsets' = offsets \cup { << id, start >> }
    BY <1>12 DEF Spill
  <2>4. \A o \in offsets' : o[1] \in regions' /\ base'[o[1]] = o[2]
    BY <1>1, <2>2, <2>3 DEF NothingMoves
  <2> QED
    BY <2>2, <2>3, <2>4 DEF NothingMoves
<1> QED
  BY <1>4, <1>5, <1>6, <1>7, <1>8, <1>9, <1>10, <1>11, <1>12 DEF Body, IInv

(* The steps of a function's parameters and of a call of it. *)
LEMMA CallsKeep ==
  ASSUME IInv, Calls
  PROVE  IInv'
<1>1. AreaInv /\ Typed /\ NothingMoves
  BY DEF IInv
<1>2. Spelled \subseteq TypeSet
  BY <1>1, SpelledTyped DEF Typed
<1>3. Quiet(phase) /\ Quiet(phase') /\ UNCHANGED << types, open, offsets >>
  BY DEF Calls, DeclareParameter, DeclareList, EndParameters, ResultType, BeginCall, StoreArgument,
         StoreCount, StoreElement, Call, Unstored, definition, Quiet
<1>4. pending = {}
  BY <1>1, <1>3, QuietIsIdle
<1>5. ASSUME UNCHANGED area PROVE AreaInv' /\ pending' = {}
  BY <1>1, <1>4, <1>5, SameArea DEF area
<1>6. ASSUME NEW t \in TypeSet, create_stack_region_for_type(t) PROVE AreaInv' /\ pending' = {}
  BY <1>1, <1>6, CreateKeeps
<1>7. ASSUME align_stack_data_area PROVE AreaInv' /\ pending' = {}
  BY <1>1, <1>4, <1>7, AlignKeeps
<1>8. \A t \in TypeSet : Passed(t) \in TypeSet /\ ListOf(t) \in TypeSet /\ Count \in TypeSet
  BY PassedTyped
<1>9. signature \in Seq(TypeSet) /\ elaborated \in TypeSet \cup {NoDefinition}
  BY <1>1 DEF Typed
<1>10. \A i \in DOMAIN signature : signature[i] \in TypeSet
  BY <1>9, ElementOfSeq, LenProperties
<1>11. ASSUME NEW t \in Spelled, DeclareParameter(t)
       PROVE  AreaInv' /\ pending' = {} /\ signature' \in Seq(TypeSet) /\ UNCHANGED elaborated
  BY <1>2, <1>5, <1>6, <1>8, <1>9, <1>11 DEF DeclareParameter
<1>12. ASSUME NEW t \in Spelled, DeclareList(t)
       PROVE  /\ AreaInv' /\ pending' = {} /\ signature' \in Seq(TypeSet)
              /\ elaborated' \in TypeSet \cup {NoDefinition}
  BY <1>2, <1>6, <1>8, <1>9, <1>12 DEF DeclareList
<1>13. ASSUME EndParameters \/ Call
       PROVE  AreaInv' /\ pending' = {} /\ UNCHANGED << signature, elaborated >>
  BY <1>5, <1>7, <1>13 DEF EndParameters, Call, call
<1>14. ASSUME NEW copied \in BOOLEAN, ResultType(copied)
       PROVE  AreaInv' /\ pending' = {} /\ UNCHANGED << signature, elaborated >>
  <2>1. CASE UNCHANGED area
    BY <1>5, <1>14, <2>1 DEF ResultType
  <2>2. CASE \E i \in DOMAIN signature : create_stack_region_for_type(Passed(signature[i]))
    BY <1>6, <1>8, <1>10, <1>14, <2>2 DEF ResultType
  <2> QED
    BY <1>14, <2>1, <2>2 DEF ResultType
<1>15. ASSUME BeginCall
       PROVE  AreaInv' /\ pending' = {} /\ UNCHANGED << signature, elaborated >>
  BY <1>15, EmptyArea DEF BeginCall, Alloc, call
<1>16. ASSUME StoreArgument
       PROVE  AreaInv' /\ pending' = {} /\ UNCHANGED << signature, elaborated >>
  <2>1. NextArgument \in TypeSet
    BY <1>10, <1>16 DEF StoreArgument, Unstored, NextArgument
  <2> QED
    BY <1>5, <1>6, <1>8, <1>16, <2>1 DEF StoreArgument
<1>17. ASSUME StoreCount
       PROVE  AreaInv' /\ pending' = {} /\ UNCHANGED << signature, elaborated >>
  <2>1. Count \in TypeSet
    BY TypeTyped DEF Count, Classes, Alignments
  <2> QED
    BY <1>6, <1>17, <2>1 DEF StoreCount
<1>18. ASSUME StoreElement
       PROVE  AreaInv' /\ pending' = {} /\ UNCHANGED << signature, elaborated >>
  BY <1>6, <1>8, <1>9, <1>18 DEF StoreElement
<1>19. /\ AreaInv' /\ pending' = {} /\ signature' \in Seq(TypeSet)
       /\ elaborated' \in TypeSet \cup {NoDefinition}
  BY <1>9, <1>11, <1>12, <1>13, <1>14, <1>15, <1>16, <1>17, <1>18 DEF Calls
<1>20. Typed'
  BY <1>1, <1>3, <1>19 DEF Typed, OpenAggregateTyped
<1>21. NothingMoves'
  BY <1>1, <1>3, <1>19, QuietStep
<1> QED
  BY <1>19, <1>20, <1>21 DEF IInv

(* The end of the definitions, where nothing has been laid out yet. *)
LEMMA EndTypesKeeps ==
  ASSUME IInv, EndTypes
  PROVE  IInv'
<1>1. AreaInv' /\ pending' = {}
  BY EmptyArea DEF EndTypes, Alloc
<1>2. Typed'
  BY DEF IInv, EndTypes, Typed, OpenAggregateTyped, NoDefinition, call
<1>3. Quiet(phase) /\ Quiet(phase') /\ UNCHANGED offsets
  BY DEF EndTypes, Quiet
<1>4. NothingMoves'
  BY <1>1, <1>3, QuietStep DEF IInv
<1> QED
  BY <1>1, <1>2, <1>4 DEF IInv

(* Every step keeps the invariant. *)
LEMMA NextKeeps == IInv /\ [Next]_vars => IInv'
<1> SUFFICES ASSUME IInv, [Next]_vars PROVE IInv'
  OBVIOUS
<1>1. CASE Define
  <2>1. AreaInv' /\ UNCHANGED << phase, offsets, regions, base, marked, pending >>
    BY <1>1, SameArea DEF IInv, Define, area
  <2>2. Typed'
    BY <1>1, DefinitionKeeps DEF IInv, Define, call
  <2> QED
    BY <2>1, <2>2 DEF IInv, NothingMoves
<1>2. CASE UNCHANGED vars
  <2>1. AreaInv' /\ UNCHANGED << phase, offsets, regions, base, marked, pending >>
    BY <1>2, SameArea DEF IInv, vars, area
  <2>2. Typed'
    BY <1>2, SameTypes DEF IInv, vars, definition, call
  <2> QED
    BY <2>1, <2>2 DEF IInv, NothingMoves
<1> QED
  BY <1>1, <1>2, EndTypesKeeps, BodyKeeps, CallsKeep DEF Next

(* The inductive invariant holds throughout (stack_data_area.c, and what   *)
(* calls it).                                                              *)
THEOREM FrameInvariant == Spec => []IInv
BY InitHolds, NextKeeps, PTL DEF Spec

(* No byte of a stack data area belongs to two regions, for any types that *)
(* can be defined, any order of declarations, sweeps, spills and calls     *)
(* (stack_data_area.c:130-409).                                            *)
THEOREM NoSharedBytes == Spec => []RegionsDisjoint
<1>1. IInv => RegionsDisjoint
  BY DEF IInv, AreaInv
<1> QED
  BY <1>1, FrameInvariant, PTL

(* Every address in the code is the address its region has, for any number *)
(* of locals and spills (instruction_selector.c:1242, 7178).               *)
THEOREM AddressesCurrent == Spec => []OffsetsCurrent
<1>1. IInv => OffsetsCurrent
  BY DEF IInv, NothingMoves, OffsetsCurrent
<1> QED
  BY <1>1, FrameInvariant, PTL

-----------------------------------------------------------------------------
(* Parameters and arguments. *)

(* What is neither an array nor an aggregate is aligned by its own size. *)
Plain(t) == IsAggregate(t) \/ (t.class \in {"basic", "float", "pointer", "enum"} /\ t.size = t.align)
Passable(t) == Plain(t) \/ t.class = "array"
TypesPlain == \A t \in types : Plain(t)

(* A list comes last, and is of something that can be passed. *)
ListsLast ==
  /\ \A i \in DOMAIN signature : IsList(signature[i]) => i = Len(signature) /\ elaborated # NoDefinition
  /\ elaborated # NoDefinition =>
       signature # << >> /\ signature[Len(signature)] = ListOf(elaborated) /\ Passable(elaborated)

(* The number of a parameter in its class, and where that puts it. *)
NumberOf(i) ==
  OrderIn(signature[i], SubSeq(signature, 1, i - 1)) + (IF byCopy /\ ~ IsFloat(signature[i]) THEN 1 ELSE 0)
TakesStack(t, order) == IsList(t) \/ is_parameter_stack_passed(t, order)
ByStack(i) == TakesStack(signature[i], NumberOf(i))
Numbered ==
  /\ DOMAIN places = DOMAIN signature
  /\ \A i \in DOMAIN signature :
       IF ByStack(i) THEN places[i].in = "stack" ELSE places[i] = InRegister(signature[i], NumberOf(i))

(* Places on the stack: f[i] is where the first i of them end.             *)
PlaceSet == [ in : {"gp", "sse", "stack"}, at : Nat, size : Nat ]
NoneOnStack(p) == \A i \in DOMAIN p : p[i].in # "stack"
PlaceAt(n, t) == [ in |-> "stack", at |-> StartOf(n, t), size |-> SizeOf(t) ]
Ends(f) ==
  /\ f[0] = 0
  /\ \A i \in DOMAIN signature :
       IF places[i].in = "stack"
       THEN /\ places[i] = PlaceAt(f[i - 1], Passed(signature[i]))
            /\ f[i] = StartOf(f[i - 1], Passed(signature[i])) + SizeOf(Passed(signature[i]))
       ELSE f[i] = f[i - 1]
EndSet == [0 .. Len(signature) -> Nat]

(* As long as parameters are declared, they are placed one after the       *)
(* other; afterwards this holds in the cases Orderly names.                *)
Declaring ==
  phase \in {"parameters", "result"} =>
    /\ byCopy = FALSE /\ arguments = << >> /\ elements = << >>
    /\ NoneOnStack(places) => total = 0
    /\ \E f \in EndSet : Ends(f) /\ (phase = "parameters" => total = f[Len(signature)])

Called ==
  phase = "called" =>
    arguments = << >> /\ elements = << >> /\ (Orderly => \E f \in EndSet : Ends(f))

-----------------------------------------------------------------------------
(* Definitions leave such types. *)
LEMMA PlainKept ==
  ASSUME TypesPlain, TypesNext
  PROVE  TypesPlain'
<1>1. ASSUME NEW class \in {"struct", "union"}, CloseAggregate(class) PROVE TypesPlain'
  BY <1>1 DEF CloseAggregate, TypesPlain, Plain, IsAggregate, Type, Defining
<1>2. ASSUME CloseEnumeration PROVE TypesPlain'
  BY <1>2 DEF CloseEnumeration, TypesPlain, Plain, IsAggregate, Type
<1>3. ASSUME UNCHANGED types PROVE TypesPlain'
  BY <1>3 DEF TypesPlain
<1>4. CASE struct_definer \/ union_definer \/ struct_member \/ union_member \/ OpenEnumeration
           \/ ImplicitMember \/ (\E v \in Constants : ExplicitMember(v)) \/ switch_statement
           \/ (\E v \in CaseConstants, style \in Styles : case_statement(v, style))
           \/ \E style \in Styles : default_statement(style)
  <2>1. UNCHANGED types
    BY <1>4 DEF struct_definer, union_definer, OpenAggregate, struct_member, union_member, add_struct_member,
       add_union_member, OpenEnumeration, ImplicitMember, ExplicitMember, switch_statement, case_statement,
       default_statement, Reject
  <2> QED
    BY <1>3, <2>1
<1> QED
  BY <1>1, <1>2, <1>4 DEF TypesNext, struct_member_list, union_member_list

(* A sequence begins as it did before something was appended. *)
LEMMA Appended ==
  ASSUME NEW S, NEW s \in Seq(S), NEW x \in S
  PROVE  /\ Append(s, x) \in Seq(S) /\ Len(Append(s, x)) = Len(s) + 1 /\ Append(s, x)[Len(s) + 1] = x
         /\ Len(s) \in Nat /\ DOMAIN s = 1 .. Len(s) /\ DOMAIN Append(s, x) = 1 .. Len(s) + 1
         /\ \A i \in 1 .. Len(s) : Append(s, x)[i] = s[i] /\ SubSeq(Append(s, x), 1, i - 1) = SubSeq(s, 1, i - 1)
         /\ SubSeq(Append(s, x), 1, Len(s)) = s /\ SubSeq(s, 1, Len(s)) = s
<1> DEFINE t == Append(s, x)
<1>1. t \in Seq(S) /\ Len(t) = Len(s) + 1 /\ t[Len(s) + 1] = x /\ \A i \in 1 .. Len(s) : t[i] = s[i]
  BY AppendProperties
<1>2. Len(s) \in Nat /\ DOMAIN s = 1 .. Len(s) /\ DOMAIN t = 1 .. Len(s) + 1
  BY <1>1, LenProperties
<1> HIDE DEF t
<1>3. ASSUME NEW n \in 0 .. Len(s) PROVE SubSeq(t, 1, n) = SubSeq(s, 1, n)
  <2>1. n \in Int /\ 1 \in Int /\ \A i \in 1 .. n : t[i] = s[i] /\ s[i] \in S /\ t[i] \in S
    BY <1>1, <1>2, ElementOfSeq
  <2>2. /\ SubSeq(s, 1, n) \in Seq(S) /\ Len(SubSeq(s, 1, n)) = n
        /\ \A i \in 1 .. n : SubSeq(s, 1, n)[i] = s[i]
    BY <1>2, <2>1, SubSeqProperties
  <2>3. /\ SubSeq(t, 1, n) \in Seq(S) /\ Len(SubSeq(t, 1, n)) = n
        /\ \A i \in 1 .. n : SubSeq(t, 1, n)[i] = t[i]
    BY <1>2, <2>1, SubSeqProperties
  <2> QED
    BY <2>1, <2>2, <2>3, SeqEqual
<1>4. SubSeq(s, 1, Len(s)) = s
  BY SubSeqFull
<1>5. \A i \in 1 .. Len(s) : SubSeq(t, 1, i - 1) = SubSeq(s, 1, i - 1)
  BY <1>2, <1>3
<1>6. SubSeq(t, 1, Len(s)) = s
  BY <1>2, <1>3, <1>4
<1> QED
  BY <1>1, <1>2, <1>4, <1>5, <1>6 DEF t

(* A number counts the parameters of the class that came before. *)
LEMMA PrefixOrder ==
  ASSUME NEW s \in Seq(TypeSet), NEW i \in 1 .. Len(s) + 1, NEW t
  PROVE  /\ OrderIn(t, SubSeq(s, 1, i - 1)) = 1 + Cardinality({ j \in 1 .. i - 1 : InClass(t, s[j]) })
         /\ IsFiniteSet({ j \in 1 .. i - 1 : InClass(t, s[j]) })
         /\ OrderIn(t, SubSeq(s, 1, i - 1)) \in Nat \ {0}
<1> DEFINE p == SubSeq(s, 1, i - 1)
           C == { j \in 1 .. i - 1 : InClass(t, s[j]) }
<1>0. Len(s) \in Nat
  BY LenProperties
<1>1. /\ p \in Seq(TypeSet) /\ Len(p) = i - 1
      /\ \A j \in 1 .. i - 1 : p[j] = s[j]
  <2>1. \A j \in 1 .. i - 1 : s[j] \in TypeSet
    BY <1>0, ElementOfSeq
  <2>2. /\ p \in Seq(TypeSet) /\ Len(p) = IF 1 <= i - 1 THEN i - 1 - 1 + 1 ELSE 0
        /\ \A j \in 1 .. i - 1 - 1 + 1 : p[j] = s[1 + j - 1]
    BY <1>0, <2>1, SubSeqProperties
  <2>3. i - 1 - 1 + 1 = i - 1 /\ \A j \in 1 .. i - 1 : 1 + j - 1 = j
    BY <1>0
  <2> HIDE DEF p
  <2> QED
    BY <1>0, <2>2, <2>3
<1>2. DOMAIN p = 1 .. i - 1
  BY <1>1, LenProperties
<1>3. { j \in DOMAIN p : InClass(t, p[j]) } = C
  BY <1>1, <1>2
<1>4. IsFiniteSet(C) /\ Cardinality(C) \in Nat
  <2>1. i - 1 \in Int /\ 1 \in Int
    BY <1>0
  <2>2. IsFiniteSet(1 .. i - 1)
    BY <2>1, FS_Interval
  <2>3. IsFiniteSet(C)
    BY <2>2, FS_Subset
  <2> QED
    BY <2>3, FS_CardinalityType
<1> HIDE DEF p, C
<1>5. OrderIn(t, p) = 1 + Cardinality(C)
  BY <1>3 DEF OrderIn
<1> QED
  BY <1>4, <1>5 DEF p, C

(* And so for all the parameters there are. *)
LEMMA WholeOrder ==
  ASSUME NEW s \in Seq(TypeSet), NEW t
  PROVE  OrderIn(t, s) \in Nat \ {0}
<1>1. Len(s) \in Nat /\ SubSeq(s, 1, Len(s)) = s
  BY LenProperties, SubSeqFull
<1>2. PICK i : i = Len(s) + 1
  OBVIOUS
<1>3. i \in 1 .. Len(s) + 1 /\ i - 1 = Len(s)
  BY <1>1, <1>2
<1>4. OrderIn(t, SubSeq(s, 1, i - 1)) \in Nat \ {0}
  BY <1>3, PrefixOrder
<1> QED
  BY <1>1, <1>3, <1>4

(* An interval from 1 is given by its end. *)
LEMMA SameInterval ==
  ASSUME NEW a \in Nat, NEW b \in Nat, 1 .. a = 1 .. b
  PROVE  a = b
<1>1. ASSUME NEW c \in Nat, NEW d \in Nat, 1 .. c = 1 .. d, c < d PROVE FALSE
  <2>1. d \in 1 .. d /\ d \notin 1 .. c
    BY <1>1
  <2> QED
    BY <1>1, <2>1
<1>2. ~ (a < b) /\ ~ (b < a)
  BY <1>1
<1> QED
  BY <1>2

(* In an empty area every region begins at its start. *)
LEMMA StartAtZero ==
  ASSUME NEW t \in TypeSet
  PROVE  StartOf(0, t) = 0
<1>1. t.align \in {1, 2, 4, 8}
  BY DEF TypeSet, Alignments
<1>2. 0 % t.align = 0
  BY <1>1
<1>3. RoundUp(0, 16) = 0
  BY DEF RoundUp
<1> QED
  BY <1>2, <1>3 DEF StartOf

(* A region of type t begins where places say, and grows the area. *)
LEMMA Placed ==
  ASSUME total \in Nat, NEW t \in TypeSet
  PROVE  /\ Passed(t) \in TypeSet
         /\ OnStack(t) = PlaceAt(total, Passed(t))
         /\ StartOf(total, Passed(t)) \in Nat /\ SizeOf(Passed(t)) \in Nat
         /\ StartOf(total, Passed(t)) >= total
         /\ StartOf(total, Passed(t)) + SizeOf(Passed(t)) \in Nat
<1>1. Passed(t) \in TypeSet
  BY PassedTyped
<1> QED
  BY <1>1, StartAfter DEF OnStack, PlaceAt

(* One more place keeps the numbers, and the ends of those on the stack. *)
LEMMA DeclarationKeeps ==
  ASSUME total \in Nat, signature \in Seq(TypeSet), places \in Seq(PlaceSet), Numbered, Declaring, phase = "parameters",
         NEW t \in TypeSet, signature' = Append(signature, t),
         UNCHANGED << phase, byCopy, arguments, elements >>,
         IF TakesStack(t, OrderIn(t, signature))
         THEN create_stack_region_for_type(Passed(t)) /\ places' = Append(places, OnStack(t))
         ELSE places' = Append(places, InRegister(t, OrderIn(t, signature))) /\ UNCHANGED area
  PROVE  places' \in Seq(PlaceSet) /\ Numbered' /\ Declaring'
<1> PICK n : n = Len(signature)
  OBVIOUS
<1> PICK order : order = OrderIn(t, signature)
  OBVIOUS
<1> DEFINE start == StartOf(total, Passed(t))
<1>1. /\ signature' \in Seq(TypeSet) /\ Len(signature') = n + 1 /\ signature'[n + 1] = t
      /\ n \in Nat /\ DOMAIN signature = 1 .. n /\ DOMAIN signature' = 1 .. n + 1
      /\ \A i \in 1 .. n : signature'[i] = signature[i] /\ SubSeq(signature', 1, i - 1) = SubSeq(signature, 1, i - 1)
      /\ SubSeq(signature', 1, n) = signature /\ SubSeq(signature, 1, n) = signature
  BY Appended
<1>2. order \in Nat
  BY WholeOrder
<1>3. PICK place \in PlaceSet :
        /\ places' = Append(places, place)
        /\ IF TakesStack(t, order)
           THEN place = PlaceAt(total, Passed(t)) /\ total' = start + SizeOf(Passed(t))
           ELSE place = InRegister(t, order) /\ total' = total
  <2>1. OnStack(t) = PlaceAt(total, Passed(t)) /\ OnStack(t) \in PlaceSet
    BY Placed DEF PlaceAt, PlaceSet
  <2>2. InRegister(t, order) \in PlaceSet
    <3>1. Passed(t).size \in Nat
      BY Placed DEF TypeSet
    <3> QED
      BY <1>2, <3>1 DEF InRegister, PlaceSet
  <2>3. CASE TakesStack(t, order)
    BY <2>1, <2>3 DEF create_stack_region_for_type
  <2>4. CASE ~ TakesStack(t, order)
    BY <2>2, <2>4 DEF area
  <2> QED
    BY <2>3, <2>4
<1>4. /\ places' \in Seq(PlaceSet) /\ DOMAIN places' = 1 .. n + 1 /\ places'[n + 1] = place
      /\ DOMAIN places = 1 .. n /\ Len(places) = n /\ \A i \in 1 .. n : places'[i] = places[i]
  <2>1. /\ Append(places, place) \in Seq(PlaceSet) /\ DOMAIN Append(places, place) = 1 .. Len(places) + 1
        /\ DOMAIN places = 1 .. Len(places) /\ Len(places) \in Nat
        /\ Append(places, place)[Len(places) + 1] = place
        /\ \A i \in 1 .. Len(places) : Append(places, place)[i] = places[i]
    BY Appended
  <2>2. 1 .. Len(places) = 1 .. n
    BY <1>1, <2>1 DEF Numbered
  <2>3. Len(places) = n
    BY <1>1, <2>1, <2>2, SameInterval
  <2> QED
    BY <1>3, <2>1, <2>3
<1>5. place.in = "stack" <=> TakesStack(t, order)
  BY <1>3 DEF PlaceAt, InRegister
<1>6. byCopy = FALSE /\ arguments = << >> /\ elements = << >>
  BY DEF Declaring
<1>7. Numbered'
  <2>1. \A i \in 1 .. n : NumberOf(i)' = NumberOf(i) /\ (ByStack(i)' <=> ByStack(i))
    BY <1>1 DEF NumberOf, ByStack
  <2>2. NumberOf(n + 1)' = order
    <3>1. PICK m : m = n + 1
      OBVIOUS
    <3>2. m - 1 = n /\ SubSeq(signature', 1, m - 1) = signature /\ signature'[m] = t /\ ~ byCopy'
      BY <1>1, <1>6, <3>1
    <3>3. NumberOf(m)' = OrderIn(t, signature) + 0
      BY <3>2 DEF NumberOf
    <3> QED
      BY <1>2, <3>1, <3>3
  <2>3. ByStack(n + 1)' <=> TakesStack(t, order)
    BY <1>1, <2>2 DEF ByStack
  <2>4. ASSUME NEW i \in 1 .. n
        PROVE  (IF ByStack(i) THEN places[i].in = "stack" ELSE places[i] = InRegister(signature[i], NumberOf(i)))'
    BY <1>1, <1>4, <2>1, <2>4 DEF Numbered
  <2>5. (IF ByStack(n + 1) THEN places[n + 1].in = "stack"
         ELSE places[n + 1] = InRegister(signature[n + 1], NumberOf(n + 1)))'
    BY <1>1, <1>3, <1>4, <1>5, <2>2, <2>3
  <2>6. 1 .. n + 1 = 1 .. n \cup {n + 1}
    BY <1>1
  <2> QED
    BY <1>1, <1>4, <2>4, <2>5, <2>6 DEF Numbered
<1>8. NoneOnStack(places') => total' = 0
  <2>1. n + 1 \in 1 .. n + 1 /\ 1 .. n \subseteq 1 .. n + 1
    BY <1>1
  <2> QED
    BY <1>3, <1>4, <1>5, <2>1 DEF Declaring, NoneOnStack
<1>9. PICK f \in EndSet : Ends(f) /\ total = f[n]
  BY DEF Declaring
<1> PICK g : g = [ i \in 0 .. n + 1 |-> IF i \in 0 .. n THEN f[i] ELSE total' ]
  OBVIOUS
<1>10. g \in EndSet'
  <2>1. total' \in Nat
    BY <1>3, Placed
  <2>2. \A i \in 0 .. n : f[i] \in Nat
    BY <1>9 DEF EndSet
  <2> QED
    BY <1>1, <2>1, <2>2 DEF EndSet
<1>11. /\ g[0] = f[0] /\ g[n] = f[n] /\ g[n + 1] = total'
       /\ \A i \in 1 .. n : g[i] = f[i] /\ g[i - 1] = f[i - 1]
  <2>1. 0 \in 0 .. n /\ n \in 0 .. n /\ n + 1 \in 0 .. n + 1 /\ n + 1 \notin 0 .. n /\ 0 .. n \subseteq 0 .. n + 1
        /\ \A i \in 1 .. n : i \in 0 .. n /\ i - 1 \in 0 .. n
    BY <1>1
  <2> QED
    BY <2>1
<1>12. Ends(g)'
  <2> SUFFICES ASSUME NEW i \in 1 .. n + 1
               PROVE  IF places'[i].in = "stack"
                      THEN /\ places'[i] = PlaceAt(g[i - 1], Passed(signature'[i]))
                           /\ g[i] = StartOf(g[i - 1], Passed(signature'[i])) + SizeOf(Passed(signature'[i]))
                      ELSE g[i] = g[i - 1]
    BY <1>1, <1>9, <1>11 DEF Ends
  <2>1. CASE i \in 1 .. n
    <3>1. i \in DOMAIN signature /\ g[i] = f[i] /\ g[i - 1] = f[i - 1]
      BY <1>1, <1>11, <2>1
    <3>2. places'[i] = places[i] /\ signature'[i] = signature[i]
      BY <1>1, <1>4, <2>1
    <3>3. IF places[i].in = "stack"
          THEN /\ places[i] = PlaceAt(f[i - 1], Passed(signature[i]))
               /\ f[i] = StartOf(f[i - 1], Passed(signature[i])) + SizeOf(Passed(signature[i]))
          ELSE f[i] = f[i - 1]
      BY <1>9, <3>1 DEF Ends
    <3> QED
      BY <3>1, <3>2, <3>3
  <2>2. CASE i = n + 1
    <3>1. i - 1 = n
      BY <1>1, <2>2
    <3>2. g[i - 1] = total /\ g[i] = total' /\ places'[i] = place /\ signature'[i] = t
      BY <1>1, <1>4, <1>9, <1>11, <2>2, <3>1
    <3> QED
      BY <1>3, <1>5, <3>2
  <2> QED
    BY <1>1, <2>1, <2>2
<1>13. total' = g[Len(signature')]
  BY <1>1, <1>11
<1>14. Declaring'
  <2>1. \E h \in EndSet' : Ends(h)' /\ (phase' = "parameters" => total' = h[Len(signature')])
    BY <1>10, <1>12, <1>13
  <2> QED
    BY <1>6, <1>8, <2>1 DEF Declaring
<1> QED
  BY <1>4, <1>7, <1>14

(* What a result by copy does to one parameter: registers move up by one,  *)
(* and what has the last number goes to the stack.                         *)
MovedUp(i) ==
  /\ places'[i] \in PlaceSet
  /\ (IF ByStack(i) THEN places[i].in = "stack" ELSE places[i] = InRegister(signature[i], NumberOf(i)))'
  /\ IF Moved(i) THEN places'[i] = OnStack(signature[i])
     ELSE /\ places[i].in = "stack" => places'[i] = places[i]
          /\ places'[i].in = "stack" => places[i].in = "stack"

(* It gives the parameter the number it has with one more before it. *)
LEMMA RegisterMoves ==
  ASSUME total \in Nat, signature \in Seq(TypeSet), places \in Seq(PlaceSet), Numbered, ~ byCopy,
         ResultType(TRUE), NEW i \in DOMAIN signature
  PROVE  MovedUp(i)
<1> DEFINE t == signature[i]
<1> PICK order : order = OrderIn(t, SubSeq(signature, 1, i - 1))
  OBVIOUS
<1>1. i \in 1 .. Len(signature) /\ Len(signature) \in Nat /\ t \in TypeSet /\ DOMAIN places = DOMAIN signature
      /\ places[i] \in PlaceSet
  <2>1. DOMAIN signature = 1 .. Len(signature) /\ Len(signature) \in Nat
    BY LenProperties
  <2>2. DOMAIN places = 1 .. Len(places)
    BY LenProperties
  <2> QED
    BY <2>1, <2>2, ElementOfSeq DEF Numbered
<1>2. order \in Nat \ {0}
  <2>1. i \in 1 .. Len(signature) + 1
    BY <1>1
  <2> QED
    BY <2>1, PrefixOrder
<1>3. byCopy' = TRUE /\ signature' = signature
  BY DEF ResultType
<1>4. /\ NumberOf(i) = order
      /\ NumberOf(i)' = IF IsFloat(t) THEN order ELSE order + 1
  BY <1>2, <1>3 DEF NumberOf
<1>5. places'[i] = IF Moved(i) THEN OnStack(t)
                   ELSE IF places[i].in = "gp" THEN [ places[i] EXCEPT !.at = @ + 1 ] ELSE places[i]
  BY DEF ResultType
<1>6. OnStack(t) \in PlaceSet /\ OnStack(t).in = "stack"
  BY <1>1, Placed DEF PlaceSet, PlaceAt
<1>7. IF ByStack(i) THEN places[i].in = "stack" ELSE places[i] = InRegister(t, order)
  BY <1>4 DEF Numbered
<1>8. GPRegisters \in Nat \ {0} /\ SSERegisters \in Nat /\ Order(i) = order
  BY RegistersAssumption DEF Order
<1>9. CASE ByStack(i)
  <2>1. ByStack(i)'
    BY <1>2, <1>3, <1>4, <1>8, <1>9 DEF ByStack, TakesStack, is_parameter_stack_passed, Registers
  <2> QED
    BY <1>1, <1>5, <1>6, <1>7, <1>9, <2>1 DEF MovedUp
<1>10. CASE ~ ByStack(i) /\ IsFloat(t)
  <2>1. ~ ByStack(i)' /\ places[i].in = "sse"
    BY <1>3, <1>4, <1>7, <1>10 DEF ByStack, TakesStack, is_parameter_stack_passed, Registers, InRegister
  <2> QED
    BY <1>1, <1>3, <1>4, <1>5, <1>7, <1>10, <2>1 DEF MovedUp, Moved
<1>11. CASE ~ ByStack(i) /\ ~ IsFloat(t)
  <2>1. /\ order <= GPRegisters /\ ~ IsAggregate(t) /\ ~ IsList(t)
        /\ places[i] = [ in |-> "gp", at |-> order, size |-> Passed(t).size ]
    BY <1>2, <1>4, <1>7, <1>8, <1>11 DEF ByStack, TakesStack, is_parameter_stack_passed, Registers, InRegister
  <2>2. ByStack(i)' <=> order + 1 > GPRegisters
    BY <1>3, <1>4, <1>11, <2>1 DEF ByStack, TakesStack, is_parameter_stack_passed, Registers
  <2>3. CASE order = GPRegisters
    <3>1. Moved(i) /\ ByStack(i)'
      BY <1>2, <1>8, <1>11, <2>1, <2>2, <2>3 DEF Moved, ByStack, TakesStack, is_parameter_stack_passed, Registers
    <3> QED
      BY <1>3, <1>5, <1>6, <3>1 DEF MovedUp
  <2>4. CASE order # GPRegisters
    <3>1. ~ Moved(i) /\ ~ ByStack(i)'
      BY <1>2, <1>8, <2>1, <2>2, <2>4 DEF Moved
    <3>2. places'[i] = [ in |-> "gp", at |-> order + 1, size |-> Passed(t).size ]
      BY <1>5, <2>1, <3>1
    <3>3. places'[i] \in PlaceSet
      BY <1>1, <1>2, <2>1, <3>2 DEF PlaceSet
    <3>4. places'[i] = (InRegister(signature[i], NumberOf(i)))'
      BY <1>3, <1>4, <1>11, <3>2 DEF InRegister
    <3> QED
      BY <1>3, <2>1, <3>1, <3>2, <3>3, <3>4 DEF MovedUp
  <2> QED
    BY <2>3, <2>4
<1> QED
  BY <1>9, <1>10, <1>11

(* The type of the result leaves the places in the same order. *)
LEMMA ResultKeeps ==
  ASSUME total \in Nat, signature \in Seq(TypeSet), places \in Seq(PlaceSet), Numbered, Declaring,
         NEW copied \in BOOLEAN, ResultType(copied)
  PROVE  places' \in Seq(PlaceSet) /\ Numbered' /\ Called'
<1> PICK n : n = Len(signature)
  OBVIOUS
<1>1. /\ n \in Nat /\ DOMAIN signature = 1 .. n /\ DOMAIN places = 1 .. n
      /\ \A i \in 1 .. n : signature[i] \in TypeSet
  BY LenProperties, ElementOfSeq DEF Numbered
<1>2. /\ phase = "result" /\ phase' = "called" /\ byCopy' = copied
      /\ UNCHANGED << signature, elaborated, arguments, elements >>
  BY DEF ResultType
<1>3. byCopy = FALSE /\ arguments = << >> /\ elements = << >> /\ (NoneOnStack(places) => total = 0)
  BY <1>2 DEF Declaring
<1>4. PICK f \in EndSet : Ends(f)
  BY <1>2 DEF Declaring
<1>5. EndSet' = EndSet
  BY <1>2 DEF EndSet
<1>6. CASE ~ copied
  <2>1. UNCHANGED << places, byCopy, signature >>
    BY <1>2, <1>3, <1>6 DEF ResultType
  <2>2. Numbered'
    BY <2>1 DEF Numbered, NumberOf, ByStack
  <2>3. Ends(f)'
    BY <1>4, <2>1 DEF Ends
  <2> QED
    BY <1>2, <1>3, <1>4, <1>5, <2>1, <2>2, <2>3 DEF Called
<1>7. CASE copied
  <2>1. ResultType(TRUE)
    BY <1>7
  <2>2. \A i \in 1 .. n : MovedUp(i)
    BY <1>1, <1>3, <2>1, RegisterMoves
  <2>3. places' \in [1 .. n -> PlaceSet]
    <3>1. places' = [ i \in 1 .. n |-> places'[i] ]
      BY <1>1, <2>1 DEF ResultType
    <3> QED
      BY <2>2, <3>1 DEF MovedUp
  <2>4. places' \in Seq(PlaceSet)
    BY <1>1, <2>3, SeqDef
  <2>5. Numbered'
    BY <1>1, <1>2, <2>2, <2>3 DEF Numbered, MovedUp
  <2>6. ASSUME \A i \in 1 .. n : ~ Moved(i) PROVE \E h \in EndSet' : Ends(h)'
    <3>1. ASSUME NEW i \in 1 .. n
          PROVE  (IF places[i].in = "stack"
                  THEN /\ places[i] = PlaceAt(f[i - 1], Passed(signature[i]))
                       /\ f[i] = StartOf(f[i - 1], Passed(signature[i])) + SizeOf(Passed(signature[i]))
                  ELSE f[i] = f[i - 1])'
      <4>1. /\ places[i].in = "stack" => places'[i] = places[i]
            /\ places'[i].in = "stack" => places[i].in = "stack"
        BY <2>2, <2>6 DEF MovedUp
      <4>2. IF places[i].in = "stack"
            THEN /\ places[i] = PlaceAt(f[i - 1], Passed(signature[i]))
                 /\ f[i] = StartOf(f[i - 1], Passed(signature[i])) + SizeOf(Passed(signature[i]))
            ELSE f[i] = f[i - 1]
        BY <1>1, <1>4 DEF Ends
      <4> QED
        BY <1>2, <4>1, <4>2
    <3>2. f[0] = 0
      BY <1>4 DEF Ends
    <3>3. Ends(f)'
      BY <1>1, <1>2, <3>1, <3>2 DEF Ends
    <3> QED
      BY <1>5, <3>3
  <2>7. ASSUME NEW k \in 1 .. n, Moved(k), Orderly' PROVE \E h \in EndSet' : Ends(h)'
    <3> DEFINE t == Passed(signature[k])
    <3>0. \A i \in 1 .. n : Moved(i) => StackPlaces' = {i} /\ ~ IsList(signature[i])
      <4>1. \A i : Moved(i)' <=> Moved(i)
        BY <1>2 DEF Moved, Order
      <4> QED
        BY <1>1, <1>2, <1>7, <2>7, <4>1 DEF Orderly
    <3>1. StackPlaces' = {k} /\ places'[k] = OnStack(signature[k]) /\ places[k].in # "stack"
      <4>1. StackPlaces' = {k} /\ places'[k] = OnStack(signature[k])
        BY <2>2, <2>7, <3>0 DEF MovedUp
      <4>2. ~ ByStack(k)
        <5>1. NumberOf(k) = Order(k)
          <6>1. Order(k) \in Nat
            BY <2>7, RegistersAssumption DEF Moved
          <6> QED
            BY <1>3, <6>1 DEF NumberOf, Order
        <5> QED
          BY <2>7, <3>0, <5>1 DEF ByStack, TakesStack, Moved
      <4>3. places[k] = InRegister(signature[k], NumberOf(k))
        BY <1>1, <4>2 DEF Numbered
      <4> QED
        BY <4>1, <4>3 DEF InRegister
    <3>2. \A i \in 1 .. n : i # k => places'[i].in # "stack"
      BY <2>3, <3>1 DEF StackPlaces
    <3>3. \A i \in 1 .. n : places[i].in # "stack"
      <4> SUFFICES ASSUME NEW i \in 1 .. n, i # k PROVE places[i].in # "stack"
        BY <3>1
      <4>1. CASE Moved(i)
        BY <3>0, <3>1, <4>1
      <4>2. CASE ~ Moved(i)
        BY <2>2, <3>2, <4>2 DEF MovedUp
      <4> QED
        BY <4>1, <4>2
    <3>4. total = 0
      BY <1>1, <1>3, <3>3 DEF NoneOnStack
    <3>5. places'[k] = PlaceAt(0, t) /\ StartOf(0, t) = 0 /\ SizeOf(t) \in Nat
      BY <1>1, <3>1, <3>4, Placed, StartAtZero
    <3> PICK g : g = [ i \in 0 .. n |-> IF i < k THEN 0 ELSE SizeOf(t) ]
      OBVIOUS
    <3>6. g \in [0 .. n -> Nat]
      BY <3>5
    <3>7. /\ g[0] = 0 /\ g[k - 1] = 0 /\ g[k] = SizeOf(t)
          /\ \A i \in 1 .. n : i # k => g[i] = g[i - 1]
      <4>1. 0 < k /\ k - 1 < k /\ ~ (k < k) /\ k \in 0 .. n /\ k - 1 \in 0 .. n /\ 0 \in 0 .. n
        BY <1>1
      <4>2. \A i \in 1 .. n : i \in 0 .. n /\ i - 1 \in 0 .. n /\ (i # k => (i < k <=> i - 1 < k))
        BY <1>1
      <4> QED
        BY <4>1, <4>2
    <3>8. ASSUME NEW i \in 1 .. n
          PROVE  (IF places[i].in = "stack"
                  THEN /\ places[i] = PlaceAt(g[i - 1], Passed(signature[i]))
                       /\ g[i] = StartOf(g[i - 1], Passed(signature[i])) + SizeOf(Passed(signature[i]))
                  ELSE g[i] = g[i - 1])'
      <4>1. CASE i = k
        <5>1. places'[i].in = "stack" /\ signature' = signature
          BY <1>2, <3>5, <4>1 DEF PlaceAt
        <5>2. g[i - 1] = 0 /\ g[i] = 0 + SizeOf(t)
          BY <3>5, <3>7, <4>1
        <5> QED
          BY <3>5, <4>1, <5>1, <5>2
      <4>2. CASE i # k
        BY <3>2, <3>7, <4>2
      <4> QED
        BY <4>1, <4>2
    <3>9. Ends(g)'
      BY <1>1, <1>2, <3>7, <3>8 DEF Ends
    <3> QED
      BY <1>2, <3>6, <3>9 DEF EndSet
  <2>8. Orderly' => \E h \in EndSet' : Ends(h)'
    BY <2>6, <2>7
  <2> QED
    BY <1>2, <1>3, <2>4, <2>5, <2>8 DEF Called
<1> QED
  BY <1>6, <1>7

-----------------------------------------------------------------------------
(* What has been stored lies where the parameters are and within the area, *)
(* which reaches as far as theirs did at that point.                       *)
Agree(f) ==
  /\ \A i \in DOMAIN arguments :
       arguments[i] = places[i] /\ (places[i].in = "stack" => places[i].at + places[i].size <= total)
  /\ elements = << >> => total = f[Len(arguments)]

(* A list begins the area, and its members fill it from there. *)
ListStored ==
  /\ places[Len(signature)].at = 0
  /\ total = IF elements = << >> THEN 4 ELSE InitialPadding + Len(elements) * Passed(elaborated).size
  /\ \A i \in DOMAIN elements : elements[i] = ElementPlace(i)

AllStored == Len(arguments) = Len(signature) /\ elaborated # NoDefinition
Storing ==
  phase = "storing" =>
    /\ kind = "call" /\ arguments \in Seq(PlaceSet) /\ Len(arguments) <= Len(signature)
    /\ elements \in Seq(PlaceSet) /\ (elements # << >> => AllStored)
    /\ NoneOnStack(arguments) /\ elements = << >> => total = 0
    /\ Orderly => /\ \E f \in EndSet : Ends(f) /\ Agree(f)
                  /\ AllStored => ListStored

(* What the passing of arguments leaves alone. *)
Declared == << signature, elaborated, byCopy, places >>

(* What only speaks of the declaration stays with it. *)
LEMMA DeclaredStays ==
  ASSUME UNCHANGED Declared
  PROVE  /\ Orderly' <=> Orderly
         /\ EndSet' = EndSet /\ InitialPadding' = InitialPadding
         /\ \A f : Ends(f)' <=> Ends(f)
<1>1. UNCHANGED << signature, elaborated, byCopy, places >>
  BY DEF Declared
<1>2. StackPlaces' = StackPlaces /\ EndSet' = EndSet /\ InitialPadding' = InitialPadding
  BY <1>1 DEF StackPlaces, EndSet, InitialPadding
<1>3. \A i : Moved(i)' <=> Moved(i)
  BY <1>1 DEF Moved, Order
<1>4. Orderly' <=> Orderly
  BY <1>1, <1>2, <1>3 DEF Orderly
<1>5. \A f : Ends(f)' <=> Ends(f)
  BY <1>1 DEF Ends
<1> QED
  BY <1>2, <1>4, <1>5

(* An argument goes where its parameter is. *)
LEMMA ArgumentKeeps ==
  ASSUME total \in Nat, signature \in Seq(TypeSet), places \in Seq(PlaceSet), Numbered, ListsLast, Storing,
         StoreArgument
  PROVE  Storing'
<1> PICK n : n = Len(arguments)
  OBVIOUS
<1> PICK i : i = n + 1
  OBVIOUS
<1> DEFINE t == signature[i]
           start == StartOf(total, Passed(t))
<1>1. /\ phase = "storing" /\ UNCHANGED << phase, elements >> /\ UNCHANGED Declared
      /\ i \in DOMAIN signature /\ ~ IsList(t)
  BY DEF StoreArgument, Unstored, NextArgument, Declared
<1>2. /\ kind = "call" /\ arguments \in Seq(PlaceSet) /\ elements \in Seq(PlaceSet)
      /\ elements # << >> => AllStored
      /\ NoneOnStack(arguments) /\ elements = << >> => total = 0
  BY <1>1 DEF Storing
<1>3. /\ n \in Nat /\ DOMAIN arguments = 1 .. n /\ i - 1 = n /\ n < Len(signature) /\ i <= Len(signature)
      /\ t \in TypeSet /\ i \in 1 .. Len(signature) /\ Len(signature) \in Nat
  BY <1>1, <1>2, LenProperties, ElementOfSeq
<1>4. elements = << >>
  BY <1>2, <1>3 DEF AllStored
<1>5. NumberOf(i) \in Nat
  <2>1. i \in 1 .. Len(signature) + 1
    BY <1>3
  <2>2. OrderIn(t, SubSeq(signature, 1, i - 1)) \in Nat
    BY <2>1, PrefixOrder
  <2> QED
    BY <2>2 DEF NumberOf
<1>6. PICK place \in PlaceSet :
        /\ arguments' = Append(arguments, place) /\ kind' = kind
        /\ IF ByStack(i) THEN place = PlaceAt(total, Passed(t)) /\ total' = start + SizeOf(Passed(t))
           ELSE place = InRegister(t, NumberOf(i)) /\ total' = total
  <2>1. OnStack(t) = PlaceAt(total, Passed(t)) /\ OnStack(t) \in PlaceSet
    BY <1>3, Placed DEF PlaceAt, PlaceSet
  <2>2. InRegister(t, NumberOf(i)) \in PlaceSet
    <3>1. Passed(t).size \in Nat
      BY <1>3, Placed DEF TypeSet
    <3> QED
      BY <1>5, <3>1 DEF InRegister, PlaceSet
  <2>3. IF ByStack(i)
        THEN create_stack_region_for_type(Passed(t)) /\ arguments' = Append(arguments, OnStack(t))
        ELSE arguments' = Append(arguments, InRegister(t, NumberOf(i))) /\ UNCHANGED area
    BY <1>1, <1>3 DEF StoreArgument, NextArgument, ByStack, TakesStack, NumberOf
  <2>4. CASE ByStack(i)
    BY <2>1, <2>3, <2>4 DEF create_stack_region_for_type
  <2>5. CASE ~ ByStack(i)
    BY <2>2, <2>3, <2>5 DEF area
  <2> QED
    BY <2>4, <2>5
<1>7. /\ arguments' \in Seq(PlaceSet) /\ Len(arguments') = i /\ DOMAIN arguments' = 1 .. i
      /\ arguments'[i] = place /\ \A j \in 1 .. n : arguments'[j] = arguments[j]
  BY <1>2, <1>6, Appended
<1>8. place.in = "stack" <=> ByStack(i)
  BY <1>6 DEF PlaceAt, InRegister
<1>9. total' \in Nat /\ total' >= total
  BY <1>3, <1>6, Placed
<1>10. NoneOnStack(arguments') => total' = 0
  <2>1. i \in 1 .. i /\ 1 .. n \subseteq 1 .. i
    BY <1>3
  <2> QED
    BY <1>2, <1>3, <1>4, <1>6, <1>7, <1>8, <2>1 DEF NoneOnStack
<1>11. ASSUME Orderly PROVE \E f \in EndSet : Ends(f) /\ Agree(f)'
  <2>1. PICK f \in EndSet : Ends(f) /\ Agree(f)
    BY <1>1, <1>11 DEF Storing
  <2>2. total = f[i - 1]
    BY <1>3, <1>4, <2>1 DEF Agree
  <2>3. /\ places[i].in = "stack" <=> ByStack(i)
        /\ ~ ByStack(i) => places[i] = InRegister(t, NumberOf(i))
    BY <1>1 DEF Numbered, InRegister
  <2>4. IF places[i].in = "stack"
        THEN places[i] = PlaceAt(f[i - 1], Passed(t)) /\ f[i] = StartOf(f[i - 1], Passed(t)) + SizeOf(Passed(t))
        ELSE f[i] = f[i - 1]
    BY <1>1, <2>1 DEF Ends
  <2>5. place = places[i] /\ total' = f[i]
    BY <1>6, <2>2, <2>3, <2>4
  <2>6. place.in = "stack" => place.at + place.size <= total'
    BY <1>3, <1>6, <1>8, <1>9, Placed DEF PlaceAt
  <2>7. ASSUME NEW j \in 1 .. n
        PROVE  arguments[j] = places[j] /\ (places[j].in = "stack" => places[j].at + places[j].size <= total')
    <3>1. arguments[j] = places[j] /\ (places[j].in = "stack" => places[j].at + places[j].size <= total)
      BY <1>3, <2>1 DEF Agree
    <3>2. places[j] \in PlaceSet
      BY <1>2, <1>3, <3>1, ElementOfSeq
    <3> QED
      BY <1>9, <3>1, <3>2 DEF PlaceSet
  <2>8. 1 .. i = 1 .. n \cup {i} /\ places' = places
    BY <1>1, <1>3 DEF Declared
  <2> QED
    BY <1>7, <2>1, <2>5, <2>6, <2>7, <2>8 DEF Agree
<1>12. ~ AllStored'
  BY <1>1, <1>3, <1>7 DEF AllStored, ListsLast, Declared, IsList, ListOf, Type
<1>13. Orderly' <=> Orderly
  BY <1>1, DeclaredStays
<1>14. Orderly' => \E f \in EndSet' : Ends(f)' /\ Agree(f)'
  BY <1>1, <1>11, <1>13, DeclaredStays
<1>15. Len(arguments') <= Len(signature')
  BY <1>1, <1>3, <1>7 DEF Declared
<1> QED
  BY <1>1, <1>2, <1>4, <1>6, <1>7, <1>10, <1>12, <1>14, <1>15 DEF Storing

(* The number of a list's members goes where the list is. *)
LEMMA CountKeeps ==
  ASSUME total \in Nat, signature \in Seq(TypeSet), places \in Seq(PlaceSet), Numbered, ListsLast, Storing,
         StoreCount
  PROVE  Storing'
<1> PICK n : n = Len(arguments)
  OBVIOUS
<1> PICK i : i = n + 1
  OBVIOUS
<1> DEFINE t == signature[i]
           start == StartOf(total, Count)
<1>1. /\ phase = "storing" /\ UNCHANGED << phase, elements >> /\ UNCHANGED Declared
      /\ i \in DOMAIN signature /\ IsList(t)
  BY DEF StoreCount, Unstored, NextArgument, Declared
<1>2. /\ kind = "call" /\ arguments \in Seq(PlaceSet) /\ elements \in Seq(PlaceSet)
      /\ elements # << >> => AllStored
      /\ NoneOnStack(arguments) /\ elements = << >> => total = 0
  BY <1>1 DEF Storing
<1>3. /\ n \in Nat /\ DOMAIN arguments = 1 .. n /\ i - 1 = n /\ n < Len(signature)
      /\ DOMAIN places = 1 .. i /\ i = Len(signature) /\ elaborated # NoDefinition /\ t = ListOf(elaborated)
  BY <1>1, <1>2, LenProperties DEF ListsLast, Numbered
<1>4. elements = << >>
  BY <1>2, <1>3 DEF AllStored
<1>5. /\ Count \in TypeSet /\ Passed(Count) = Count /\ SizeOf(Count) = 4 /\ StartOf(0, Count) = 0
      /\ Passed(t) \in TypeSet /\ SizeOf(Passed(t)) = 4 /\ StartOf(0, Passed(t)) = 0
      /\ start \in Nat /\ start >= total
  <2>1. Count \in TypeSet /\ t \in TypeSet
    BY <1>1, <1>3, TypeTyped, LenProperties, ElementOfSeq DEF Count, Classes, Alignments
  <2>2. Passed(Count) = Count /\ SizeOf(Count) = 4
    BY DEF Count, Passed, SizeOf, Type
  <2>3. Passed(t) = t /\ SizeOf(t) = 4
    BY <1>1 DEF Passed, SizeOf, IsList
  <2> QED
    BY <2>1, <2>2, <2>3, StartAtZero, StartAfter
<1>6. PICK place \in PlaceSet :
        /\ arguments' = Append(arguments, place) /\ kind' = kind
        /\ place = PlaceAt(total, Count) /\ total' = start + 4
  <2>1. OnStack(Count) = PlaceAt(total, Count) /\ OnStack(Count) \in PlaceSet
    BY <1>5, Placed DEF PlaceAt, PlaceSet
  <2> QED
    BY <1>5, <2>1 DEF StoreCount, create_stack_region_for_type
<1>7. /\ arguments' \in Seq(PlaceSet) /\ Len(arguments') = i /\ DOMAIN arguments' = 1 .. i
      /\ arguments'[i] = place /\ \A j \in 1 .. n : arguments'[j] = arguments[j]
  BY <1>2, <1>6, Appended
<1>8. place.in = "stack" /\ i \in 1 .. i
  BY <1>3, <1>6 DEF PlaceAt
<1>9. ASSUME Orderly PROVE (\E f \in EndSet : Ends(f) /\ Agree(f)') /\ ListStored'
  <2>1. PICK f \in EndSet : Ends(f) /\ Agree(f)
    BY <1>1, <1>9 DEF Storing
  <2>2. total = f[i - 1]
    BY <1>3, <1>4, <2>1 DEF Agree
  <2>3. StackPlaces = {i}
    BY <1>3, <1>9 DEF Orderly
  <2>4. \A j \in 1 .. n : arguments[j] = places[j] /\ places[j].in # "stack"
    <3>1. \A j \in 1 .. n : j \in 1 .. i /\ j # i
      BY <1>3
    <3> QED
      BY <1>3, <2>1, <2>3, <3>1 DEF Agree, StackPlaces
  <2>5. total = 0
    BY <1>2, <1>3, <1>4, <2>4 DEF NoneOnStack
  <2>6. places[i] = PlaceAt(0, Passed(t)) /\ f[i] = 0 + 4
    <3>1. i \in DOMAIN signature /\ places[i].in = "stack" /\ f[i - 1] = 0
      BY <1>1, <2>2, <2>3, <2>5 DEF StackPlaces
    <3>2. places[i] = PlaceAt(f[i - 1], Passed(t)) /\ f[i] = StartOf(f[i - 1], Passed(t)) + SizeOf(Passed(t))
      BY <2>1, <3>1 DEF Ends
    <3> QED
      BY <1>5, <3>1, <3>2
  <2>7. places[i] = place /\ place.at = 0 /\ place.size = 4 /\ total' = 4 /\ f[i] = total'
    BY <1>5, <1>6, <2>5, <2>6 DEF PlaceAt
  <2>8. 1 .. i = 1 .. n \cup {i} /\ places' = places
    BY <1>1, <1>3 DEF Declared
  <2>9. Agree(f)'
    BY <1>7, <2>4, <2>7, <2>8 DEF Agree
  <2>10. signature' = signature /\ elements' = << >>
    BY <1>1, <1>4 DEF Declared
  <2>11. ListStored'
    BY <1>3, <2>7, <2>8, <2>10 DEF ListStored
  <2> QED
    BY <2>1, <2>9, <2>11
<1>10. Orderly' <=> Orderly
  BY <1>1, DeclaredStays
<1>11. Orderly' => (\E f \in EndSet' : Ends(f)' /\ Agree(f)') /\ ListStored'
  BY <1>1, <1>9, <1>10, DeclaredStays
<1>12. Len(arguments') <= Len(signature') /\ ~ NoneOnStack(arguments')
  BY <1>1, <1>3, <1>7, <1>8 DEF Declared, NoneOnStack
<1> QED
  BY <1>1, <1>2, <1>4, <1>6, <1>7, <1>11, <1>12 DEF Storing

(* Multiples of 16. *)
LEMMA MultipleOf16 ==
  ASSUME NEW n \in Nat, NEW size \in Nat, size % 16 = 0
  PROVE  n * size \in Nat /\ (n * size) % 16 = 0
<1>1. PICK q \in Nat : size = 16 * q
  BY DEF Nat
<1>2. PICK m \in Nat : m = n * q
  OBVIOUS
<1>3. n * size = 16 * m
  BY <1>1, <1>2
<1> QED
  BY <1>3

(* Rounding up to 16 gives a multiple of it. *)
LEMMA RoundedUp ==
  ASSUME NEW n \in Nat
  PROVE  /\ RoundUp(n, 16) \in Nat /\ RoundUp(n, 16) >= n /\ RoundUp(n, 16) % 16 = 0
         /\ n % 16 = 0 => RoundUp(n, 16) = n
BY DEF RoundUp

(* The members of a list fill the distance between them. *)
LEMMA ElementStart ==
  ASSUME elaborated \in TypeSet, Passable(elaborated),
         IsAggregate(elaborated) => elaborated.size % 16 = 0,
         NEW n \in Nat, NEW taken,
         taken = IF n = 0 THEN 4 ELSE InitialPadding + n * Passed(elaborated).size
  PROVE  /\ taken \in Nat /\ InitialPadding \in Nat /\ n * Passed(elaborated).size \in Nat
         /\ StartOf(taken, Passed(elaborated)) = InitialPadding + n * Passed(elaborated).size
         /\ SizeOf(Passed(elaborated)) = Passed(elaborated).size /\ Passed(elaborated).size \in Nat
<1> DEFINE t == Passed(elaborated)
<1> PICK size : size = Passed(elaborated).size
  OBVIOUS
<1>1. t \in TypeSet /\ size \in Nat /\ t.size = size
  BY PassedTyped DEF TypeSet
<1>2. SizeOf(t) = size
  BY DEF Passable, Plain, Passed, SizeOf, Pointer, Type, IsAggregate
<1>3. CASE IsAggregate(elaborated)
  <2>1. t = elaborated /\ size % 16 = 0 /\ IsAggregate(t)
    BY <1>3 DEF Passed, IsAggregate
  <2>2. InitialPadding = 16
    BY <1>3 DEF InitialPadding
  <2>3. PICK product \in Nat : product = n * size /\ product % 16 = 0
    BY <1>1, <2>1, MultipleOf16
  <2>4. n = 0 => product = 0
    BY <1>1, <2>3
  <2>5. taken = IF n = 0 THEN 4 ELSE 16 + product
    BY <2>2, <2>3
  <2>6. StartOf(taken, t) = RoundUp(taken, 16)
    BY <2>1 DEF StartOf
  <2>7. CASE n = 0
    <3>1. RoundUp(4, 16) = 16
      BY DEF RoundUp
    <3> QED
      BY <1>1, <1>2, <2>2, <2>3, <2>4, <2>5, <2>6, <2>7, <3>1
  <2>8. CASE n # 0
    <3>1. (16 + product) % 16 = 0
      BY <2>3
    <3>2. RoundUp(16 + product, 16) = 16 + product
      BY <3>1, RoundedUp
    <3> QED
      BY <1>1, <1>2, <2>2, <2>3, <2>5, <2>6, <2>8, <3>2
  <2> QED
    BY <2>7, <2>8
<1>4. CASE ~ IsAggregate(elaborated)
  <2>1. t.align = size /\ ~ IsAggregate(t) /\ size \in {1, 2, 4, 8}
    BY <1>1, <1>4 DEF Passable, Plain, Passed, Pointer, Type, IsAggregate, TypeSet, Alignments
  <2>2. InitialPadding = IF size = 8 THEN 8 ELSE 4
    BY <1>4, <2>1 DEF InitialPadding
  <2>3. PICK product \in Nat : product = n * size
    BY <1>1
  <2>4. product % size = 0 /\ (n = 0 => product = 0)
    BY <2>1, <2>3
  <2>5. taken = IF n = 0 THEN 4 ELSE InitialPadding + product
    BY <2>3
  <2>6. StartOf(taken, t) = taken + (taken % size)
    BY <2>1 DEF StartOf
  <2>7. taken \in Nat /\ taken + (taken % size) = InitialPadding + product
    <3>1. CASE size = 1
      BY <2>2, <2>4, <2>5, <3>1
    <3>2. CASE size = 2
      BY <2>2, <2>4, <2>5, <3>2
    <3>3. CASE size = 4
      BY <2>2, <2>4, <2>5, <3>3
    <3>4. CASE size = 8
      BY <2>2, <2>4, <2>5, <3>4
    <3> QED
      BY <2>1, <3>1, <3>2, <3>3, <3>4
  <2> QED
    BY <1>1, <1>2, <2>1, <2>2, <2>3, <2>6, <2>7
<1> QED
  BY <1>3, <1>4

(* One more member. *)
LEMMA OneMore ==
  ASSUME NEW n \in Nat, NEW size \in Nat
  PROVE  (n + 1) * size = n * size + size /\ (n + 1 - 1) * size = n * size
<1>1. n + 1 - 1 = n
  OBVIOUS
<1>2. (n + 1) * size = n * size + size
  OBVIOUS
<1> QED
  BY <1>1, <1>2

(* A member of a list goes behind those before it. *)
LEMMA ElementKeeps ==
  ASSUME total \in Nat, Typed, ListsLast, Storing, StoreElement
  PROVE  Storing'
<1> PICK n : n = Len(elements)
  OBVIOUS
<1> DEFINE t == Passed(elaborated)
           start == StartOf(total, t)
<1>1. /\ phase = "storing" /\ UNCHANGED << phase, arguments >> /\ UNCHANGED Declared
      /\ AllStored /\ elaborated # NoDefinition /\ Len(arguments) = Len(signature)
  BY DEF StoreElement, AllStored, Declared
<1>2. /\ kind = "call" /\ arguments \in Seq(PlaceSet) /\ elements \in Seq(PlaceSet)
      /\ Len(arguments) <= Len(signature)
  BY <1>1 DEF Storing
<1>3. elaborated \in TypeSet /\ Passable(elaborated) /\ t \in TypeSet
  BY <1>1, PassedTyped DEF Typed, ListsLast
<1>4. PICK place \in PlaceSet :
        /\ elements' = Append(elements, place) /\ kind' = kind
        /\ place = PlaceAt(total, t) /\ total' = start + SizeOf(t)
  <2>1. OnStack(elaborated) = PlaceAt(total, t) /\ OnStack(elaborated) \in PlaceSet
    BY <1>3, Placed DEF PlaceAt, PlaceSet
  <2> QED
    BY <2>1 DEF StoreElement, create_stack_region_for_type
<1>5. /\ elements' \in Seq(PlaceSet) /\ Len(elements') = n + 1 /\ DOMAIN elements' = 1 .. n + 1
      /\ n \in Nat /\ DOMAIN elements = 1 .. n
      /\ elements'[n + 1] = place /\ \A j \in 1 .. n : elements'[j] = elements[j]
  BY <1>2, <1>4, Appended
<1>6. elements' # << >>
  <2>1. Len(elements') # 0
    BY <1>5
  <2> QED
    BY <2>1
<1>7. start \in Nat /\ start >= total /\ SizeOf(t) \in Nat /\ total' >= total
  BY <1>3, <1>4, Placed
<1>8. ASSUME Orderly PROVE (\E f \in EndSet : Ends(f) /\ Agree(f)') /\ ListStored'
  <2>1. PICK f \in EndSet : Ends(f) /\ Agree(f)
    BY <1>1, <1>8 DEF Storing
  <2>2. ListStored
    BY <1>1, <1>8 DEF Storing
  <2>3. places' = places /\ arguments' = arguments /\ signature' = signature /\ elaborated' = elaborated
    BY <1>1 DEF Declared
  <2>4. ASSUME NEW j \in DOMAIN arguments
        PROVE  arguments[j] = places[j] /\ (places[j].in = "stack" => places[j].at + places[j].size <= total')
    <3>1. arguments[j] = places[j] /\ (places[j].in = "stack" => places[j].at + places[j].size <= total)
      BY <2>1 DEF Agree
    <3>2. places[j] \in PlaceSet
      BY <1>2, <3>1, LenProperties, ElementOfSeq
    <3> QED
      BY <1>4, <1>7, <3>1, <3>2 DEF PlaceSet
  <2>5. Agree(f)'
    BY <1>6, <2>3, <2>4 DEF Agree
  <2> PICK product : product = n * t.size
    OBVIOUS
  <2> PICK size : size = t.size
    OBVIOUS
  <2>6. elements = << >> <=> n = 0
    BY <1>2, <1>5, EmptySeq
  <2>7. total = IF n = 0 THEN 4 ELSE InitialPadding + n * t.size
    BY <2>2, <2>6 DEF ListStored
  <2>8. IsAggregate(elaborated) => elaborated.size % 16 = 0
    BY <1>1, <1>8 DEF Orderly
  <2>9. /\ start = InitialPadding + product /\ SizeOf(t) = size /\ size \in Nat
        /\ InitialPadding \in Nat /\ product \in Nat
    BY <1>3, <1>5, <2>7, <2>8, ElementStart
  <2>10. (n + 1) * t.size = product + size /\ (n + 1 - 1) * t.size = product
    <3>1. size \in Nat /\ n \in Nat
      BY <1>5, <2>9
    <3>2. (n + 1) * size = n * size + size /\ (n + 1 - 1) * size = n * size
      BY <3>1, OneMore
    <3> QED
      BY <3>2
  <2>11. total' = InitialPadding + (n + 1) * t.size
    BY <1>4, <2>9, <2>10
  <2>12. places[Len(signature)].at = 0
    BY <2>2 DEF ListStored
  <2>13. place = ElementPlace(n + 1)
    <3>1. 0 + InitialPadding + (n + 1 - 1) * t.size = start
      BY <2>9, <2>10
    <3> QED
      BY <1>4, <2>9, <2>12, <3>1 DEF ElementPlace, PlaceAt
  <2>14. ASSUME NEW j \in 1 .. n + 1 PROVE elements'[j] = ElementPlace(j)
    <3>1. CASE j = n + 1
      BY <1>5, <2>13, <3>1
    <3>2. CASE j # n + 1
      <4>1. j \in 1 .. n
        BY <1>5, <3>2
      <4> QED
        BY <1>5, <2>2, <4>1 DEF ListStored
    <3> QED
      BY <3>1, <3>2
  <2>15. InitialPadding' = InitialPadding /\ \A j : ElementPlace(j)' = ElementPlace(j)
    BY <2>3 DEF InitialPadding, ElementPlace
  <2>16. ListStored'
    BY <1>5, <1>6, <2>3, <2>11, <2>12, <2>14, <2>15 DEF ListStored
  <2> QED
    BY <2>1, <2>5, <2>16
<1>9. Orderly' <=> Orderly
  BY <1>1, DeclaredStays
<1>10. Orderly' => (\E f \in EndSet' : Ends(f)' /\ Agree(f)') /\ ListStored'
  BY <1>1, <1>8, <1>9, DeclaredStays
<1>11. AllStored' /\ Len(arguments') <= Len(signature')
  BY <1>1, <1>2 DEF AllStored, Declared
<1> QED
  BY <1>1, <1>2, <1>4, <1>5, <1>6, <1>10, <1>11 DEF Storing

(* A call begins with an area of its own. *)
LEMMA BeginKeeps ==
  ASSUME signature \in Seq(TypeSet), ListsLast, Called, BeginCall
  PROVE  Storing'
<1>1. /\ phase = "called" /\ UNCHANGED Declared /\ UNCHANGED << arguments, elements >>
      /\ kind' = "call" /\ total' = 0
  BY DEF BeginCall, Alloc, call, Declared
<1>2. arguments = << >> /\ elements = << >> /\ (Orderly => \E f \in EndSet : Ends(f))
  BY <1>1 DEF Called
<1>3. /\ arguments' = << >> /\ elements' = << >> /\ << >> \in Seq(PlaceSet) /\ Len(arguments') = 0
      /\ DOMAIN arguments' = {}
  BY <1>1, <1>2, EmptySeq
<1>4. Len(signature') \in Nat /\ signature' = signature /\ elaborated' = elaborated
  BY <1>1, LenProperties DEF Declared
<1>5. ~ AllStored'
  BY <1>3, <1>4, EmptySeq DEF AllStored, ListsLast
<1>6. Orderly' => \E f \in EndSet' : Ends(f)' /\ Agree(f)'
  <2>1. \A f : Ends(f) => Agree(f)'
    BY <1>1, <1>3 DEF Agree, Ends
  <2> QED
    BY <1>1, <1>2, <2>1, DeclaredStays
<1> QED
  BY <1>1, <1>3, <1>4, <1>5, <1>6 DEF Storing

(* A signature with a place on the stack is known as one that has some. *)
LEMMA StackIsCounted ==
  ASSUME signature \in Seq(TypeSet), Numbered, NEW i \in StackPlaces
  PROVE  contains_stack_params
<1> DEFINE t == signature[i]
           Before(u) == { j \in 1 .. i - 1 : InClass(u, signature[j]) }
           extra == IF byCopy THEN 1 ELSE 0
<1>1. /\ i \in 1 .. Len(signature) /\ Len(signature) \in Nat /\ DOMAIN signature = 1 .. Len(signature)
      /\ ByStack(i)
  BY LenProperties DEF StackPlaces, Numbered, InRegister
<1>2. CASE IsAggregate(t) \/ IsList(t)
  BY <1>1, <1>2 DEF contains_stack_params
<1>3. ASSUME ~ IsAggregate(t), ~ IsList(t), NEW C, C \subseteq 1 .. Len(signature), Before(t) \subseteq C, i \in C
      PROVE  /\ OrderIn(t, SubSeq(signature, 1, i - 1)) <= Cardinality(C) /\ Cardinality(C) \in Nat
             /\ OrderIn(t, SubSeq(signature, 1, i - 1)) \in Nat
  <2>1. /\ OrderIn(t, SubSeq(signature, 1, i - 1)) = 1 + Cardinality(Before(t))
        /\ IsFiniteSet(Before(t)) /\ OrderIn(t, SubSeq(signature, 1, i - 1)) \in Nat
    <3>1. i \in 1 .. Len(signature) + 1
      BY <1>1
    <3> QED
      BY <3>1, PrefixOrder
  <2>2. i \notin Before(t)
    BY <1>1
  <2> HIDE DEF Before
  <2>3. IsFiniteSet(Before(t) \cup {i}) /\ Cardinality(Before(t) \cup {i}) = Cardinality(Before(t)) + 1
        /\ Cardinality(Before(t)) \in Nat
    BY <2>1, <2>2, FS_AddElement, FS_CardinalityType
  <2>4. IsFiniteSet(C)
    <3>1. 1 \in Int /\ Len(signature) \in Int
      BY <1>1
    <3>2. IsFiniteSet(1 .. Len(signature))
      BY <3>1, FS_Interval
    <3> QED
      BY <1>3, <3>2, FS_Subset
  <2>5. Before(t) \cup {i} \in SUBSET C
    BY <1>3
  <2>6. Cardinality(Before(t) \cup {i}) <= Cardinality(C) /\ Cardinality(C) \in Nat
    BY <2>4, <2>5, FS_Subset, FS_CardinalityType
  <2> QED
    BY <2>1, <2>3, <2>6
<1>4. CASE ~ IsAggregate(t) /\ ~ IsList(t) /\ IsFloat(t)
  <2> DEFINE C == { j \in DOMAIN signature : IsFloat(signature[j]) }
  <2>1. C \subseteq 1 .. Len(signature) /\ Before(t) \subseteq C /\ i \in C
    BY <1>1, <1>4 DEF InClass
  <2>2. OrderIn(t, SubSeq(signature, 1, i - 1)) <= Cardinality(C) /\ Cardinality(C) \in Nat
        /\ OrderIn(t, SubSeq(signature, 1, i - 1)) \in Nat
    BY <1>3, <1>4, <2>1
  <2>3. OrderIn(t, SubSeq(signature, 1, i - 1)) > SSERegisters
    BY <1>1, <1>4, <2>2 DEF ByStack, TakesStack, NumberOf, is_parameter_stack_passed, Registers
  <2>4. FloatCount > SSERegisters
    BY <2>2, <2>3, RegistersAssumption DEF FloatCount
  <2> QED
    BY <2>4 DEF contains_stack_params
<1>5. CASE ~ IsAggregate(t) /\ ~ IsList(t) /\ ~ IsFloat(t)
  <2> DEFINE C == { j \in DOMAIN signature : InClass(Pointer, signature[j]) }
  <2>1. C \subseteq 1 .. Len(signature) /\ Before(t) \subseteq C /\ i \in C
    BY <1>1, <1>5 DEF InClass, IsFloat, Pointer, Type
  <2>2. OrderIn(t, SubSeq(signature, 1, i - 1)) <= Cardinality(C) /\ Cardinality(C) \in Nat
        /\ OrderIn(t, SubSeq(signature, 1, i - 1)) \in Nat
    BY <1>3, <1>5, <2>1
  <2>3. extra \in Nat /\ OrderIn(t, SubSeq(signature, 1, i - 1)) + extra > GPRegisters
    BY <1>1, <1>5, <2>2 DEF ByStack, TakesStack, NumberOf, is_parameter_stack_passed, Registers
  <2>4. GeneralPurposeCount = Cardinality(C) + extra
    BY DEF GeneralPurposeCount
  <2>5. GeneralPurposeCount > GPRegisters
    BY <2>2, <2>3, <2>4, RegistersAssumption
  <2> QED
    BY <2>5 DEF contains_stack_params
<1> QED
  BY <1>2, <1>4, <1>5

(* What is stored at a call is where the function looks for it. *)
LEMMA CallReaches ==
  ASSUME total \in Nat, signature \in Seq(TypeSet), places \in Seq(PlaceSet), Numbered, Storing, Call
  PROVE  ArgumentsFound'
<1> SUFFICES ASSUME Orderly' PROVE ArgumentsFound'
  BY DEF ArgumentsFound
<1>1. /\ phase = "storing" /\ phase' = "entered" /\ UNCHANGED Declared /\ UNCHANGED << arguments, elements >>
      /\ Len(arguments) = Len(signature)
      /\ IF contains_stack_params THEN align_stack_data_area ELSE UNCHANGED area
  BY DEF Call, call, Declared
<1>2. signature' = signature /\ elaborated' = elaborated /\ places' = places /\ byCopy' = byCopy
  BY <1>1 DEF Declared
<1>3. Orderly
  BY <1>1, DeclaredStays
<1>4. /\ kind = "call" /\ arguments \in Seq(PlaceSet) /\ elements \in Seq(PlaceSet)
      /\ elements # << >> => AllStored
  BY <1>1 DEF Storing
<1>5. PICK f \in EndSet : Ends(f) /\ Agree(f)
  BY <1>1, <1>3 DEF Storing
<1>6. AllStored => ListStored
  BY <1>1, <1>3 DEF Storing
<1>7. /\ Len(signature) \in Nat /\ DOMAIN arguments = 1 .. Len(signature) /\ DOMAIN places = 1 .. Len(signature)
      /\ Len(places) \in Nat /\ DOMAIN places = 1 .. Len(places)
  BY <1>1, <1>4, LenProperties DEF Numbered
<1>8. Len(places) = Len(signature)
  BY <1>7, SameInterval
<1>9. \A i \in 1 .. Len(arguments) : arguments[i] = places[i]
  BY <1>1, <1>5, <1>7 DEF Agree
<1>10. arguments = places
  BY <1>1, <1>4, <1>8, <1>9, SeqEqual
<1>11. \A i \in DOMAIN elements' : elements'[i] = ElementPlace(i)'
  <2>1. InitialPadding' = InitialPadding /\ \A i : ElementPlace(i)' = ElementPlace(i)
    BY <1>2 DEF InitialPadding, ElementPlace
  <2>2. CASE elements = << >>
    BY <1>1, <2>2
  <2>3. CASE elements # << >>
    BY <1>1, <1>4, <1>6, <2>1, <2>3 DEF ListStored
  <2> QED
    BY <2>2, <2>3
<1>12. StackPlaces' = StackPlaces /\ (contains_stack_params' <=> contains_stack_params)
  BY <1>2 DEF StackPlaces, contains_stack_params, GeneralPurposeCount, FloatCount
<1>13. \A i \in StackPlaces : contains_stack_params
  BY StackIsCounted
<1>14. /\ total' \in Nat /\ total' >= total
       /\ contains_stack_params => total' % 16 = 0
  <2>1. CASE contains_stack_params
    <3>1. total' = IF total = 0 THEN 0 ELSE RoundUp(total, 16) + 0
      BY <1>1, <1>4, <2>1 DEF align_stack_data_area
    <3> QED
      BY <3>1, RoundedUp
  <2>2. CASE ~ contains_stack_params
    BY <1>1, <2>2 DEF area
  <2> QED
    BY <2>1, <2>2
<1>15. ASSUME NEW i \in StackPlaces PROVE places[i].at + places[i].size <= total'
  <2>1. i \in DOMAIN arguments /\ places[i].in = "stack" /\ places[i] \in PlaceSet
    BY <1>7, ElementOfSeq DEF StackPlaces
  <2>2. places[i].at + places[i].size <= total
    BY <1>5, <2>1 DEF Agree
  <2> QED
    BY <1>14, <2>1, <2>2 DEF PlaceSet
<1> QED
  BY <1>1, <1>2, <1>10, <1>11, <1>12, <1>13, <1>14, <1>15 DEF ArgumentsFound

-----------------------------------------------------------------------------
(* The inductive invariant of the parameters, beside IInv. *)
Undeclared == phase = "types" => call = << << >>, NoDefinition, FALSE, << >>, << >>, << >> >>
Placing == ListsLast /\ places \in Seq(PlaceSet) /\ Numbered
CallInv == TypesPlain /\ Undeclared /\ Placing /\ Declaring /\ Called /\ Storing /\ ArgumentsFound

CallPhases == {"types", "parameters", "result", "called", "storing", "entered"}

(* The places stay when the declaration does. *)
LEMMA PlacingStays ==
  ASSUME Placing, UNCHANGED Declared
  PROVE  Placing'
BY DEF Placing, Declared, ListsLast, Numbered, NumberOf, ByStack

(* The body of a function has nothing to do with parameters. *)
LEMMA ElsewhereKeeps ==
  ASSUME Placing, UNCHANGED call, phase' \notin CallPhases
  PROVE  Undeclared' /\ Placing' /\ Declaring' /\ Called' /\ Storing' /\ ArgumentsFound'
<1>1. Placing'
  BY PlacingStays DEF call, Declared
<1> QED
  BY <1>1 DEF Undeclared, Declaring, Called, Storing, ArgumentsFound, CallPhases

(* A declaration places the parameter, and a list ends them. *)
LEMMA DeclaredKeeps ==
  ASSUME IInv, CallInv,
         \/ \E t \in Spelled : DeclareParameter(t)
         \/ \E t \in Spelled : DeclareList(t)
  PROVE  Placing' /\ Declaring'
<1>1. Typed /\ total \in Nat /\ signature \in Seq(TypeSet) /\ Spelled \subseteq TypeSet
  BY SpelledTyped DEF IInv, AreaInv, AreaTyped, Typed
<1>2. Placing /\ Declaring /\ TypesPlain
  BY DEF CallInv
<1>3. ASSUME NEW t \in Spelled PROVE t \in TypeSet /\ Passable(t) /\ ~ IsList(t)
  BY <1>1, <1>2, <1>3
  DEF Spelled, Arrays, ArrayOf, Type, TypesPlain, Passable, Plain, IsAggregate, IsList
<1>4. /\ phase = "parameters" /\ elaborated = NoDefinition
      /\ UNCHANGED << phase, byCopy, arguments, elements >>
  BY DEF DeclareParameter, DeclareList
<1>5. ASSUME NEW t \in TypeSet, signature' = Append(signature, t), IsList(t) => elaborated' # NoDefinition,
             elaborated' # NoDefinition => t = ListOf(elaborated') /\ Passable(elaborated')
      PROVE  ListsLast'
  <2>1. /\ signature'[Len(signature) + 1] = t /\ Len(signature') = Len(signature) + 1
        /\ Len(signature) \in Nat /\ DOMAIN signature' = 1 .. Len(signature) + 1
        /\ DOMAIN signature = 1 .. Len(signature) /\ signature' \in Seq(TypeSet)
        /\ \A i \in 1 .. Len(signature) : signature'[i] = signature[i]
    BY <1>1, <1>5, Appended
  <2>2. \A i \in DOMAIN signature : ~ IsList(signature[i])
    BY <1>2, <1>4 DEF Placing, ListsLast
  <2>3. signature' # << >>
    <3>1. Len(signature') # 0
      BY <2>1
    <3> QED
      BY <3>1
  <2>4. \A i \in 1 .. Len(signature) + 1 : i \in 1 .. Len(signature) \/ i = Len(signature) + 1
    BY <2>1
  <2> QED
    BY <1>5, <2>1, <2>2, <2>3, <2>4 DEF ListsLast
<1>6. ASSUME NEW t \in Spelled, DeclareParameter(t) PROVE Placing' /\ Declaring'
  <2>1. /\ signature' = Append(signature, t) /\ elaborated' = NoDefinition
        /\ IF TakesStack(t, OrderIn(t, signature))
           THEN create_stack_region_for_type(Passed(t)) /\ places' = Append(places, OnStack(t))
           ELSE places' = Append(places, InRegister(t, OrderIn(t, signature))) /\ UNCHANGED area
    BY <1>3, <1>4, <1>6 DEF DeclareParameter, TakesStack
  <2>2. places' \in Seq(PlaceSet) /\ Numbered' /\ Declaring'
    BY <1>1, <1>2, <1>3, <1>4, <2>1, DeclarationKeeps DEF Placing
  <2>3. ListsLast'
    BY <1>3, <1>5, <2>1
  <2> QED
    BY <2>2, <2>3 DEF Placing
<1>7. ASSUME NEW t \in Spelled, DeclareList(t) PROVE Placing' /\ Declaring'
  <2> PICK u : u = ListOf(t)
    OBVIOUS
  <2>1. u \in TypeSet /\ IsList(u) /\ Passed(u) = u
    BY <1>3, PassedTyped DEF ListOf, IsList, Passed, Type
  <2>2. /\ signature' = Append(signature, u) /\ elaborated' = t
        /\ create_stack_region_for_type(Passed(u)) /\ places' = Append(places, OnStack(u))
    BY <1>7, <2>1 DEF DeclareList
  <2>3. TakesStack(u, OrderIn(u, signature))
    BY <2>1 DEF TakesStack
  <2>4. places' \in Seq(PlaceSet) /\ Numbered' /\ Declaring'
    BY <1>1, <1>2, <1>4, <2>1, <2>2, <2>3, DeclarationKeeps DEF Placing
  <2>5. t # NoDefinition
    BY <1>3 DEF NoDefinition, TypeSet
  <2>6. ListsLast'
    BY <1>3, <1>5, <2>1, <2>2, <2>5
  <2> QED
    BY <2>4, <2>6 DEF Placing
<1> QED
  BY <1>6, <1>7

(* Every step of the parameters and of the call keeps what is said. *)
LEMMA CallsPlace ==
  ASSUME IInv, CallInv, Calls
  PROVE  CallInv'
<1>1. total \in Nat /\ signature \in Seq(TypeSet) /\ Typed
  BY DEF IInv, AreaInv, AreaTyped, Typed
<1>2. /\ Placing /\ Declaring /\ Called /\ Storing /\ ArgumentsFound
      /\ places \in Seq(PlaceSet) /\ Numbered /\ ListsLast
  BY DEF CallInv, Placing
<1>3. TypesPlain'
  BY DEF CallInv, TypesPlain, Calls, DeclareParameter, DeclareList, EndParameters, ResultType, BeginCall,
         StoreArgument, StoreCount, StoreElement, Call, definition
<1>4. CASE \E t \in Spelled : DeclareParameter(t) \/ DeclareList(t)
  <2>1. Placing' /\ Declaring'
    BY <1>4, DeclaredKeeps
  <2>2. phase' = "parameters"
    BY <1>4 DEF DeclareParameter, DeclareList
  <2> QED
    BY <1>3, <2>1, <2>2 DEF CallInv, Undeclared, Called, Storing, ArgumentsFound
<1>5. CASE EndParameters
  <2>1. /\ phase = "parameters" /\ phase' = "result" /\ UNCHANGED << signature, elaborated, byCopy, places >>
        /\ UNCHANGED << arguments, elements >>
        /\ ~ HasStackParameters => total' = total
    BY <1>5 DEF EndParameters, call, area
  <2>2. Placing'
    BY <1>2, <2>1, PlacingStays DEF Declared
  <2>3. NoneOnStack(places) => ~ HasStackParameters
    BY DEF NoneOnStack, HasStackParameters
  <2>4. \E f \in EndSet' : Ends(f)'
    BY <1>2, <2>1, DeclaredStays DEF Declaring, Declared
  <2>5. Declaring'
    BY <1>2, <2>1, <2>3, <2>4 DEF Declaring
  <2> QED
    BY <1>3, <2>1, <2>2, <2>5 DEF CallInv, Undeclared, Called, Storing, ArgumentsFound
<1>6. CASE \E copied \in BOOLEAN : ResultType(copied)
  <2>1. places' \in Seq(PlaceSet) /\ Numbered' /\ Called'
    BY <1>1, <1>2, <1>6, ResultKeeps
  <2>2. phase' = "called" /\ UNCHANGED << signature, elaborated >>
    BY <1>6 DEF ResultType
  <2>3. Placing'
    BY <1>2, <2>1, <2>2 DEF Placing, ListsLast
  <2> QED
    BY <1>3, <2>1, <2>2, <2>3 DEF CallInv, Undeclared, Declaring, Storing, ArgumentsFound
<1>7. CASE BeginCall
  <2>1. Storing' /\ phase' = "storing" /\ UNCHANGED Declared
    BY <1>1, <1>2, <1>7, BeginKeeps DEF BeginCall, call, Declared
  <2>2. Placing'
    BY <1>2, <2>1, PlacingStays
  <2> QED
    BY <1>3, <2>1, <2>2 DEF CallInv, Undeclared, Declaring, Called, ArgumentsFound
<1>8. CASE StoreArgument \/ StoreCount \/ StoreElement
  <2>1. Storing'
    BY <1>1, <1>2, <1>8, ArgumentKeeps, CountKeeps, ElementKeeps
  <2>2. phase' = "storing" /\ UNCHANGED Declared
    BY <1>8 DEF StoreArgument, StoreCount, StoreElement, Unstored, Declared
  <2>3. Placing'
    BY <1>2, <2>2, PlacingStays
  <2> QED
    BY <1>3, <2>1, <2>2, <2>3 DEF CallInv, Undeclared, Declaring, Called, ArgumentsFound
<1>9. CASE Call
  <2>1. ArgumentsFound' /\ phase' = "entered" /\ UNCHANGED Declared
    BY <1>1, <1>2, <1>9, CallReaches DEF Call, call, Declared
  <2>2. Placing'
    BY <1>2, <2>1, PlacingStays
  <2> QED
    BY <1>3, <2>1, <2>2 DEF CallInv, Undeclared, Declaring, Called, Storing
<1> QED
  BY <1>4, <1>5, <1>6, <1>7, <1>8, <1>9 DEF Calls

(* Every step of the compiler keeps the invariant. *)
LEMMA CallInvKept == IInv /\ CallInv /\ [Next]_vars => CallInv'
<1> SUFFICES ASSUME IInv, CallInv, [Next]_vars PROVE CallInv'
  OBVIOUS
<1>1. TypesPlain /\ Undeclared /\ Placing
  BY DEF CallInv
<1>2. CASE Calls
  BY <1>2, CallsPlace
<1>3. CASE Define
  <2>1. TypesPlain'
    BY <1>1, <1>3, PlainKept DEF Define
  <2>2. phase = "types" /\ phase' = "types" /\ call' = call
    BY <1>3 DEF Define
  <2>3. Placing'
    BY <1>1, <2>2, PlacingStays DEF call, Declared
  <2> QED
    BY <1>1, <2>1, <2>2, <2>3 DEF CallInv, Undeclared, Declaring, Called, Storing, ArgumentsFound
<1>4. CASE EndTypes
  <2>1. /\ phase = "types" /\ phase' \in {"body", "parameters"} /\ UNCHANGED types /\ call' = call
        /\ total' = 0
    BY <1>4 DEF EndTypes, Alloc
  <2>2. TypesPlain' /\ Placing'
    BY <1>1, <2>1, PlacingStays DEF TypesPlain, call, Declared
  <2>3. /\ signature' = << >> /\ places' = << >> /\ byCopy' = FALSE /\ arguments' = << >> /\ elements' = << >>
    BY <1>1, <2>1 DEF Undeclared, call
  <2>4. Declaring'
    <3> PICK f : f = [ i \in 0 .. 0 |-> 0 ]
      OBVIOUS
    <3>1. f[0] = 0 /\ f \in [ 0 .. 0 -> Nat ] /\ Len(signature') = 0 /\ DOMAIN signature' = {}
      BY <2>3
    <3>2. f \in EndSet' /\ Ends(f)' /\ total' = f[Len(signature')]
      BY <2>1, <3>1 DEF EndSet, Ends
    <3>3. \E h \in EndSet' : Ends(h)' /\ total' = h[Len(signature')]
      BY <3>2
    <3> QED
      BY <2>1, <2>3, <3>3 DEF Declaring
  <2> QED
    BY <2>1, <2>2, <2>4 DEF CallInv, Undeclared, Called, Storing, ArgumentsFound
<1>5. CASE Body
  <2>1. UNCHANGED << types, call >>
    BY <1>5 DEF Body, DeclareLocal, MarkUseful, OptimizerSweep, SelectReference, SelectorSweep, Spill,
       FinishFrame, Realign, definition
  <2>2. pending # {} => phase = "swept"
    BY DEF IInv, NothingMoves
  <2>3. phase' \notin CallPhases
    BY <1>5, <2>2 DEF Body, DeclareLocal, MarkUseful, OptimizerSweep, SelectReference, SelectorSweep, Spill,
       FinishFrame, Realign, realign_data_area, CallPhases
  <2> QED
    BY <1>1, <2>1, <2>3, ElsewhereKeeps DEF CallInv, TypesPlain
<1>6. CASE UNCHANGED vars
  <2>1. UNCHANGED << types, phase, kind, total, signature, elaborated, byCopy, places, arguments, elements >>
    BY <1>6 DEF vars, definition, area, call
  <2>2. Placing'
    BY <1>1, <2>1, PlacingStays DEF Declared
  <2>3. /\ Orderly' <=> Orderly
        /\ EndSet' = EndSet /\ InitialPadding' = InitialPadding
        /\ \A f : Ends(f)' <=> Ends(f)
    BY <2>1, DeclaredStays DEF Declared
  <2>4. \A f : Agree(f)' <=> Agree(f)
    BY <2>1 DEF Agree
  <2>5. \A i : ElementPlace(i)' = ElementPlace(i)
    BY <2>1, <2>3 DEF ElementPlace
  <2>6. (ListStored' <=> ListStored) /\ (AllStored' <=> AllStored)
    BY <2>1, <2>3, <2>5 DEF ListStored, AllStored
  <2>7. Declaring'
    BY <2>1, <2>3 DEF CallInv, Declaring
  <2>8. Called'
    BY <2>1, <2>3 DEF CallInv, Called
  <2>9. Storing'
    BY <2>1, <2>3, <2>4, <2>6 DEF CallInv, Storing
  <2>10. ArgumentsFound'
    <3>1. StackPlaces' = StackPlaces /\ (contains_stack_params' <=> contains_stack_params)
      BY <2>1 DEF StackPlaces, contains_stack_params, GeneralPurposeCount, FloatCount
    <3> QED
      BY <2>1, <2>3, <2>5, <3>1 DEF CallInv, ArgumentsFound
  <2> QED
    BY <1>1, <2>1, <2>2, <2>7, <2>8, <2>9, <2>10 DEF CallInv, TypesPlain, Undeclared, call
<1> QED
  BY <1>2, <1>3, <1>4, <1>5, <1>6 DEF Next

(* At first nothing is declared. *)
LEMMA CallInvInit == Init => CallInv
<1> SUFFICES ASSUME Init PROVE CallInv
  OBVIOUS
<1>1. /\ phase = "types" /\ types = Scalars /\ signature = << >> /\ elaborated = NoDefinition /\ byCopy = FALSE
      /\ places = << >> /\ arguments = << >> /\ elements = << >>
  BY DEF Init, TypesInit
<1>2. TypesPlain
  BY <1>1, ScalarsAssumption DEF TypesPlain, Plain
<1>3. DOMAIN << >> = {} /\ << >> \in Seq(PlaceSet)
  BY EmptySeq
<1>4. Placing
  BY <1>1, <1>3 DEF Placing, ListsLast, Numbered
<1> QED
  BY <1>1, <1>2, <1>4 DEF CallInv, Undeclared, call, Declaring, Called, Storing, ArgumentsFound

(* A call puts every argument, and every member of a list, where the       *)
(* function looks for it, within the aligned part of the stack it          *)
(* reserves, for any types, any number of parameters, members and          *)
(* registers (parser.c:13118, symtab.c:990, cfg.c:6986-7385,               *)
(* instruction_selector.c:2199).                                           *)
THEOREM ParametersAreFound == Spec => []ArgumentsFound
<1>1. CallInv => ArgumentsFound
  BY DEF CallInv
<1> QED
  BY <1>1, CallInvInit, CallInvKept, FrameInvariant, PTL DEF Spec
=============================================================================
