----------------------------- MODULE TypeProofs -----------------------------
(***************************************************************************)
(* Proofs about the layout of structs and unions, for any members, and     *)
(* about switches over an enumeration, for any values.                     *)
(*                                                                         *)
(* The offset of a member is counted from the member before it and the     *)
(* size of the struct on its own.  That the two agree while members are    *)
(* added (SizeIsEnd) is what makes the size hold them all in the end.      *)
(*                                                                         *)
(* Whether a switch has all the cases is decided from the two ends of the  *)
(* sorted values and from there being no gap: then they are an interval    *)
(* (ContiguousIsInterval).                                                 *)
(***************************************************************************)
EXTENDS FramesProofs, NumberFacts

(* A struct or union d, and what holds of each of its members. *)
DefinitionSet ==
  [ class : {"struct", "union"}, complete : BOOLEAN, size : Nat, align : Alignments \cup {0},
    members : Seq(MemberSet) ]
Fits(m, d) ==
  /\ m.offset % m.align = 0 /\ m.align <= d.align
  /\ m.offset + m.size <= d.size
Apart(d) ==
  \A i, j \in DOMAIN d.members : i < j => d.members[i].offset + d.members[i].size <= d.members[j].offset
SizeIsEnd(d) == d.class = "struct" /\ ~ d.complete => d.size = EndOf(d.members)
SizeIsMultiple(d) == d.complete => d.size % Max2(d.align, 2) = 0
Layout(d) ==
  /\ \A i \in DOMAIN d.members : Fits(d.members[i], d)
  /\ d.class = "struct" => Apart(d)
  /\ SizeIsEnd(d) /\ SizeIsMultiple(d)

LayoutInv == open.class \in {"struct", "union"} => Layout(open)

-----------------------------------------------------------------------------
(* Multiples of powers of two. *)

(* Rounding up gives a multiple. *)
LEMMA RoundedIsMultiple ==
  ASSUME NEW n \in Nat, NEW unit \in Alignments
  PROVE  RoundUpTo(n, unit) % unit = 0 /\ RoundUpTo(n, unit) \in Nat /\ RoundUpTo(n, unit) >= n
<1>1. CASE unit = 1
  BY <1>1 DEF RoundUpTo
<1>2. CASE unit = 2
  BY <1>2 DEF RoundUpTo
<1>3. CASE unit = 4
  BY <1>3 DEF RoundUpTo
<1>4. CASE unit = 8
  BY <1>4 DEF RoundUpTo
<1> QED
  BY <1>1, <1>2, <1>3, <1>4 DEF Alignments

(* A multiple of an alignment is one of every smaller alignment. *)
LEMMA SmallerDivides ==
  ASSUME NEW n \in Nat, NEW a \in Alignments, NEW b \in Alignments, a <= b, n % b = 0
  PROVE  n % a = 0
<1>1. CASE b = 1
  BY <1>1 DEF Alignments
<1>2. CASE b = 2
  BY <1>2 DEF Alignments
<1>3. CASE b = 4
  BY <1>3 DEF Alignments
<1>4. CASE b = 8
  BY <1>4 DEF Alignments
<1> QED
  BY <1>1, <1>2, <1>3, <1>4 DEF Alignments

-----------------------------------------------------------------------------
(* The definition at hand has the fields of a struct or union. *)
LEMMA AggregateTyped ==
  ASSUME Typed, open.class \in {"struct", "union"}
  PROVE  open \in DefinitionSet /\ (open.members # << >> => open.align \in Alignments)
BY DEF Typed, OpenAggregateTyped, DefinitionSet

(* A member that is aligned and lies behind the others keeps the layout;   *)
(* in a union it lies over them.                                           *)
LEMMA PlacedKeeps ==
  ASSUME NEW d \in DefinitionSet, Layout(d),
         NEW m \in MemberSet, NEW e \in DefinitionSet,
         m.offset % m.align = 0, d.size <= e.size, m.offset + m.size <= e.size,
         d.class = "struct" => d.size <= m.offset /\ e.size = m.offset + m.size,
         e.class = d.class, ~ e.complete,
         d.align <= e.align, m.align <= e.align,
         e.members = Append(d.members, m)
  PROVE  Layout(e)
<1> DEFINE n == Len(d.members)
<1>1. /\ d.members \in Seq(MemberSet) /\ n \in Nat /\ DOMAIN d.members = 1 .. n
      /\ d.size \in Nat /\ d.align \in Nat /\ e.size \in Nat /\ e.align \in Nat
  BY DEF DefinitionSet, Alignments
<1>2. m.offset \in Nat /\ m.size \in Nat /\ m.align \in Nat
  BY DEF MemberSet, Alignments
<1>3. /\ Len(e.members) = n + 1 /\ DOMAIN e.members = 1 .. n + 1
      /\ e.members[n + 1] = m
      /\ \A i \in 1 .. n : e.members[i] = d.members[i]
  BY <1>1
<1>4. ASSUME NEW i \in 1 .. n
      PROVE  /\ d.members[i].offset \in Nat /\ d.members[i].size \in Nat
             /\ d.members[i].align \in Nat
             /\ Fits(d.members[i], d)
  <2>1. d.members[i] \in MemberSet
    BY <1>1, ElementOfSeq
  <2>2. Fits(d.members[i], d)
    BY <1>1 DEF Layout
  <2> QED
    BY <2>1, <2>2 DEF MemberSet, Alignments
<1> HIDE DEF n
<1>5. \A i \in 1 .. n + 1 : i = n + 1 \/ i \in 1 .. n
  BY <1>1
<1>6. Fits(m, e)
  BY DEF Fits
<1>7. ASSUME NEW i \in 1 .. n PROVE Fits(d.members[i], e)
  <2> DEFINE k == d.members[i]
  <2>1. /\ k.offset \in Nat /\ k.size \in Nat /\ k.align \in Nat
        /\ k.offset % k.align = 0 /\ k.align <= d.align /\ k.offset + k.size <= d.size
    BY <1>4 DEF Fits
  <2> HIDE DEF k
  <2>2. k.align <= e.align
    BY <1>1, <2>1
  <2>3. k.offset + k.size <= e.size
    BY <1>1, <2>1
  <2>4. Fits(k, e)
    BY <2>1, <2>2, <2>3 DEF Fits
  <2> QED
    BY <2>4 DEF k
<1>8. \A i \in DOMAIN e.members : Fits(e.members[i], e)
  BY <1>3, <1>5, <1>6, <1>7
<1>9. e.class = "struct" => Apart(e)
  <2> SUFFICES ASSUME e.class = "struct", NEW i \in 1 .. n + 1, NEW j \in 1 .. n + 1, i < j
               PROVE  e.members[i].offset + e.members[i].size <= e.members[j].offset
    BY <1>3 DEF Apart
  <2>1. i \in 1 .. n
    BY <1>1
  <2>2. CASE j = n + 1
    <3>1. d.members[i].offset + d.members[i].size <= d.size
      BY <1>4, <2>1 DEF Fits
    <3>2. d.members[i].offset + d.members[i].size \in Nat /\ d.size <= m.offset
      BY <1>4, <2>1
    <3>3. d.members[i].offset + d.members[i].size <= m.offset
      BY <1>1, <1>2, <3>1, <3>2
    <3> QED
      BY <1>3, <2>1, <2>2, <3>3
  <2>3. CASE j \in 1 .. n
    <3>1. Apart(d)
      BY DEF Layout
    <3> QED
      BY <1>1, <1>3, <2>1, <2>3, <3>1 DEF Apart
  <2> QED
    BY <1>5, <2>2, <2>3
<1>10. SizeIsEnd(e)
  <2>1. e.members # << >>
    BY <1>1, <1>3, EmptySeq
  <2>2. Last(e.members) = m
    BY <1>3 DEF Last
  <2> QED
    BY <2>1, <2>2 DEF SizeIsEnd, EndOf
<1>11. SizeIsMultiple(e)
  BY DEF SizeIsMultiple
<1> QED
  BY <1>8, <1>9, <1>10, <1>11 DEF Layout

(* Each step of a definition keeps the layout. *)
LEMMA DefiningKeeps ==
  ASSUME Typed, LayoutInv, TypesNext
  PROVE  LayoutInv'
<1>1. Spelled \subseteq TypeSet
  BY SpelledTyped DEF Typed
<1>2. ASSUME NEW class \in {"struct", "union"}, Defining(class)
      PROVE  /\ open \in DefinitionSet /\ Layout(open) /\ ~ open.complete /\ open.class = class
             /\ open.size \in Nat /\ open.align \in Alignments \cup {0}
             /\ open.members \in Seq(MemberSet)
  BY <1>2, AggregateTyped DEF Defining, LayoutInv, DefinitionSet
<1>3. ASSUME UNCHANGED open PROVE LayoutInv'
  BY <1>3 DEF LayoutInv
<1>4. ASSUME NEW class \in {"struct", "union"}, OpenAggregate(class) PROVE LayoutInv'
  <2>1. /\ open'.class = class /\ open'.complete = FALSE
        /\ open'.size = 0 /\ open'.members = << >>
    BY <1>4 DEF OpenAggregate
  <2>2. DOMAIN open'.members = {}
    BY <2>1
  <2> QED
    BY <2>1, <2>2 DEF LayoutInv, Layout, Apart, SizeIsEnd, SizeIsMultiple, EndOf
<1>5. ASSUME NEW t \in TypeSet, NEW offset \in Nat, NEW size \in Nat,
             open \in DefinitionSet, Layout(open), ~ open.complete,
             offset % t.align = 0, open.size <= size, offset + t.size <= size,
             open.class = "struct" => open.size <= offset /\ size = offset + t.size,
             open' = [ open EXCEPT !.members = Append(@, Member(t, offset)),
                                   !.size = size, !.align = Max2(@, t.align) ]
      PROVE  LayoutInv'
  <2>1. Member(t, offset) \in MemberSet
    BY DEF Member, MemberSet, TypeSet
  <2>2. /\ Member(t, offset).offset = offset /\ Member(t, offset).size = t.size
        /\ Member(t, offset).align = t.align
    BY DEF Member
  <2>3. /\ Max2(open.align, t.align) \in Alignments
        /\ open.align <= Max2(open.align, t.align) /\ t.align <= Max2(open.align, t.align)
    BY <1>5 DEF Max2, Alignments, DefinitionSet, TypeSet
  <2>4. /\ open'.class = open.class /\ open'.complete = FALSE /\ open'.size = size
        /\ open'.align = Max2(open.align, t.align)
        /\ open'.members = Append(open.members, Member(t, offset))
    BY <1>5 DEF DefinitionSet
  <2>5. open' \in DefinitionSet
    <3>1. Append(open.members, Member(t, offset)) \in Seq(MemberSet)
      BY <1>5, <2>1 DEF DefinitionSet
    <3>2. open.class \in {"struct", "union"} /\ open.complete \in BOOLEAN
      BY <1>5 DEF DefinitionSet
    <3> QED
      BY <1>5, <2>3, <3>1, <3>2 DEF DefinitionSet
  <2>6. Layout(open')
    BY <1>5, <2>1, <2>2, <2>3, <2>4, <2>5, PlacedKeeps
  <2> QED
    BY <2>6 DEF LayoutInv
<1>6. ASSUME NEW t \in Spelled, add_struct_member(t) PROVE LayoutInv'
  <2> DEFINE end == EndOf(open.members)
             offset == RoundUpTo(end, t.align)
             size == open.size + t.size + (offset - end)
  <2>1. t \in TypeSet /\ t.size \in Nat /\ t.align \in Alignments
    BY <1>1 DEF TypeSet
  <2>2. /\ open \in DefinitionSet /\ Layout(open) /\ ~ open.complete /\ open.class = "struct"
        /\ open.size \in Nat
    BY <1>2, <1>6 DEF add_struct_member
  <2>3. open.size = end
    BY <2>2 DEF Layout, SizeIsEnd
  <2> HIDE DEF end
  <2>4. offset \in Nat /\ offset >= end /\ offset % t.align = 0
    BY <2>1, <2>2, <2>3, RoundedIsMultiple
  <2>5. /\ open' = [ open EXCEPT !.members = Append(@, Member(t, offset)),
                                 !.size = size, !.align = Max2(@, t.align) ]
    BY <1>6 DEF add_struct_member, end
  <2> HIDE DEF offset
  <2>6. size = offset + t.size /\ size \in Nat /\ open.size <= size /\ offset + t.size <= size
    BY <2>1, <2>2, <2>3, <2>4
  <2> HIDE DEF size
  <2> QED
    BY <1>5, <2>1, <2>2, <2>3, <2>4, <2>5, <2>6
<1>7. ASSUME NEW t \in Spelled, add_union_member(t) PROVE LayoutInv'
  <2> DEFINE size == Max2(open.size, t.size)
  <2>1. t \in TypeSet /\ t.size \in Nat /\ t.align \in Alignments
    BY <1>1 DEF TypeSet
  <2>2. /\ open \in DefinitionSet /\ Layout(open) /\ ~ open.complete /\ open.class = "union"
        /\ open.size \in Nat
    BY <1>2, <1>7 DEF add_union_member
  <2>3. size \in Nat /\ open.size <= size /\ 0 + t.size <= size /\ 0 % t.align = 0
    BY <2>1, <2>2 DEF Max2, Alignments
  <2>4. open' = [ open EXCEPT !.members = Append(@, Member(t, 0)),
                              !.size = size, !.align = Max2(@, t.align) ]
    BY <1>7 DEF add_union_member
  <2> HIDE DEF size
  <2> QED
    BY <1>5, <2>1, <2>2, <2>3, <2>4
<1>8. ASSUME NEW class \in {"struct", "union"}, CloseAggregate(class) PROVE LayoutInv'
  <2>1. /\ open \in DefinitionSet /\ Layout(open) /\ open.size \in Nat
        /\ open.align \in Alignments \cup {0}
    BY <1>2, <1>8 DEF CloseAggregate
  <2>2. Max2(open.align, 2) \in Alignments
    BY <2>1 DEF Max2, Alignments
  <2>3. FinalSize \in Nat /\ FinalSize >= open.size /\ FinalSize % Max2(open.align, 2) = 0
    BY <2>1, <2>2, RoundedIsMultiple DEF FinalSize
  <2>4. /\ open'.class = open.class /\ open'.complete /\ open'.size = FinalSize
        /\ open'.align = open.align /\ open'.members = open.members
    BY <1>8, <2>1 DEF CloseAggregate, DefinitionSet
  <2>5. ASSUME NEW i \in DOMAIN open.members PROVE Fits(open.members[i], open')
    <3> DEFINE k == open.members[i]
    <3>1. k \in MemberSet /\ Fits(k, open)
      BY <2>1 DEF Layout, DefinitionSet
    <3>2. k.offset + k.size \in Nat /\ k.offset + k.size <= open.size
      BY <3>1 DEF Fits, MemberSet
    <3> HIDE DEF k
    <3>3. k.offset + k.size <= FinalSize
      BY <2>1, <2>3, <3>2
    <3>4. Fits(k, open')
      BY <2>4, <3>1, <3>3 DEF Fits
    <3> QED
      BY <3>4 DEF k
  <2>6. open'.class = "struct" => Apart(open')
    BY <2>1, <2>4 DEF Layout, Apart
  <2>7. SizeIsEnd(open') /\ SizeIsMultiple(open')
    BY <2>3, <2>4 DEF SizeIsEnd, SizeIsMultiple
  <2> QED
    BY <2>4, <2>5, <2>6, <2>7 DEF LayoutInv, Layout
<1>9. ASSUME OpenEnumeration \/ CloseEnumeration \/ ImplicitMember \/ \E v \in Constants : ExplicitMember(v)
      PROVE  LayoutInv'
  <2>1. "class" \in DOMAIN open
    BY DEF Typed
  <2>2. CASE OpenEnumeration
    BY <2>2 DEF OpenEnumeration, LayoutInv
  <2>3. CASE CloseEnumeration
    <3>1. open'.class = "enum"
      BY <2>1, <2>3 DEF CloseEnumeration, Defining
    <3> QED
      BY <3>1 DEF LayoutInv
  <2>4. CASE ImplicitMember
    <3>1. open' = open \/ open'.class = "enum"
      BY <2>1, <2>4 DEF ImplicitMember, Defining, Reject
    <3> QED
      BY <1>3, <3>1 DEF LayoutInv
  <2>5. ASSUME NEW v \in Constants, ExplicitMember(v) PROVE LayoutInv'
    <3>1. open' = open \/ open'.class = "enum"
      BY <2>1, <2>5 DEF ExplicitMember, Defining, Reject
    <3> QED
      BY <1>3, <3>1 DEF LayoutInv
  <2> QED
    BY <1>9, <2>2, <2>3, <2>4, <2>5
<1>10. ASSUME \/ switch_statement
              \/ (Defining("struct") \/ Defining("union")) /\ Reject("member")
              \/ \E style \in Styles : default_statement(style)
              \/ \E v \in CaseConstants, style \in Styles : case_statement(v, style)
       PROVE  LayoutInv'
  BY <1>3, <1>10 DEF default_statement, switch_statement, case_statement, Reject
<1> QED
  BY <1>4, <1>6, <1>7, <1>8, <1>9, <1>10
  DEF TypesNext, struct_definer, struct_member, struct_member_list, union_definer, union_member,
      union_member_list

-----------------------------------------------------------------------------
(* The layout is kept by every step of the compiler. *)
LEMMA LayoutKept == IInv /\ LayoutInv /\ [Next]_vars => LayoutInv'
<1> SUFFICES ASSUME IInv, LayoutInv, [Next]_vars PROVE LayoutInv'
  OBVIOUS
<1>1. Typed
  BY DEF IInv
<1>2. CASE Define
  BY <1>1, <1>2, DefiningKeeps DEF Define
<1>3. CASE EndTypes
  BY <1>3 DEF EndTypes, NoDefinition, LayoutInv
<1>4. CASE Body \/ Calls \/ UNCHANGED vars
  <2>1. UNCHANGED open
    BY <1>4 DEF Body, Calls, vars, definition, DeclareLocal, MarkUseful, OptimizerSweep,
       SelectReference, SelectorSweep, Spill, FinishFrame, Realign, DeclareParameter, DeclareList,
       EndParameters, ResultType, BeginCall, StoreArgument, StoreCount, StoreElement, Call
  <2> QED
    BY <2>1 DEF LayoutInv
<1> QED
  BY <1>2, <1>3, <1>4 DEF Next

(* A finished struct or union is laid out right. *)
LEMMA LayoutSuffices == IInv /\ LayoutInv => MembersApart
<1> SUFFICES ASSUME IInv, LayoutInv, open.class \in {"struct", "union"}, open.complete,
                    NEW i \in DOMAIN open.members
             PROVE  LET m == open.members[i] IN
                    /\ m.offset % m.align = 0 /\ open.size % m.align = 0
                    /\ m.offset + m.size <= open.size
                    /\ open.class = "struct" =>
                         \A j \in DOMAIN open.members : i < j => m.offset + m.size <= open.members[j].offset
  BY DEF MembersApart
<1> DEFINE m == open.members[i]
<1>1. /\ open \in DefinitionSet /\ Layout(open) /\ m \in MemberSet /\ Fits(m, open)
      /\ open.align \in Alignments
  <2>1. open \in DefinitionSet /\ Layout(open)
    BY AggregateTyped DEF IInv, LayoutInv
  <2>2. open.members # << >>
    OBVIOUS
  <2> QED
    BY <2>1, <2>2, AggregateTyped DEF IInv, Layout, DefinitionSet
<1>2. open.size % m.align = 0
  <2>1. open.size \in Nat /\ m.align \in Alignments /\ m.align <= open.align
    BY <1>1 DEF DefinitionSet, MemberSet, Fits
  <2>2. Max2(open.align, 2) \in Alignments /\ open.align <= Max2(open.align, 2)
    BY <1>1 DEF Max2, Alignments
  <2>3. open.size % Max2(open.align, 2) = 0
    BY <1>1 DEF Layout, SizeIsMultiple
  <2> HIDE DEF m
  <2>4. m.align <= Max2(open.align, 2)
    BY <1>1, <2>1, <2>2 DEF Alignments
  <2> QED
    BY <2>1, <2>2, <2>3, <2>4, SmallerDivides
<1> QED
  BY <1>1, <1>2 DEF Fits, Layout, Apart

(* In every struct and union that can be defined the members are aligned,  *)
(* lie within it and, in a struct, do not share a byte, for any number of  *)
(* members of any types (type_system.c:2732-2991).                         *)
THEOREM MembersDoNotOverlap == Spec => []MembersApart
<1>1. Init => LayoutInv
  BY DEF Init, TypesInit, NoDefinition, LayoutInv
<1> QED
  BY <1>1, LayoutKept, LayoutSuffices, FrameInvariant, PTL DEF Spec

-----------------------------------------------------------------------------
(* Switches over an enumeration. *)

EnumerationSet ==
  [ class : {"enum"}, complete : BOOLEAN, size : {0} \cup Alignments, contiguous : BOOLEAN,
    values : Seq(Int), user : BOOLEAN, largest : Int ]
SwitchSet ==
  [ values : SUBSET ToSet(open.values), default : BOOLEAN, style : Styles \cup {"undecided"},
    empty : BOOLEAN, ended : BOOLEAN ]
SwitchInv ==
  open.class = "enum" =>
    /\ open \in EnumerationSet /\ switch \in SwitchSet
    /\ ~ open.complete => switch = NoSwitch
    /\ ~ switch.empty => switch.values # {} \/ switch.default
    /\ SwitchesAreTotal

(* The values of an enumeration, and the cases among them, have bounds. *)
LEMMA ValuesBounded ==
  ASSUME NEW s \in Seq(Int)
  PROVE  /\ ToSet(s) \subseteq Int
         /\ \E bound \in Nat : \A v \in ToSet(s) : -bound <= v /\ v <= bound
<1>1. PICK bound \in Nat : \A i \in DOMAIN s : -bound <= s[i] /\ s[i] <= bound
  BY SequenceIsBounded
<1>2. \A i \in DOMAIN s : s[i] \in Int
  OBVIOUS
<1> QED
  BY <1>1, <1>2 DEF ToSet

(* Values without a gap are all the numbers between their bounds. *)
LEMMA ContiguousIsInterval ==
  ASSUME NEW S, S \subseteq Int, S # {}, IsContiguous(S),
         NEW bound \in Nat, \A v \in S : -bound <= v /\ v <= bound
  PROVE  /\ Lowest(S) \in Int /\ Highest(S) \in Int
         /\ \A x \in Int : Lowest(S) <= x /\ x <= Highest(S) => x \in S
<1>1. Lowest(S) \in S /\ \A v \in S : Lowest(S) <= v
  BY LowestExists DEF Lowest
<1>2. Highest(S) \in S /\ \A v \in S : v <= Highest(S)
  BY HighestExists DEF Highest
<1> DEFINE low == Lowest(S)
           high == Highest(S)
           T == { k \in Nat : low + k <= high => low + k \in S }
<1>3. low \in Int /\ high \in Int /\ low \in S /\ high \in S
  BY <1>1, <1>2
<1> HIDE DEF low, high
<1>4. 0 \in T
  BY <1>3
<1>5. ASSUME NEW k \in Nat, k \in T PROVE k + 1 \in T
  <2> SUFFICES ASSUME low + (k + 1) <= high PROVE low + (k + 1) \in S
    OBVIOUS
  <2> DEFINE v == low + k
             later == { w \in S : w > v }
  <2>1. v \in Int /\ v \in S /\ v # high /\ high \in later
    BY <1>3, <1>5
  <2>2. Lowest(later) - v = 1
    BY <2>1 DEF IsContiguous, high
  <2> HIDE DEF v
  <2>3. Lowest(later) \in later
    <3>1. later \subseteq Int /\ later # {} /\ \A w \in later : -bound <= w
      BY <2>1
    <3> HIDE DEF later
    <3> QED
      BY <3>1, LowestExists DEF Lowest
  <2>4. Lowest(later) = v + 1 /\ Lowest(later) \in S
    <3>1. Lowest(later) \in S /\ Lowest(later) \in Int
      BY <2>3
    <3> HIDE DEF later
    <3> QED
      BY <2>1, <2>2, <3>1
  <2>5. low + (k + 1) = v + 1
    BY <1>3 DEF v
  <2> QED
    BY <2>4, <2>5
<1>6. ASSUME NEW x \in Int, low <= x, x <= high PROVE x \in S
  <2>1. x - low \in Nat /\ low + (x - low) = x
    BY <1>3, <1>6
  <2>2. Nat \subseteq T
    <3> HIDE DEF T
    <3> QED
      BY <1>4, <1>5, Induction
  <2>3. x - low \in T
    BY <2>1, <2>2
  <2> QED
    BY <1>6, <2>1, <2>3
<1> QED
  BY <1>3, <1>6 DEF low, high

(* What the compiler takes for all the cases are all of them. *)
LEMMA ExhaustiveCovers ==
  ASSUME open.values \in Seq(Int), NEW S, S \subseteq ToSet(open.values), S # {},
         is_switch_exhaustive_switch(S)
  PROVE  ToSet(open.values) \subseteq S
<1> DEFINE V == ToSet(open.values)
<1>1. V \subseteq Int
  BY ValuesBounded
<1>2. PICK bound \in Nat : \A v \in V : -bound <= v /\ v <= bound
  BY ValuesBounded
<1>3. Lowest(S) = Lowest(V) /\ Highest(S) = Highest(V) /\ IsContiguous(S)
  BY DEF is_switch_exhaustive_switch
<1> HIDE DEF V
<1>4. V # {} /\ S \subseteq V
  BY DEF V
<1>5. \A x \in Int : Lowest(S) <= x /\ x <= Highest(S) => x \in S
  BY <1>1, <1>2, <1>3, <1>4, ContiguousIsInterval
<1>6. \A v \in V : Lowest(V) <= v /\ v <= Highest(V)
  BY <1>1, <1>2, <1>4, LowestExists, HighestExists DEF Lowest, Highest
<1> QED
  BY <1>1, <1>3, <1>5, <1>6 DEF V

LEMMA ImplicitKeeps ==
  ASSUME SwitchInv, ImplicitMember
  PROVE  SwitchInv'
<1>1. open \in EnumerationSet /\ ~ open.complete /\ switch = NoSwitch
  BY DEF SwitchInv, ImplicitMember, Defining
<1>2. CASE UNCHANGED << open, switch >>
  BY <1>1, <1>2 DEF SwitchInv, SwitchesAreTotal, SwitchSet, EnumerationSet
<1>3. CASE open' = [ open EXCEPT !.values = Append(@, Len(@)), !.largest = Len(open.values) ]
           /\ UNCHANGED << switch, verdict >>
  <2>1. open.values \in Seq(Int) /\ Len(open.values) \in Int
    BY <1>1 DEF EnumerationSet
  <2>2. Append(open.values, Len(open.values)) \in Seq(Int)
    BY <2>1
  <2>3. open' \in EnumerationSet /\ ~ open'.complete
    BY <1>1, <1>3, <2>1, <2>2 DEF EnumerationSet
  <2>4. switch' \in SwitchSet'
    BY <1>1, <1>3 DEF NoSwitch, SwitchSet
  <2> QED
    BY <1>1, <1>3, <2>3, <2>4 DEF SwitchInv, SwitchesAreTotal, NoSwitch
<1> QED
  BY <1>2, <1>3 DEF ImplicitMember, Reject

LEMMA ExplicitKeeps ==
  ASSUME SwitchInv, NEW v \in Constants, ExplicitMember(v)
  PROVE  SwitchInv'
<1>1. open \in EnumerationSet /\ ~ open.complete /\ switch = NoSwitch
  BY DEF SwitchInv, ExplicitMember, Defining
<1>2. CASE UNCHANGED << open, switch >>
  BY <1>1, <1>2 DEF SwitchInv, SwitchesAreTotal, SwitchSet, EnumerationSet
<1> DEFINE value == AsSigned(v, 4)
           largest == Max2(open.largest, Unsigned(v, 8))
<1>3. CASE open' = [ open EXCEPT !.values = Append(@, value), !.user = TRUE, !.largest = largest ]
           /\ UNCHANGED << switch, verdict >>
  <2>1. Unsigned(v, 4) \in Int /\ Unsigned(v, 8) \in Int /\ Power(4) \in Int
    BY ConstantsAssumption, PowersAssumption DEF Unsigned, Alignments
  <2>2. value \in Int /\ largest \in Int /\ open.values \in Seq(Int)
    BY <1>1, <2>1 DEF AsSigned, Max2, EnumerationSet
  <2> HIDE DEF value, largest
  <2>3. Append(open.values, value) \in Seq(Int)
    BY <2>2
  <2>4. open' \in EnumerationSet /\ ~ open'.complete
    BY <1>1, <1>3, <2>2, <2>3 DEF EnumerationSet
  <2>5. switch' \in SwitchSet'
    BY <1>1, <1>3 DEF NoSwitch, SwitchSet
  <2> QED
    BY <1>1, <1>3, <2>4, <2>5 DEF SwitchInv, SwitchesAreTotal, NoSwitch
<1> QED
  BY <1>2, <1>3 DEF ExplicitMember, Reject

LEMMA CloseKeeps ==
  ASSUME SwitchInv, CloseEnumeration
  PROVE  SwitchInv'
<1> DEFINE size == determine_required_minimum_signed_integer_type_size(open.largest)
           contiguous == IsContiguous(ToSet(open.values))
<1>1. open \in EnumerationSet /\ ~ open.complete /\ switch = NoSwitch
  BY DEF SwitchInv, CloseEnumeration, Defining
<1>2. size \in Alignments /\ contiguous \in BOOLEAN
  BY EnumerationSize DEF Alignments, IsContiguous
<1>3. open' = [ open EXCEPT !.complete = TRUE, !.size = size, !.contiguous = contiguous ]
      /\ UNCHANGED << switch, verdict >>
  BY DEF CloseEnumeration
<1> HIDE DEF size, contiguous
<1>4. open' \in EnumerationSet
  BY <1>1, <1>2, <1>3 DEF EnumerationSet
<1>5. switch' \in SwitchSet'
  BY <1>1, <1>3 DEF NoSwitch, SwitchSet
<1>6. open'.complete
  BY <1>1, <1>3 DEF EnumerationSet
<1> QED
  BY <1>1, <1>3, <1>4, <1>5, <1>6 DEF SwitchInv, SwitchesAreTotal, NoSwitch

(* A clause leaves the switch open, and only adds to its cases. *)
LEMMA ClauseKeeps ==
  ASSUME SwitchInv,
         \/ \E v \in CaseConstants, style \in Styles : Switching /\ case_statement(v, style)
         \/ \E style \in Styles : default_statement(style)
  PROVE  SwitchInv'
<1>1. open.class = "enum" /\ open.complete /\ ~ switch.ended /\ verdict = "accepted"
  BY DEF default_statement, Switching, Working
<1>2. /\ open \in EnumerationSet /\ switch \in SwitchSet
      /\ ~ switch.empty => switch.values # {} \/ switch.default
  BY <1>1 DEF SwitchInv
<1>3. CASE UNCHANGED << open, switch >> /\ verdict' # "unreachable default"
  BY <1>1, <1>2, <1>3 DEF SwitchInv, SwitchesAreTotal, SwitchSet, EnumerationSet
<1>4. ASSUME NEW v \in ToSet(open.values), NEW style \in Styles, UNCHANGED << open, verdict >>,
             switch' = [ switch EXCEPT !.values = @ \cup {v}, !.style = style, !.empty = FALSE ]
      PROVE  SwitchInv'
  <2>1. switch' \in SwitchSet' /\ switch'.ended = FALSE /\ switch'.values # {}
    BY <1>1, <1>2, <1>4 DEF SwitchSet
  <2> QED
    BY <1>1, <1>2, <1>4, <2>1 DEF SwitchInv, SwitchesAreTotal
<1>5. ASSUME NEW style \in Styles, UNCHANGED << open, verdict >>,
             switch' = [ switch EXCEPT !.default = TRUE, !.style = style, !.empty = @ /\ style = "C" ]
      PROVE  SwitchInv'
  <2>1. (switch.empty /\ style = "C") \in BOOLEAN
    OBVIOUS
  <2>2. switch' \in SwitchSet' /\ switch'.ended = FALSE /\ switch'.default = TRUE
    BY <1>1, <1>2, <1>5, <2>1 DEF SwitchSet
  <2> QED
    BY <1>1, <1>2, <1>5, <2>2 DEF SwitchInv, SwitchesAreTotal
<1>6. ASSUME NEW v \in CaseConstants, NEW style \in Styles, case_statement(v, style)
      PROVE  SwitchInv'
  BY <1>3, <1>4, <1>6 DEF case_statement, Reject
<1>7. ASSUME NEW style \in Styles, default_statement(style)
      PROVE  SwitchInv'
  BY <1>3, <1>5, <1>7 DEF default_statement, Reject
<1> QED
  BY <1>6, <1>7

LEMMA EndKeeps ==
  ASSUME SwitchInv, switch_statement
  PROVE  SwitchInv'
<1>1. open.class = "enum" /\ open.complete /\ ~ switch.ended /\ verdict = "accepted"
  BY DEF switch_statement, Switching, Working
<1>2. /\ open \in EnumerationSet /\ switch \in SwitchSet
      /\ ~ switch.empty => switch.values # {} \/ switch.default
  BY <1>1 DEF SwitchInv
<1>3. open.values \in Seq(Int) /\ switch.values \subseteq ToSet(open.values)
      /\ switch.default \in BOOLEAN
  BY <1>2 DEF EnumerationSet, SwitchSet
<1>4. CASE UNCHANGED << open, switch >> /\ verdict' # "unreachable default"
  BY <1>1, <1>2, <1>4 DEF SwitchInv, SwitchesAreTotal, SwitchSet, EnumerationSet
<1>5. ASSUME NEW exhaustive \in Exhaustive, exhaustive, switch.values # {}
      PROVE  ToSet(open.values) \subseteq switch.values
  <2>1. is_switch_exhaustive_switch(switch.values)
    BY <1>5 DEF Exhaustive
  <2> QED
    BY <1>3, <1>5, <2>1, ExhaustiveCovers
<1>6. CASE switch.empty
  BY <1>4, <1>6 DEF switch_statement, Reject
<1>7. CASE ~ switch.empty
  <2>1. PICK exhaustive \in Exhaustive :
          IF exhaustive = switch.default
          THEN Reject(IF exhaustive THEN "unreachable default" ELSE "no default")
          ELSE /\ switch' = [ switch EXCEPT !.ended = TRUE ]
               /\ UNCHANGED << types, open, verdict >>
    BY <1>7 DEF switch_statement
  <2>2. exhaustive \in BOOLEAN
    BY DEF Exhaustive
  <2>3. CASE exhaustive = switch.default /\ exhaustive
    <3>1. UNCHANGED << open, switch >>
      BY <2>1, <2>3 DEF Reject
    <3> QED
      BY <1>1, <1>2, <1>5, <2>3, <3>1 DEF SwitchInv, SwitchesAreTotal, SwitchSet, EnumerationSet
  <2>4. CASE exhaustive = switch.default /\ ~ exhaustive
    BY <1>4, <2>1, <2>4 DEF Reject
  <2>5. CASE exhaustive # switch.default
    <3>1. switch' = [ switch EXCEPT !.ended = TRUE ] /\ UNCHANGED << open, verdict >>
      BY <2>1, <2>5
    <3>2. switch' \in SwitchSet' /\ switch'.values = switch.values /\ switch'.empty = switch.empty
          /\ switch'.default = switch.default
      BY <1>2, <3>1 DEF SwitchSet
    <3>3. ~ switch.default => ToSet(open.values) \subseteq switch.values
      BY <1>2, <1>3, <1>5, <1>7, <2>2, <2>5
    <3> QED
      BY <1>1, <1>2, <3>1, <3>2, <3>3 DEF SwitchInv, SwitchesAreTotal
  <2> QED
    BY <1>3, <2>2, <2>3, <2>4, <2>5
<1> QED
  BY <1>6, <1>7

(* What is known of a switch is kept by every step of the compiler. *)
LEMMA SwitchKept == IInv /\ SwitchInv /\ [Next]_vars => SwitchInv'
<1> SUFFICES ASSUME IInv, SwitchInv, [Next]_vars PROVE SwitchInv'
  OBVIOUS
<1>1. "class" \in DOMAIN open
  BY DEF IInv, Typed
<1>2. ASSUME UNCHANGED definition PROVE SwitchInv'
  BY <1>2 DEF definition, SwitchInv, SwitchesAreTotal, SwitchSet, EnumerationSet
<1>3. CASE Body \/ Calls \/ UNCHANGED vars
  <2>1. UNCHANGED definition
    BY <1>3 DEF Body, Calls, vars, DeclareLocal, MarkUseful, OptimizerSweep,
       SelectReference, SelectorSweep, Spill, FinishFrame, Realign, DeclareParameter, DeclareList,
       EndParameters, ResultType, BeginCall, StoreArgument, StoreCount, StoreElement, Call
  <2> QED
    BY <1>2, <2>1
<1>4. CASE EndTypes
  BY <1>4 DEF EndTypes, NoDefinition, SwitchInv
<1>5. CASE Define
  <2>1. TypesNext
    BY <1>5 DEF Define
  <2>2. ASSUME NEW class \in {"struct", "union"}, Defining(class) \/ OpenAggregate(class),
               open'.class = class
        PROVE  SwitchInv'
    BY <2>2 DEF SwitchInv
  <2>3. CASE struct_definer \/ union_definer
    BY <2>2, <2>3 DEF struct_definer, union_definer, OpenAggregate
  <2>4. CASE struct_member
    <3>1. Defining("struct") /\ open'.class = "struct"
      BY <1>1, <2>4 DEF struct_member, add_struct_member, Defining, Reject
    <3> QED
      BY <2>2, <3>1
  <2>5. CASE union_member
    <3>1. Defining("union") /\ open'.class = "union"
      BY <1>1, <2>5 DEF union_member, add_union_member, Defining, Reject
    <3> QED
      BY <2>2, <3>1
  <2>6. CASE struct_member_list
    <3>1. Defining("struct") /\ open'.class = "struct"
      BY <1>1, <2>6 DEF struct_member_list, CloseAggregate, Defining
    <3> QED
      BY <2>2, <3>1
  <2>7. CASE union_member_list
    <3>1. Defining("union") /\ open'.class = "union"
      BY <1>1, <2>7 DEF union_member_list, CloseAggregate, Defining
    <3> QED
      BY <2>2, <3>1
  <2>8. CASE OpenEnumeration
    <3>1. /\ switch = NoSwitch /\ UNCHANGED << switch, verdict >>
          /\ open' = [ class |-> "enum", complete |-> FALSE, size |-> 0, contiguous |-> FALSE,
                       values |-> << >>, user |-> FALSE, largest |-> 0 ]
      BY <2>8 DEF OpenEnumeration, CanDefine
    <3>2. open' \in EnumerationSet /\ ~ open'.complete
      BY <3>1 DEF EnumerationSet
    <3>3. switch' \in SwitchSet'
      BY <3>1 DEF NoSwitch, SwitchSet
    <3> QED
      BY <3>1, <3>2, <3>3 DEF SwitchInv, SwitchesAreTotal, NoSwitch
  <2>9. CASE ImplicitMember
    BY <2>9, ImplicitKeeps
  <2>10. CASE CloseEnumeration
    BY <2>10, CloseKeeps
  <2>11. CASE \E v \in Constants : ExplicitMember(v)
    BY <2>11, ExplicitKeeps
  <2>12. CASE \/ Switching /\ \E v \in CaseConstants, style \in Styles : case_statement(v, style)
              \/ \E style \in Styles : default_statement(style)
    BY <2>12, ClauseKeeps
  <2>13. CASE switch_statement
    BY <2>13, EndKeeps
  <2> QED
    BY <2>1, <2>3, <2>4, <2>5, <2>6, <2>7, <2>8, <2>9, <2>10, <2>11, <2>12, <2>13 DEF TypesNext
<1> QED
  BY <1>3, <1>4, <1>5 DEF Next

(* A switch that needs no default has a case for every member of the       *)
(* enumeration, and a default beside cases is refused only when they are   *)
(* complete, for any values (parser.c:10612-10676, 10935-10950).           *)
THEOREM SwitchesCoverEnumerations == Spec => []SwitchesAreTotal
<1>1. Init => SwitchInv
  BY DEF Init, TypesInit, NoDefinition, SwitchInv
<1>2. SwitchInv => SwitchesAreTotal
  BY DEF SwitchInv, SwitchesAreTotal
<1> QED
  BY <1>1, <1>2, SwitchKept, FrameInvariant, PTL DEF Spec
=============================================================================
