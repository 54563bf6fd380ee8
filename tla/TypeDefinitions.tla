--------------------------- MODULE TypeDefinitions ---------------------------
(***************************************************************************)
(* Definitions of structs, unions and enumerations, member by member, and  *)
(* switches over an enumeration.                                           *)
(*                                                                         *)
(* A type is what the rest of the compiler asks of it: its class, its      *)
(* size, and the size get_base_alignment_type aligns it by.  A byte has    *)
(* ByteBits bits.                                                          *)
(***************************************************************************)
EXTENDS Integers, Sequences, FiniteSets, SequencesExt

CONSTANTS
  Scalars,      \* the basic types and pointers of the instance
  Bounds,       \* sizes of arrays
  Constants,    \* values that enumerations and cases name
  ByteBits,
  MaxMembers,   \* bound on the members of a type and the cases of a switch
  MaxTypes      \* bound on the types that are defined

Classes == {"basic", "float", "pointer", "array", "elaborative", "struct", "union", "enum"}
Alignments == {1, 2, 4, 8}
TypeSet == [ class : Classes, size : Nat, align : Alignments ]

(* A scalar is aligned by itself (type_system.c:106). *)
ASSUME ScalarsAssumption ==
  \A t \in Scalars : t \in TypeSet /\ t.class \in {"basic", "float", "pointer"} /\ t.size = t.align
ASSUME ConstantsAssumption == Constants \subseteq Int
ASSUME BoundsAssumption == Bounds \subseteq Nat \ {0}

VARIABLES
  types,   \* the complete types
  open,    \* the definition at hand
  switch,  \* the switch at hand
  verdict  \* "accepted", or why the compiler gave up

Type(class, size, align) == [ class |-> class, size |-> size, align |-> align ]
ArrayOf(t, n) == Type("array", n * t.size, t.align)
Arrays == { ArrayOf(t, n) : t \in types, n \in Bounds }
Spelled == types \cup Arrays

NoDefinition == [ class |-> "none", complete |-> TRUE ]
NoSwitch == [ values |-> {}, default |-> FALSE, style |-> "undecided", empty |-> TRUE, ended |-> FALSE ]

Max2(a, b) == IF a > b THEN a ELSE b
RoundUpTo(n, unit) == IF n % unit = 0 THEN n ELSE n - (n % unit) + unit

Reject(why) == /\ verdict' = why
               /\ UNCHANGED << types, open, switch >>
Working == verdict = "accepted"
Defining(class) == Working /\ open.class = class /\ ~ open.complete
CanDefine == Working /\ open.complete /\ switch = NoSwitch /\ Cardinality(types \ Scalars) < MaxTypes

-----------------------------------------------------------------------------
(* Structs and unions. *)

OpenAggregate(class) ==
  /\ CanDefine
  /\ open' = [ class |-> class, complete |-> FALSE, size |-> 0, align |-> 0, members |-> << >> ]
  /\ UNCHANGED << types, switch, verdict >>

Member(t, offset) == [ offset |-> offset, size |-> t.size, align |-> t.align ]
EndOf(members) == IF members = << >> THEN 0 ELSE Last(members).offset + Last(members).size

(* Mutant: the padding before a member is not counted. *)
UnpaddedStructMember(t) ==
  /\ Defining("struct") /\ Len(open.members) < MaxMembers
  /\ LET offset == RoundUpTo(EndOf(open.members), t.align)
     IN  open' = [ open EXCEPT !.members = Append(@, Member(t, offset)),
                               !.size = @ + t.size,
                               !.align = Max2(@, t.align) ]
  /\ UNCHANGED << types, switch, verdict >>

(* The offset is counted from the member before, the size on its own. *)
add_struct_member(t) ==
  /\ Defining("struct") /\ Len(open.members) < MaxMembers
  /\ LET end == EndOf(open.members)
         offset == RoundUpTo(end, t.align)
     IN  open' = [ open EXCEPT !.members = Append(@, Member(t, offset)),
                               !.size = @ + t.size + (offset - end),
                               !.align = Max2(@, t.align) ]
  /\ UNCHANGED << types, switch, verdict >>

add_union_member(t) ==
  /\ Defining("union") /\ Len(open.members) < MaxMembers
  /\ open' = [ open EXCEPT !.members = Append(@, Member(t, 0)),
                           !.size = Max2(@, t.size),
                           !.align = Max2(@, t.align) ]
  /\ UNCHANGED << types, switch, verdict >>

(* The size becomes a multiple of the alignment, and of 2. *)
FinalSize == RoundUpTo(open.size, Max2(open.align, 2))

CloseAggregate(class) ==
  /\ Defining(class)
  /\ open.members # << >>
  /\ open' = [ open EXCEPT !.complete = TRUE, !.size = FinalSize ]
  /\ types' = types \cup { Type(open.class, FinalSize, open.align) }
  /\ UNCHANGED << switch, verdict >>

(* The parser's rules.  A member is refused for a name used before, void,  *)
(* or an incomplete type, such as the one being defined.                   *)
struct_definer == OpenAggregate("struct")
union_definer == OpenAggregate("union")
struct_member == (Defining("struct") /\ Reject("member")) \/ \E t \in Spelled : add_struct_member(t)
union_member == (Defining("union") /\ Reject("member")) \/ \E t \in Spelled : add_union_member(t)
struct_member_list == CloseAggregate("struct")
union_member_list == CloseAggregate("union")

-----------------------------------------------------------------------------
(* Enumerations.  A constant is first widened to 64 bits without a sign;   *)
(* its member keeps 32 bits of it.                                         *)

Power(bytes) == 2 ^ (ByteBits * bytes)
ASSUME PowersAssumption == \A bytes \in Alignments : Power(bytes) \in Nat \ {0}

Unsigned(v, bytes) == v % Power(bytes)
AsSigned(v, bytes) == LET u == Unsigned(v, bytes)
                      IN  IF u >= Power(bytes) \div 2 THEN u - Power(bytes) ELSE u

OpenEnumeration ==
  /\ CanDefine
  /\ open' = [ class |-> "enum", complete |-> FALSE, size |-> 0, contiguous |-> FALSE,
               values |-> << >>, user |-> FALSE, largest |-> 0 ]
  /\ UNCHANGED << types, switch, verdict >>

(* A member with a value: all members have one, or none has. *)
ExplicitMember(v) ==
  /\ Defining("enum") /\ Len(open.values) < MaxMembers
  /\ LET value == AsSigned(v, 4)
     IN  IF (open.values # << >> /\ ~ open.user) \/ value \in ToSet(open.values)
         THEN Reject("enumeration")
         ELSE /\ open' = [ open EXCEPT !.values = Append(@, value), !.user = TRUE,
                                       !.largest = Max2(@, Unsigned(v, 8)) ]
              /\ UNCHANGED << types, switch, verdict >>

ImplicitMember ==
  /\ Defining("enum") /\ Len(open.values) < MaxMembers
  /\ IF open.user THEN Reject("enumeration")
     ELSE /\ open' = [ open EXCEPT !.values = Append(@, Len(@)), !.largest = Len(open.values) ]
          /\ UNCHANGED << types, switch, verdict >>

(* The smallest signed integer type that holds the largest value: a value  *)
(* below zero counts as a large one.                                       *)
determine_required_minimum_signed_integer_type_size(v) ==
  CHOOSE n \in {1, 2, 4, 8} :
    /\ AsSigned(v, n) = AsSigned(v, 8)
    /\ \A m \in {1, 2, 4, 8} : m < n => AsSigned(v, m) # AsSigned(v, 8)

Lowest(S) == CHOOSE v \in S : \A w \in S : v <= w
Highest(S) == CHOOSE v \in S : \A w \in S : w <= v

(* Each value of the sorted array is one more than the value before. *)
IsContiguous(S) ==
  \A v \in S : v = Highest(S) \/ Lowest({ w \in S : w > v }) - v = 1

CloseEnumeration ==
  /\ Defining("enum") /\ open.values # << >>
  /\ LET size == determine_required_minimum_signed_integer_type_size(open.largest)
     IN  /\ open' = [ open EXCEPT !.complete = TRUE, !.size = size,
                                  !.contiguous = IsContiguous(ToSet(open.values)) ]
         /\ types' = types \cup { Type("enum", size, size) }
  /\ UNCHANGED << switch, verdict >>

-----------------------------------------------------------------------------
(* A switch over the enumeration that was defined last. *)

Switching == Working /\ open.class = "enum" /\ open.complete /\ ~ switch.ended

(* A member is a constant of the enumeration's integer type, whose value   *)
(* is read as an int: bytes that were never written are 0.                 *)
ReadAsInt(v) == IF open.size < 4 THEN Unsigned(v, open.size) ELSE AsSigned(v, 4)
CaseConstants == { ReadAsInt(v) : v \in ToSet(open.values) } \cup Constants

(* Clauses with and without an arrow do not mix in one switch. *)
Styles == {"C", "ollie"}
Mixed(style) == switch.style \notin {"undecided", style}

case_statement(v, style) ==
  /\ Switching /\ Cardinality(switch.values) < MaxMembers
  /\ IF Mixed(style) \/ v \notin ToSet(open.values) \/ v \in switch.values THEN Reject("case")
     ELSE /\ switch' = [ switch EXCEPT !.values = @ \cup {v}, !.style = style, !.empty = FALSE ]
          /\ UNCHANGED << types, open, verdict >>

(* A C-style default alone leaves the switch empty. *)
default_statement(style) ==
  /\ Switching
  /\ IF Mixed(style) \/ switch.default THEN Reject("default")
     ELSE /\ switch' = [ switch EXCEPT !.default = TRUE, !.style = style,
                                       !.empty = @ /\ style = "C" ]
          /\ UNCHANGED << types, open, verdict >>

(* Mutant: an enumeration with gaps is taken like one without. *)
ExhaustiveBetweenBounds(S) ==
  Lowest(S) = Lowest(ToSet(open.values)) /\ Highest(S) = Highest(ToSet(open.values))

(* The bounds are compared, and the cases must follow one another. *)
is_switch_exhaustive_switch(S) ==
  /\ open.contiguous
  /\ Lowest(S) = Lowest(ToSet(open.values)) /\ Highest(S) = Highest(ToSet(open.values))
  /\ IsContiguous(S)

(* Without a case the bounds are read from outside the array. *)
Exhaustive ==
  IF switch.values = {} /\ open.contiguous THEN BOOLEAN
  ELSE { switch.values # {} /\ is_switch_exhaustive_switch(switch.values) }

switch_statement ==
  /\ Switching
  /\ IF switch.empty THEN Reject("empty")
     ELSE \E exhaustive \in Exhaustive :
       IF exhaustive = switch.default
       THEN Reject(IF exhaustive THEN "unreachable default" ELSE "no default")
       ELSE /\ switch' = [ switch EXCEPT !.ended = TRUE ]
            /\ UNCHANGED << types, open, verdict >>

-----------------------------------------------------------------------------
TypesInit ==
  /\ types = Scalars /\ open = NoDefinition /\ switch = NoSwitch
  /\ verdict = "accepted"

TypesNext ==
  \/ struct_definer \/ struct_member \/ struct_member_list
  \/ union_definer \/ union_member \/ union_member_list
  \/ OpenEnumeration \/ ImplicitMember \/ CloseEnumeration
  \/ \E v \in Constants : ExplicitMember(v)
  \/ Switching /\ \E v \in CaseConstants, style \in Styles : case_statement(v, style)
  \/ \E style \in Styles : default_statement(style)
  \/ switch_statement

-----------------------------------------------------------------------------
(* The members of a finished struct are aligned, do not share a byte and   *)
(* lie within its size, which keeps them aligned in an array of it; a      *)
(* union holds each of its members (type_system.c:2732-2991, where offsets *)
(* and size are computed separately).                                      *)
MembersApart ==
  open.class \in {"struct", "union"} /\ open.complete =>
    /\ \A i \in DOMAIN open.members :
         LET m == open.members[i] IN
         /\ m.offset % m.align = 0 /\ open.size % m.align = 0
         /\ m.offset + m.size <= open.size
         /\ open.class = "struct" =>
              \A j \in DOMAIN open.members : i < j => m.offset + m.size <= open.members[j].offset

(* Without a default every member of the enumeration has a case, and a     *)
(* default next to a case is called unreachable only when they all have    *)
(* one (parser.c:10612-10676, 10935-10950).                                *)
SwitchesAreTotal ==
  open.class = "enum" /\ open.complete =>
    /\ switch.ended /\ ~ switch.default => ToSet(open.values) \subseteq switch.values
    /\ verdict = "unreachable default" /\ switch.values # {} => ToSet(open.values) \subseteq switch.values
=============================================================================
