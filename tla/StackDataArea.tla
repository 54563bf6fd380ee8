---------------------------- MODULE StackDataArea ----------------------------
(***************************************************************************)
(* A stack data area: the regions of a function's locals, of the           *)
(* parameters it is passed on the stack, or of the arguments of one call.  *)
(*                                                                         *)
(* Regions are appended and their ids count up, so that the array of       *)
(* regions is a set of ids in ascending order.  The loop that lays the     *)
(* regions out anew is one step per region: `pending' are still to come.   *)
(***************************************************************************)
EXTENDS Naturals, Sequences

VARIABLES
  kind,     \* stack_type: "local", "parameters" or "call"
  regions,  \* the ids of stack_regions
  typeOf,   \* the type of each region that was ever created
  base,     \* function_local_base_address
  marked,   \* regions with their mark set
  total,    \* total_size
  pending   \* regions realign_data_area has not come to

area == << kind, regions, typeOf, base, marked, total, pending >>

Idle == pending = {}
NextId == Len(typeOf) + 1

RoundUp(n, unit) == ((n + unit - 1) \div unit) * unit
IsAggregate(t) == t.class \in {"struct", "union"}

(* Mutant: the padding may lie below what is there. *)
StartOverlapping(n, t) == IF IsAggregate(t) THEN n - (n % 16) ELSE n + (n % t.align)

(* Where a region of type t begins when n bytes are taken: aggregates at   *)
(* the next multiple of 16, everything else at a distance that is the      *)
(* remainder.                                                              *)
StartOf(n, t) == IF IsAggregate(t) THEN RoundUp(n, 16) ELSE n + (n % t.align)
SizeOf(t) == IF t.class = "elaborative" THEN 4 ELSE t.size

Alloc(k) ==
  /\ Idle
  /\ kind' = k /\ regions' = {} /\ marked' = {} /\ total' = 0 /\ pending' = {}
  /\ typeOf' = << >> /\ base' = << >>

create_stack_region_for_type(t) ==
  /\ Idle
  /\ regions' = regions \cup {NextId}
  /\ typeOf' = Append(typeOf, t)
  /\ base' = Append(base, StartOf(total, t))
  /\ total' = StartOf(total, t) + SizeOf(t)
  /\ UNCHANGED << kind, marked, pending >>

mark_stack_region(r) ==
  /\ Idle /\ r \in regions
  /\ marked' = marked \cup {r}
  /\ UNCHANGED << kind, regions, typeOf, base, total, pending >>

(* What has no mark goes; the rest is laid out anew if anything went. *)
sweep_stack_data_area ==
  /\ Idle
  /\ regions' = regions \cap marked
  /\ IF regions \subseteq marked THEN UNCHANGED << total, pending >>
     ELSE total' = 0 /\ pending' = regions \cap marked
  /\ UNCHANGED << kind, typeOf, base, marked >>

(* One turn of the loop of realign_data_area, for the first region left. *)
realign_data_area ==
  \E r \in pending :
    /\ \A s \in pending : r <= s
    /\ base' = [ base EXCEPT ![r] = StartOf(total, typeOf[r]) ]
    /\ total' = StartOf(total, typeOf[r]) + SizeOf(typeOf[r])
    /\ pending' = pending \ {r}
    /\ UNCHANGED << kind, regions, typeOf, marked >>

(* A function's own area is 8 more than a multiple of 16, for the return   *)
(* address below it.                                                       *)
align_stack_data_area ==
  /\ Idle
  /\ total' = IF total = 0 THEN 0
              ELSE RoundUp(total, 16) + (IF kind = "local" THEN 8 ELSE 0)
  /\ UNCHANGED << kind, regions, typeOf, base, marked, pending >>

-----------------------------------------------------------------------------
End(r) == base[r] + SizeOf(typeOf[r])
LaidOut == regions \ pending

(* No byte of the stack belongs to two regions, and every region lies      *)
(* within what is reserved, after any sequence of creation, sweeping,      *)
(* realignment, spilling and alignment (stack_data_area.c:130-409).        *)
RegionsDisjoint ==
  /\ \A r, s \in LaidOut : r < s => End(r) <= base[s]
  /\ \A r \in LaidOut : End(r) <= total
=============================================================================
