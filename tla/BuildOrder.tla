----------------------------- MODULE BuildOrder -----------------------------
(***************************************************************************)
(* What the build system promises to the rest of the compiler, without     *)
(* saying how it searches: the compilation order is grown one module at a  *)
(* time, a module never precedes anything it imports, and the order is     *)
(* handed over once the main file stands at its end.  The build may be     *)
(* rejected at any moment, and then nothing more is put on the order.      *)
(***************************************************************************)
EXTENDS Naturals, Sequences

CONSTANTS
  Node,       \* the modules of the program and its main file
  MainNode    \* the main file

VARIABLES
  needs,      \* what each node imports
  emitted,    \* the compilation order so far
  verdict     \* "open", then "built" or "rejected"

vars == << needs, emitted, verdict >>

Placed == { emitted[i] : i \in DOMAIN emitted }

Init ==
  /\ needs \in [Node -> SUBSET Node]
  /\ emitted = << >>
  /\ verdict = "open"

(* A node is compiled after everything it imports, and only once. *)
Emit(n) ==
  /\ verdict = "open"
  /\ n \notin Placed
  /\ needs[n] \subseteq Placed
  /\ emitted' = Append(emitted, n)
  /\ verdict' = IF n = MainNode THEN "built" ELSE "open"
  /\ UNCHANGED needs

Reject ==
  /\ verdict = "open"
  /\ verdict' = "rejected"
  /\ UNCHANGED << needs, emitted >>

Next == Reject \/ \E n \in Node : Emit(n)

Spec == Init /\ [][Next]_vars
=============================================================================
