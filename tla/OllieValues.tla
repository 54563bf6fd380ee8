----------------------------- MODULE OllieValues -----------------------------
(***************************************************************************)
(* The values the programs of the language and its intermediate code work  *)
(* on in the model, and how long a run may go on without an event.         *)
(***************************************************************************)
EXTENDS Integers

CONSTANTS
  Size,        \* values are 0 .. Size-1 and addition wraps
  Fuel         \* silent steps after which a run counts as spinning

ASSUME ValuesAssumption == Size \in Nat \ {0} /\ Fuel \in Nat \ {0}

Undef == -1           \* what a variable holds before it is assigned

Unordered == -3       \* the floating point value that equals no number

(* The value of a switch's default clause. *)
Default == -2
=============================================================================
