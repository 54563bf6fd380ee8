--------------------------- MODULE MacroExpansion ---------------------------
(***************************************************************************)
(* What the preprocessor promises to the parser, without saying how it     *)
(* reads: the files of the compilation order are delivered one after the   *)
(* other, with every call of a macro replaced and nothing of definitions   *)
(* and directives left.  A file that is not well formed is rejected, and   *)
(* only such a file is.                                                    *)
(***************************************************************************)
EXTENDS MacroText

CONSTANTS
  Projects    \* the files a compilation may come with, in compilation order

VARIABLES
  project,    \* the files
  delivered,  \* the token streams the parser will read
  verdict     \* "open", then "accepted" or "rejected"

vars == << project, delivered, verdict >>

(* The macros known in file i: those of the files up to it. *)
KnownIn[i \in Nat] ==
  IF i = 0 THEN << >> ELSE Known(KnownIn[i - 1], project[i])

WellFormed(i) ==
  /\ WellFormedFile(project[i], KnownIn[i - 1])
  /\ Replaceable(project[i], KnownIn[i])

Init ==
  /\ project \in Projects
  /\ delivered = << >>
  /\ verdict = "open"

Deliver ==
  /\ verdict = "open"
  /\ WellFormed(Len(delivered) + 1)
  /\ delivered' = Append(delivered,
       Replaced(project[Len(delivered) + 1], KnownIn[Len(delivered) + 1]) \o << Token("DONE") >>)
  /\ verdict' = IF Len(delivered) + 1 = Len(project) THEN "accepted" ELSE "open"
  /\ UNCHANGED project

Reject ==
  /\ verdict = "open"
  /\ ~WellFormed(Len(delivered) + 1)
  /\ verdict' = "rejected"
  /\ UNCHANGED << project, delivered >>

Next == Deliver \/ Reject

(* It always comes to a verdict. *)
Spec == Init /\ [][Next]_vars /\ <>(verdict # "open")
=============================================================================
