------------------------------ MODULE MCFrames ------------------------------
(***************************************************************************)
(* Types of 1, 4 and 8 bytes, two general purpose registers and one for    *)
(* floats, so that four parameters fill both classes.                      *)
(***************************************************************************)
EXTENDS Frames

MCScalars == { Type("basic", 1, 1), Type("basic", 8, 8), Type("float", 4, 4) }
MCConstants == {-1, 0, 1, 2, 5}
=============================================================================
