------------------------------ MODULE MCScreen -------------------------------
(* Screen on small screens; Windows is the set of all points at which an     *)
(* interrupt is possible in the code.                                        *)
EXTENDS Screen

Windows == Window
Corner == {NUM_COLS * (NUM_ROWS - 1)}
=============================================================================
