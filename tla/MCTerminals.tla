----------------------------- MODULE MCTerminals -----------------------------
(* Instances of Terminals for TLC. *)
EXTENDS Terminals, TLC

Symmetry == Permutations(Char)
=============================================================================
