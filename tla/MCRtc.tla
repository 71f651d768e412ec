-------------------------------- MODULE MCRtc --------------------------------
(* Instances of Rtc for TLC. *)
EXTENDS Rtc

\* The smallest and the largest frequency that work, and invalid ones.
FreqValid == {0, 2, 3, 1024, 2048}
=============================================================================
