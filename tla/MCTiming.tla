------------------------------ MODULE MCTiming ------------------------------
(***************************************************************************)
(* Small instances of Timing for TLC.                                      *)
(***************************************************************************)
EXTENDS Timing

MCClock == {-7, -1, 0, 4, 5, 11}
MCDurations == {-1, 0, 2, 3, 9, 13, 40}
MCForeign == {0, 4, 13, 14, 15, 40, 41, 81}
=============================================================================
