------------------------------ MODULE MCPanel ------------------------------
(***************************************************************************)
(* Voltages and times on both sides of every byte boundary and of the      *)
(* limit of the DAC, a time the display takes for negative, a count of     *)
(* seven digits and one of eight.                                          *)
(***************************************************************************)
EXTENDS Panel

MCVoltages == {255, 256, 3110}
MCTimes    == {0, 255, 40192}
MCCals     == {<<1, 2, 3, 4, 5, 6, 7, 255>>}
MCCounts   == {8, 12345678}
=============================================================================
