--------------------------- MODULE MCPeripherals ---------------------------
(* Two-digit timers, a clock of two-bit words, three timers, a terminal of   *)
(* two by two cells and a picture of three by two pixels.                    *)
EXTENDS Peripherals

MCHostTimes == {0, 1, 3}
=============================================================================
