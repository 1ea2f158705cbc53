--------------------------- MODULE MCTrueHdClock ---------------------------
(* Small instances of TrueHdClock: access units of four samples, timings that *)
(* count to 32, a window of four access units.                                *)
EXTENDS TrueHdClock
=============================================================================
