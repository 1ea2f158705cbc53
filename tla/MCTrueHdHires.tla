--------------------------- MODULE MCTrueHdHires ---------------------------
(* Small instances of TrueHdHires: numbers of six bits, so that zeros are     *)
(* stuffed at either end, and several fields before the numbers are used up. *)
EXTENDS TrueHdHires
=============================================================================
