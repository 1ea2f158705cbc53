--------------------------- MODULE ShiftRegister ---------------------------
(***************************************************************************)
(* What a filterbank promises of its input history: the newest values come *)
(* first, and each step pushes the older ones back by as many.             *)
(***************************************************************************)
EXTENDS Integers

CONSTANTS
  Step,         \* values per step
  Length,       \* values remembered
  Values,
  Silence       \* 0.0

VARIABLE window

Init == window = [i \in 0 .. Length - 1 |-> Silence]

Shifted(input) == [i \in 0 .. Length - 1 |-> IF i < Step THEN input[i] ELSE window[i - Step]]

Shift(input) == window' = Shifted(input)

Next == \E input \in [0 .. Step - 1 -> Values] : Shift(input)

Spec == Init /\ [][Next]_window
=============================================================================
