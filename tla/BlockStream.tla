---------------------------- MODULE BlockStream ----------------------------
(***************************************************************************)
(* What the renderer promises its caller about sample counts, whatever the *)
(* calls are: samples that a call accepts are returned later, in order and *)
(* once, in whole limiter blocks; at most one block less a sample is ever  *)
(* held back; flush returns that remainder.  A renderer that hands samples *)
(* through unbuffered returns every sample with the call that brings it.   *)
(*                                                                         *)
(* A stream may break (the implementation panics inside a call); nothing   *)
(* is promised about it until it is restarted.                             *)
(***************************************************************************)
EXTENDS Integers

CONSTANT Block  \* samples per limiter block, at least one

VARIABLES
  unbuffered,   \* the limiter is bypassed, for good
  accepted,     \* samples taken in since the stream started
  returned,     \* samples given back since the stream started
  broken        \* the implementation panicked

vars == <<unbuffered, accepted, returned, broken>>

WholeBlocks(n) == \E k \in 0 .. n : n = k * Block

Init ==
  /\ unbuffered \in BOOLEAN
  /\ accepted = 0
  /\ returned = 0
  /\ broken = FALSE

\* A call takes samples in and returns whole blocks, up to the last complete one.
Accept ==
  /\ ~broken
  /\ accepted' > accepted
  /\ IF unbuffered
       THEN returned' = accepted'
       ELSE /\ WholeBlocks(returned' - returned)
            /\ accepted' - returned' \in 0 .. Block - 1
  /\ UNCHANGED <<unbuffered, broken>>

\* flush returns what is left of the last block.
Drain ==
  /\ ~broken
  /\ returned < accepted
  /\ returned' = accepted
  /\ UNCHANGED <<unbuffered, accepted, broken>>

\* The call that breaks the stream may have counted its samples already; it returns none.
Break ==
  /\ ~broken
  /\ broken' = TRUE
  /\ accepted' >= accepted
  /\ UNCHANGED <<unbuffered, returned>>

Restart ==
  /\ accepted' = 0
  /\ returned' = 0
  /\ broken' = FALSE
  /\ UNCHANGED unbuffered

Next == Accept \/ Drain \/ Break \/ Restart

Spec == Init /\ [][Next]_vars
=============================================================================
