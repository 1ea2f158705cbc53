---------------------------- MODULE MirroredRing ----------------------------
(***************************************************************************)
(* The input history of the filterbanks of joint object coding: a ring     *)
(* kept twice, one copy behind the other, so that the window that starts   *)
(* at the head never has to wrap.  The forward filterbank (64 samples a    *)
(* step, 640 remembered) and the inverse one (128 and 1280) have one each; *)
(* the forward one takes its samples in reverse order.  What is computed   *)
(* from the window is not modelled.                                        *)
(*                                                                         *)
(* A definition named Fault_... is a plausible slip in the definition that *)
(* follows it; it serves to show that the properties tell the difference.  *)
(***************************************************************************)
EXTENDS Integers

CONSTANTS
  Step,         \* QMF_SUBBANDS, QMF_DOUBLE_LENGTH
  Steps,        \* remembered: ten of them
  Values,
  Silence       \* 0.0

ASSUME RingAssumption ==
  /\ Step \in Nat \ {0}
  /\ Steps \in Nat \ {0}
  /\ Silence \in Values

\* QMF_FORWARD_RING_LEN, QMF_INVERSE_RING_LEN
Length == Steps * Step

VARIABLES
  head,         \* input_stream_forward_head, input_stream_inverse_head
  storage       \* input_stream_forward, input_stream_inverse

ring_vars == <<head, storage>>

Slot == 0 .. 2 * Length - 1

RingInit ==
  /\ head = 0
  /\ storage = [slot \in Slot |-> Silence]

WrapRingHead(at) == IF at >= Step THEN at - Step ELSE Length + at - Step

Fault_OneCopy(input) ==
  LET new == WrapRingHead(head)
  IN  /\ head' = new
      /\ storage' = [slot \in Slot |-> IF slot \in new .. new + Step - 1 THEN input[slot - new] ELSE storage[slot]]

\* The samples of a step, newest first, written to both copies.
Process(input) ==
  LET new == WrapRingHead(head)
  IN  /\ head' = new
      /\ storage' = [slot \in Slot |->
           IF slot \in new .. new + Step - 1 THEN input[slot - new]
           ELSE IF slot - Length \in new .. new + Step - 1 THEN input[slot - Length - new]
           ELSE storage[slot]]

RingNext == \E input \in [0 .. Step - 1 -> Values] : Process(input)

RingSpec == RingInit /\ [][RingNext]_ring_vars

Window == [i \in 0 .. Length - 1 |-> storage[head + i]]

\* The window is a shift register: whatever the head, it holds the last Length values, newest first.
Shifting == INSTANCE ShiftRegister WITH window <- Window

IsShiftRegister == Shifting!Spec

\* What that rests on: the head stands at a whole step, and the copies agree.
Mirrored ==
  /\ \E k \in 0 .. Steps - 1 : head = k * Step
  /\ storage \in [Slot -> Values]
  /\ \A i \in 0 .. Length - 1 : storage[i] = storage[i + Length]
=============================================================================
