------------------------ MODULE MCMetadataRenderer ------------------------
(***************************************************************************)
(* Small instances of MetadataRenderer: timeslots of 2 samples and at most *)
(* two objects, so that blocks fall inside a timeslot, on its start and    *)
(* two into one timeslot, and ramps last none, part of or several slots.   *)
(***************************************************************************)
EXTENDS MetadataRenderer

Info(gain, valid, target) == [gain |-> gain, position_valid |-> valid, target |-> target]

BlockOf(offset, ramp, objects) == [offset |-> offset, ramp_duration |-> ramp, objects |-> objects]

PayloadOf(bed_objects, channels, objects, elems) ==
  [object_count |-> objects, bed_or_isf_objects |-> bed_objects, bed_channels |-> channels,
   elements |-> elems]

Near == Info("loud", TRUE, "near")
Far == Info(Unset, TRUE, "far")
Idle == Info(Unset, FALSE, Unset)
Quiet == Info("soft", FALSE, Unset)
Fixed == Info(Unset, TRUE, Unset)

\* One block, at the payload or inside the first timeslot, with and without a ramp.
OneBlock == { <<BlockOf(o, r, <<part>>)>> : o \in {0, 1, 3}, r \in {0, 4}, part \in {Near, Far, Quiet} }

\* Two blocks, in the same or in different timeslots.
TwoBlocks ==
  { <<BlockOf(0, r, <<Near>>), BlockOf(o, s, <<part>>)>> :
      o \in {1, 4}, r \in {0, 3}, s \in {0, 3}, part \in {Far, Idle, Quiet, Fixed} }

SingleObject ==
  { PayloadOf(0, 0, 1, <<blocks>>) : blocks \in OneBlock \cup TwoBlocks }

\* A bed object and a dynamic one; then both dynamic; then more bed channels than objects.
BedAndObject == PayloadOf(1, 1, 2, << <<BlockOf(0, 3, <<Quiet, Near>>)>> >>)
TwoObjects == PayloadOf(0, 0, 2, << <<BlockOf(0, 3, <<Far, Near>>)>> >>)
Overfull == PayloadOf(1, 2, 1, << <<BlockOf(0, 0, <<Quiet>>)>> >>)

\* No element at all; an element without blocks; two elements, the second one later.
Bare == PayloadOf(1, 1, 1, << >>)
Hollow == PayloadOf(0, 0, 1, << << >> >>)
TwoElements ==
  PayloadOf(0, 0, 1, << <<BlockOf(1, 3, <<Near>>)>>, <<BlockOf(3, 0, <<Far>>)>> >>)

AnyPayloads == SingleObject \cup {BedAndObject, TwoObjects, Overfull, Bare, Hollow, TwoElements}

\* Streams that only turn their bed channel into an object and back.
ResplitPayloads == {BedAndObject, TwoObjects}
=============================================================================
