--------------------------- MODULE MCEac3Session ---------------------------
(***************************************************************************)
(* Small instances of Eac3Session: up to two objects, three subbands in    *)
(* one or two bands, and four timeslots.                                   *)
(***************************************************************************)
EXTENDS Eac3Session

\* The real bands: each subband falls into one that its payload sends.
RealBoundaries ==
  << <<0>>, <<0, 3, 14>>, <<0, 1, 3, 9, 23>>, <<0, 1, 2, 4, 8, 14, 23>>, <<0, 1, 2, 3, 5, 7, 9, 14, 23>>,
     <<0, 1, 2, 3, 4, 6, 8, 11, 14, 18, 23, 35>>, <<0, 1, 2, 3, 4, 5, 6, 7, 8, 9, 11, 14, 18, 23, 35>>,
     <<0, 1, 2, 3, 4, 5, 6, 7, 8, 9, 10, 11, 12, 14, 16, 18, 20, 23, 26, 30, 35, 41, 48>> >>

ASSUME BandsAssumption ==
  /\ \A i \in DOMAIN RealBoundaries : Len(RealBoundaries[i]) = <<1, 3, 5, 7, 9, 12, 15, 23>>[i]
  /\ \A i \in DOMAIN RealBoundaries : \A s \in 1 .. 64 :
       LET b == ParameterBand(RealBoundaries[i], s)
       IN  /\ RealBoundaries[i][b] <= s - 1
           /\ b < Len(RealBoundaries[i]) => s - 1 < RealBoundaries[i][b + 1]

SmallBoundaries == << <<0>>, <<0, 1>> >>

Idle == [active |-> FALSE]

Object(bands_index, data_points) ==
  [active |-> TRUE, bands_index |-> bands_index, data_points |-> data_points,
   steep_slope |-> FALSE, timeslot_offsets |-> << >>]

Steep(bands_index, offsets) ==
  [active |-> TRUE, bands_index |-> bands_index, data_points |-> Len(offsets),
   steep_slope |-> TRUE, timeslot_offsets |-> offsets]

Unit(objects) ==
  [inspected |-> TRUE, exact |-> TRUE, decoded |-> TRUE, five |-> TRUE,
   joc |-> [channels |-> 5, objects |-> objects]]

Plain == [Unit(<< >>) EXCEPT !.joc = Nothing]

SmallUnits ==
  { Unit(<<o>>) : o \in { Idle, Object(1, 1), Object(2, 1), Object(2, 2), Object(1, 2),
                          Steep(1, <<2>>), Steep(2, <<1, 3>>), Steep(2, <<4>>) } }
  \cup { Unit(<<Idle, Object(1, 1)>>), Unit(<<Object(2, 2), Idle>>), Unit(<<Steep(1, <<3>>), Object(1, 2)>>) }
  \cup { Plain,
         [Plain EXCEPT !.inspected = FALSE],
         [Unit(<<Object(1, 1)>>) EXCEPT !.exact = FALSE],
         [Unit(<<Object(1, 2)>>) EXCEPT !.decoded = FALSE],
         [Unit(<<Object(2, 2)>>) EXCEPT !.five = FALSE],
         [Unit(<<Object(2, 2)>>) EXCEPT !.joc.channels = 7] }
=============================================================================
