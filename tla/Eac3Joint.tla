----------------------------- MODULE Eac3Joint -----------------------------
(***************************************************************************)
(* Joint object coding: the gains by which the subbands of the core        *)
(* channels are mixed to each object, timeslot by timeslot, and what of    *)
(* them is kept for the next frame.                                        *)
(*                                                                         *)
(* A gain is what it was computed from: the frame, the data point and the  *)
(* parameter band that were sent; a blend is the set of both.  All five    *)
(* core channels are treated alike and stand for one: a payload for seven  *)
(* is refused, since no core layout has that many.  Sparse data are read   *)
(* as zero gains of their bands and so are data like any others.           *)
(*                                                                         *)
(* A definition named Fault_... is a plausible slip in the definition that *)
(* follows it; it serves to show that the properties tell the difference.  *)
(***************************************************************************)
EXTENDS Integers, Sequences, FiniteSetsExt

CONSTANTS
  Subbands,     \* QMF_SUBBANDS
  Boundaries,   \* JOC_PARAMETER_BAND_BOUNDARIES: first subband of each band, by joc_num_bands_idx
  Timeslots     \* of a frame

ASSUME JointAssumption ==
  /\ Subbands \in Nat \ {0} /\ Timeslots \in Nat \ {0, 1}
  /\ \A i \in DOMAIN Boundaries :
       /\ Boundaries[i] \in Seq(0 .. Subbands - 1)
       /\ Len(Boundaries[i]) \in 1 .. Subbands /\ Boundaries[i][1] = 0
       /\ \A b, c \in DOMAIN Boundaries[i] : b < c => Boundaries[i][b] < Boundaries[i][c]

Subband == 1 .. Subbands

Bands(object) == Len(Boundaries[object.bands_index])

\* expanded_parameter_band_mapping: the last band that starts at or below the subband.
ParameterBand(boundaries, s) == Max({b \in DOMAIN boundaries : boundaries[b] <= s - 1})

Mapped(row, object) == [s \in Subband |-> row[ParameterBand(Boundaries[object.bands_index], s)]]

----------------------------------------------------------------------------
(***************************************************************************)
(* JocObjectDecoderState, of one object: the gains the last frame ended    *)
(* with, by subband; those of its data points, by band; the timeslots of   *)
(* steep slopes; and the object's filterbank: was it ever run, and what it *)
(* was fed last.  Of its history: the frame it was active in last.         *)
(***************************************************************************)

Zero == [frame |-> 0, point |-> 0, band |-> 0]

ZeroRow == [s \in Subband |-> Zero]

NewObject ==
  [prev |-> ZeroRow, mix |-> <<ZeroRow, ZeroRow>>, offsets |-> <<0, 0>>,
   history |-> FALSE, fed |-> 0, active_in |-> 0]

\* Objects that are gone are forgotten; those that are new start from silence.
Reconfigure(objects, object_count) ==
  [o \in 1 .. object_count |-> IF o \in DOMAIN objects THEN objects[o] ELSE NewObject]

\* Only the first bands of a row are written, and only the rows and offsets of points there are.
DecodeParameterPoints(state, object, frame) ==
  LET row(k) == [s \in Subband |-> IF s <= Bands(object) THEN [frame |-> frame, point |-> k, band |-> s]
                                   ELSE state.mix[k][s]]
      points == 1 .. object.data_points
  IN  IF ~object.active THEN state
      ELSE [state EXCEPT
              !.mix = [k \in 1 .. 2 |-> IF k \in points THEN row(k) ELSE @[k]],
              !.offsets = [k \in 1 .. 2 |-> IF object.steep_slope /\ k \in points
                                            THEN object.timeslot_offsets[k] ELSE @[k]]]

\* A blend of two rows that has gone step of steps of the way.
Blend(from, to, step, steps) ==
  [s \in Subband |-> IF step = steps THEN {to[s]} ELSE {from[s], to[s]}]

Copy(row) == [s \in Subband |-> {row[s]}]

FirstHalf == Max({Timeslots \div 2, 1})

\* The gains of a timeslot, counted from 0.  A steep slope takes the rows as they are, by subband;
\* so does the first half of a slope with two points.
TimeslotMatrix(state, object, t) ==
  LET prev == state.prev
      one == state.mix[1]
      two == state.mix[2]
  IN  CASE ~object.active -> [s \in Subband |-> {}]
        [] object.active /\ object.data_points = 1 /\ object.steep_slope ->
             IF t < Min({state.offsets[1], Timeslots}) THEN Copy(prev)
             ELSE IF t < state.offsets[2] THEN Copy(two)
             ELSE Copy(one)
        [] object.active /\ object.data_points = 1 /\ ~object.steep_slope ->
             Blend(prev, Mapped(one, object), t + 1, Timeslots)
        [] object.active /\ object.data_points = 2 /\ object.steep_slope ->
             IF t + 1 < state.offsets[1] THEN Copy(prev) ELSE Copy(one)
        [] object.active /\ object.data_points = 2 /\ ~object.steep_slope ->
             IF t + 1 <= FirstHalf THEN Blend(prev, one, t + 1, FirstHalf)
             ELSE Blend(Mapped(one, object), Mapped(two, object), t + 1 - FirstHalf, Timeslots - FirstHalf)

Matrices(state, object) == [t \in 0 .. Timeslots - 1 |-> TimeslotMatrix(state, object, t)]

Fault_UnmappedPrev(state, object) ==
  IF object.active THEN [state EXCEPT !.prev = state.mix[object.data_points]] ELSE state

Fault_FirstPointKept(state, object) ==
  IF object.active THEN [state EXCEPT !.prev = Mapped(state.mix[1], object)] ELSE state

\* The next frame starts from the last point, spread over the subbands of its band.
UpdatePrevMatrix(state, object) ==
  IF object.active THEN [state EXCEPT !.prev = Mapped(state.mix[object.data_points], object)] ELSE state

\* Silence is put out without the filterbank only while the object has never been heard.
Filtered(state, object) == object.active \/ state.history

Filter(state, object, frame) ==
  [state EXCEPT !.history = @ \/ object.active,
                !.fed = IF Filtered(state, object) THEN frame ELSE @,
                !.active_in = IF object.active THEN frame ELSE @]

\* One object of a frame: its state afterwards and the gains it was mixed by.
DecodeObject(state, object, frame) ==
  LET points == DecodeParameterPoints(state, object, frame)
      updated == UpdatePrevMatrix(points, object)
  IN  [state |-> Filter(updated, object, frame), matrices |-> Matrices(points, object)]
=============================================================================
