--------------------------- MODULE MCTrueHdSession ---------------------------
(***************************************************************************)
(* Small instances of TrueHdSession: three-channel programs (a bed channel *)
(* and two objects, or two and one), a stream with labels and one without, *)
(* and a stream that has beds only.                                        *)
(***************************************************************************)
EXTENDS TrueHdSession

One == [bed |-> <<"LFE">>, objects |-> 2]
Two == [bed |-> <<"L", "R">>, objects |-> 1]
BedOnly == [bed |-> <<"L", "R", "C">>, objects |-> 0]

Program(layout_) == [isf |-> FALSE, layout |-> layout_, translatable |-> TRUE]

Unit(sync, channels, payloads) ==
  [defect |-> "none", sync |-> sync, channels |-> channels, payloads |-> payloads]

Major(substreams, info, p, labels) ==
  [substreams |-> substreams, info |-> info, presentation |-> p, labels |-> labels]

Unlabelled == Major(4, "a", Atmos, << >>)
WithLabels == Major(4, "b", Atmos, <<"LFE">>)
Odd == Major(4, "a", Atmos, <<"unmapped">>)
Stereo == Major(2, "b", 1, <<"L", "R">>)
Bare == Major(3, "a", 2, << >>)

Starts ==
  { Unit(Unlabelled, 3, <<Program(One)>>), Unit(WithLabels, 3, << >>), Unit(Odd, 3, << >>), Unit(Stereo, 2, << >>),
    Unit(Stereo, Nothing, << >>), Unit(Bare, 3, << >>) }

Continuations ==
  { Unit(Nothing, Nothing, << >>), Unit(Nothing, 4, << >>) }
    \cup { Unit(Nothing, Nothing, <<Program(l)>>) : l \in {Two, BedOnly} }

Broken ==
  { Unit(Nothing, Nothing, <<Program(One), Program(Two)>>),
    Unit(Nothing, Nothing, <<[Program(One) EXCEPT !.isf = TRUE]>>),
    Unit(Nothing, Nothing, <<[Program(Two) EXCEPT !.translatable = FALSE]>>) }
    \cup { [Unit(Unlabelled, 3, << >>) EXCEPT !.defect = d] : d \in Defect \ {"none"} }
    \cup { [Unit(Nothing, Nothing, << >>) EXCEPT !.defect = "decode"] }

\* A change to a program without objects.
ChangingUnits ==
  { Unit(Unlabelled, 3, <<Program(One)>>), Unit(WithLabels, 3, <<Program(BedOnly)>>) }

AnyAccessUnits == Starts \cup Continuations \cup Broken
=============================================================================
