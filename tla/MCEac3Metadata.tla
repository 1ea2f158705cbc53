--------------------------- MODULE MCEac3Metadata ---------------------------
(***************************************************************************)
(* Small instances of Eac3Metadata: two objects in one or two blocks, in   *)
(* one or two elements, and units whose payloads are met in every way.     *)
(***************************************************************************)
EXTENDS Eac3Metadata

ASSUME PayloadsAssumption ==
  TimesFit /\ GainStepsDistinct /\ VariableBitsUnique /\ OmittedTailIsSilent

\* A block that says everything it can, and one that says nothing unless it is the first.
Full ==
  [inactive |-> FALSE, basic_status |-> 1, basic |-> {}, render_status |-> 1, render |-> {},
   gain |-> "g1", at |-> "p1", delta |-> TRUE, size |-> "s1", screen |-> FALSE]

Silent == [Full EXCEPT !.basic_status = 2, !.render_status = 0, !.gain = Nothing, !.size = Nothing]

Partial ==
  [Full EXCEPT !.basic_status = 3, !.basic = {"gain"}, !.render_status = 3, !.render = {"size", "screen"},
               !.gain = "g2", !.at = "p2", !.size = "s2", !.screen = TRUE]

Element(objects) ==
  [index |-> 1, offset_code |-> 0, taken |-> 8, length |-> 1,
   block_count |-> Len(objects[1]), objects |-> objects]

Other(objects) == [Element(objects) EXCEPT !.index = 2]

Program(beds) == [dynamic_only |-> FALSE, lfe |-> FALSE, beds |-> beds, isf |-> 0]

Oamd(beds, in_slots) ==
  [id |-> 11, version |-> 0, object_count |-> Len(in_slots[1].objects), program |-> Program(beds),
   elements |-> in_slots]

Two == << <<Full, Full>>, <<Partial, Silent>> >>
TwoLater == << <<[Full EXCEPT !.inactive = TRUE], Partial>>, <<Silent, [Full EXCEPT !.gain = "g2"]>> >>
One == << <<Full>>, <<Full>> >>

Bed == << <<"LFE">> >>

Joc == [id |-> 14]

First == Oamd(Bed, <<Element(Two)>>)
Later == Oamd(Bed, <<Element(TwoLater)>>)
Moved == Oamd(<< >>, <<Element(TwoLater)>>)
Short == Oamd(Bed, <<Element(One)>>)
Pair == Oamd(<< >>, <<Other(Two), Element(TwoLater)>>)
PairFirst == Oamd(<< >>, <<Element(TwoLater), Other(Two)>>)
Newer == [Later EXCEPT !.version = 1]
Overrun == Oamd(Bed, <<[Element(Two) EXCEPT !.taken = 9]>>)

Objects == {First, Later, Moved, Short, Pair, PairFirst, Newer, Overrun}

SmallPayloads == Objects \cup {Joc}

Whole(payloads) == [payloads |-> payloads, whole |-> TRUE]
Broken(payloads) == [payloads |-> payloads, whole |-> FALSE]

UnitOf(blocks) ==
  [syntax |-> "sequential", walked |-> "whole", length |-> "exact",
   fields |-> blocks, marked |-> << >>, trailing |-> << >>, scanned |-> blocks]

SmallUnits ==
  { UnitOf(<<Whole(<<p, Joc>>)>>) : p \in Objects }
  \cup { [UnitOf(<<Whole(<<First>>)>>) EXCEPT !.length = "short"],
         [UnitOf(<<Whole(<<Later>>)>>) EXCEPT !.length = "long"],
         UnitOf(<<Broken(<<Moved, Joc>>), Whole(<<Later>>)>>),
         UnitOf(<<Whole(<<First>>), Broken(<<Short>>)>>),
         UnitOf(<<Broken(<<Later>>)>>),
         [UnitOf(<<Whole(<<Moved>>)>>) EXCEPT !.walked = "mismatch"],
         [UnitOf(<<Whole(<<Later>>)>>) EXCEPT !.walked = "unsupported", !.marked = <<Whole(<<Later>>)>>],
         [UnitOf(<<Whole(<<First>>)>>) EXCEPT !.syntax = "starts", !.walked = "mismatch",
                                            !.trailing = <<Broken(<<First, Joc>>)>>],
         [UnitOf(<< >>) EXCEPT !.syntax = "none"],
         [UnitOf(<< >>) EXCEPT !.walked = "fatal"] }
=============================================================================
