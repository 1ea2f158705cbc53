--------------------------- MODULE MCRenderer714 ---------------------------
(***************************************************************************)
(* Small instances of Renderer714 for TLC: timeslots of 3 samples, frames  *)
(* of up to 4, and the shapes of frame that make the interesting cases:    *)
(* metadata at the start, inside, at the end of and past the frame, out of *)
(* order and at equal offsets; channel counts that do and do not match.    *)
(***************************************************************************)
EXTENDS Renderer714

\* No object; one object; one object and a bed channel; two objects.
NoObject == [dynamic_objects |-> 0, bed_channels |-> {}]
OneObject == [dynamic_objects |-> 1, bed_channels |-> {}]
ObjectAndBed == [dynamic_objects |-> 1, bed_channels |-> {"LowFrequencyEffects2"}]
TwoObjects == [dynamic_objects |-> 2, bed_channels |-> {}]

At(offset, payload) == [sample_offset |-> offset, metadata |-> payload]

FrameOf(samples, beds, updates) ==
  [sample_rate |-> 48000, samples |-> samples, lengths_agree |-> TRUE,
   bed_channels |-> beds, objects |-> 1, updates |-> updates]

UpdateLists ==
  { << >>,
    <<At(0, OneObject)>>, <<At(1, OneObject)>>, <<At(3, ObjectAndBed)>>,
    <<At(2, ObjectAndBed), At(0, OneObject)>>,
    <<At(1, OneObject), At(1, ObjectAndBed)>>,
    <<At(0, OneObject), At(1, TwoObjects)>>,
    <<At(0, NoObject)>> }

\* Everything at once: failing frames, silent starts, late and unsorted updates.
AnyFrames ==
  { FrameOf(n, {"LowFrequencyEffects"}, us) : n \in {1, 2, 4}, us \in UpdateLists }
  \cup { FrameOf(4, {}, us) : us \in UpdateLists }
  \cup { [FrameOf(2, {}, us) EXCEPT !.lengths_agree = FALSE] : us \in UpdateLists }
  \cup { [FrameOf(2, {}, << >>) EXCEPT !.sample_rate = 44100],
         [FrameOf(0, {}, <<At(0, OneObject)>>) EXCEPT !.objects = 0] }

\* Well-formed frames of a stream whose first metadata comes inside its first frame.
LateStartFrames ==
  { FrameOf(n, {}, us) : n \in {2, 4}, us \in {<< >>, <<At(1, OneObject)>>, <<At(3, OneObject)>>} }
    \ { FrameOf(2, {}, <<At(3, OneObject)>>) }

\* Well-formed frames that carry their metadata at offset 0, as a TrueHD access unit does.
RestartFrames ==
  { FrameOf(n, {}, us) : n \in {1, 2, 4}, us \in {<< >>, <<At(0, OneObject)>>} }
=============================================================================
