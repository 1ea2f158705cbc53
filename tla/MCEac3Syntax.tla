---------------------------- MODULE MCEac3Syntax ----------------------------
(***************************************************************************)
(* Small instances of Eac3Syntax: two channels, two blocks a frame and one *)
(* frame of three, in which coupling stops and begins again; dual mono and *)
(* stereo share a layout, a third mode has another.                        *)
(***************************************************************************)
EXTENDS Eac3Syntax, Eac3Bands

ASSUME BandsAssumption ==
  CouplingFits /\ ChannelExponentsCover /\ CouplingExponentsCover

Plainly(layout, mode) ==
  [layout |-> layout, mode |-> mode, dependent |-> FALSE, skip_fields |-> TRUE, starts |-> FALSE,
   snr |-> 1, updates |-> <<FALSE, TRUE>>, coupled |-> <<TRUE, FALSE>>]

Stereo == Plainly(2, "stereo")
Multi == Plainly(5, "multi")

SmallFrames ==
  { Stereo, Multi, Plainly(2, "mono"),
    [Stereo EXCEPT !.coupled = <<FALSE, TRUE>>, !.snr = 2],
    [Multi EXCEPT !.updates = <<FALSE, FALSE>>],
    [Multi EXCEPT !.coupled = <<TRUE, TRUE>>, !.snr = 0],
    [Stereo EXCEPT !.updates = <<FALSE, TRUE, TRUE>>, !.coupled = <<TRUE, FALSE, TRUE>>],
    [Stereo EXCEPT !.snr = 3],
    [Multi EXCEPT !.dependent = TRUE],
    [Multi EXCEPT !.skip_fields = FALSE],
    [Stereo EXCEPT !.starts = TRUE] }

Baps(one, two) == [part \in 1 .. Lfe |-> IF part = 1 THEN one ELSE two]

Block ==
  [spx |-> "off", ecpl |-> FALSE, phase |-> FALSE, channels |-> Channel, coordinates |-> FALSE,
   leak |-> FALSE, snr |-> FALSE, baps |-> Baps(<<1>>, <<1, 4>>), breaks |-> Nothing, error |-> "short"]

Whole ==
  { [Block EXCEPT !.channels = channels, !.coordinates = bit, !.leak = ~bit, !.snr = bit] :
      channels \in SUBSET Channel, bit \in BOOLEAN }
  \cup { [Block EXCEPT !.baps = Baps(<<2, 2, 5>>, <<1, 1, 4>>)] }

Broken ==
  { [Block EXCEPT !.spx = "on"], [Block EXCEPT !.spx = "keep"], [Block EXCEPT !.ecpl = TRUE],
    [Block EXCEPT !.phase = TRUE], [Block EXCEPT !.breaks = "mantissas", !.error = "range"] }
  \cup { [Block EXCEPT !.breaks = stage, !.error = e, !.coordinates = (e = "short")] :
           stage \in {"strategy", "coordinates", "leak", "delta"}, e \in {"short", "fatal"} }
  \cup { [Block EXCEPT !.breaks = stage] : stage \in {"spx", "exponents", "snr"} }

SmallContents == Whole \cup Broken
=============================================================================
