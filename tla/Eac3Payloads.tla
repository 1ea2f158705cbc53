---------------------------- MODULE Eac3Payloads ----------------------------
(***************************************************************************)
(* How the payloads of E-AC-3 metadata are read: object audio metadata     *)
(* (OAMD, payload 11) and joint object coding (JOC, payload 14).  Reading  *)
(* keeps no state.  A field is the choice its bits make; bits are counted  *)
(* only where running out of them matters.                                 *)
(***************************************************************************)
EXTENDS Integers, Sequences, SequencesExt, FiniteSetsExt

----------------------------------------------------------------------------
(***************************************************************************)
(* Object audio metadata.                                                  *)
(***************************************************************************)

ISF_OBJECT_COUNT == <<4, 8, 10, 14, 15, 30>>
SAMPLE_OFFSET_INDEX == <<8, 16, 18, 24>>
RAMP_DURATIONS == <<0, 512, 1536>>
RAMP_DURATION_INDEX == <<32, 64, 128, 256, 320, 480, 1000, 1001, 1024, 1600, 1601, 1602, 1920, 2000, 2002, 2048>>

\* The beds of the program, one sequence of channels for each instance; the low-frequency
\* channel alone where there are only dynamic objects.
ProgramAssignment(program) ==
  IF program.dynamic_only
  THEN IF program.lfe THEN << <<"LFE">> >> ELSE << >>
  ELSE program.beds

IsfObjects(program) ==
  IF program.dynamic_only \/ program.isf = 0 THEN 0 ELSE ISF_OBJECT_COUNT[program.isf]

BedOrIsfObjects(program) ==
  FoldLeft(LAMBDA n, bed : n + Len(bed), IsfObjects(program), ProgramAssignment(program))

\* code, and the field that follows it.
SampleOffset(code, field) ==
  CASE code = 0 -> 0
    [] code = 1 -> SAMPLE_OFFSET_INDEX[field + 1]
    [] code = 2 -> field

RampDuration(code, indexed, field) ==
  IF code < 3 THEN RAMP_DURATIONS[code + 1]
  ELSE IF indexed THEN RAMP_DURATION_INDEX[field + 1]
  ELSE field

\* The steps of a gain go by one decibel; the step to 0 dB is code 0.
GainDecibels(step) == IF step < 15 THEN 15 - step ELSE 14 - step

\* A group of a variable-length number was followed by a one.
Continued(value, width) == (value + 1) * 2^width

\* A variable-length number in groups of bits, each but the last followed by a one.  A one behind
\* the last group the limit allows adds no group, but counts as one that says nothing.
VariableBits(groups, width, limit) ==
  LET Number(all) == FoldLeft(LAMBDA value, group : Continued(value, width) + group, Head(all), Tail(all))
  IN  IF Len(groups) <= limit + 1 THEN Number(groups)
      ELSE Continued(Number(SubSeq(groups, 1, limit + 1)), width)

\* What a status says was sent: everything, what the mask lists, or nothing.
Sent(status, mask, all) ==
  IF status = 1 THEN all ELSE IF status % 2 = 1 THEN mask ELSE {}

Basic == {"priority", "gain"}
Render == {"position", "zone", "size", "screen"}

Differential(raw, block) == block # 1 /\ raw.delta

\* One block of one object; the first block of a payload says everything.
ParseObjectBlock(raw, block, bed, nothing) ==
  LET basic_status == IF raw.inactive THEN 0 ELSE IF block = 1 THEN 1 ELSE raw.basic_status
      render_status == IF raw.inactive \/ bed THEN 0 ELSE IF block = 1 THEN 1 ELSE raw.render_status
      basic == Sent(basic_status, raw.basic, Basic)
      render == Sent(render_status, raw.render, Render)
  IN  [render_sent |-> render_status % 2 = 1,
       gain |-> IF "gain" \in basic THEN raw.gain ELSE nothing,
       position |-> IF "position" \in render
                    THEN [at |-> raw.at, differential |-> Differential(raw, block)] ELSE nothing,
       size |-> IF "size" \in render THEN raw.size ELSE nothing,
       screen |-> "screen" \in render /\ raw.screen]

\* An element that takes more than its length spoils the payload; one that takes less is padded.
ElementParses(e) == (e.index = 1 => e.offset_code # 3) /\ e.taken <= 8 * e.length

OamdParses(p) ==
  /\ p.version = 0
  /\ p.program.isf \in 0 .. Len(ISF_OBJECT_COUNT)
  /\ \A e \in ToSet(p.elements) : ElementParses(e)

----------------------------------------------------------------------------
(***************************************************************************)
(* Joint object coding: the headers of all objects, then the data of the   *)
(* active ones.                                                            *)
(***************************************************************************)

JOC_NUM_BANDS == <<1, 3, 5, 7, 9, 12, 15, 23>>

ChannelCount(downmix_config) == IF downmix_config \in {0, 3} THEN 5 ELSE 7

HeaderBits(o) ==
  IF ~o.active THEN 1 ELSE 8 + (IF o.steep_slope THEN 5 * o.data_points ELSE 0)

\* Huffman codes take at least one bit each; the first channel of a sparse object takes three.
DataBits(o, channels) ==
  LET bands == JOC_NUM_BANDS[o.bands_index + 1]
  IN  IF ~o.active THEN 0
      ELSE o.data_points * (IF o.sparse_coded THEN 3 + (bands - 1) + bands ELSE channels * bands)

Inactive == [active |-> FALSE]

BitsOfAll(objects, Bits(_)) == FoldLeft(LAMBDA n, o : n + Bits(o), 0, objects)

Headers(objects) == BitsOfAll(objects, HeaderBits)

\* The objects whose header starts before the payload ends.
Started(objects, bits) ==
  {i \in DOMAIN objects : Headers(SubSeq(objects, 1, i - 1)) < bits}

Fault_LenientTail(objects, channels, bits) == TRUE

\* A header or data that runs out of bits is an error.
DataFits(objects, channels, bits) ==
  LET taken(o) == HeaderBits(o) + DataBits(o, channels)
  IN  BitsOfAll(objects, taken) <= bits

\* The objects read from a payload of that many bits: objects not even started at its end are
\* inactive ones.  The empty sequence stands for an error.
ParseJoc(objects, channels, bits) ==
  LET n == Cardinality(Started(objects, bits))
      read == SubSeq(objects, 1, n)
  IN  IF DataFits(read, channels, bits)
      THEN read \o [i \in 1 .. Len(objects) - n |-> Inactive]
      ELSE << >>

----------------------------------------------------------------------------
(***************************************************************************)
(* What holds of them, checked over the values their fields can have.      *)
(***************************************************************************)

\* Block offsets and ramps fit the 16-bit integers they are kept in.
TimesFit ==
  /\ \A code \in 0 .. 2, field \in 0 .. 31, factor \in 0 .. 63 :
       (code = 1 => field < 4) => SampleOffset(code, field) + factor \in 0 .. 94
  /\ \A code \in 0 .. 2 : RampDuration(code, FALSE, 0) \in 0 .. 2048
  /\ \A field \in 0 .. 15 : RampDuration(3, TRUE, field) \in 0 .. 2048

\* Two gain steps never mean the same gain, and none of them the one code 0 stands for.
GainStepsDistinct ==
  /\ \A s, t \in 0 .. 63 : GainDecibels(s) = GainDecibels(t) => s = t
  /\ \A s \in 0 .. 63 : GainDecibels(s) # 0

\* Two numbers of few groups are never the same: a length has one encoding.
VariableBitsUnique ==
  LET numbers == UNION {[1 .. n -> 0 .. 3] : n \in 1 .. 3}
  IN  \A g, h \in numbers : VariableBits(g, 2, 4) = VariableBits(h, 2, 4) => g = h

\* "Keep hard errors for partial object headers/data": a payload whose tail is missing is read only
\* if nothing that was read before it has data.
OmittedTailIsSilent ==
  LET object == [active : BOOLEAN, bands_index : {0, 1}, sparse_coded : BOOLEAN,
                 steep_slope : {FALSE}, data_points : {1}]
  IN  \A objects \in [1 .. 3 -> object], bits \in 0 .. 30 :
        LET parsed == ParseJoc(objects, 5, bits)
        IN  parsed # << >> /\ Headers(objects) > bits => \A i \in 1 .. 3 : ~parsed[i].active
=============================================================================
