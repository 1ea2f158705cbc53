---------------------------- MODULE CommandLine ----------------------------
(***************************************************************************)
(* The command-line program: it splits its input into access units,        *)
(* decodes each, renders it if asked to, and hands it to every output that *)
(* was asked for, one after the other.  The first error anywhere ends the  *)
(* program; a WAV file gets its header only at the end.                    *)
(*                                                                         *)
(* The decoders and the renderer have modules of their own: here an access *)
(* unit decodes to some samples in some format, or to nothing, or fails,   *)
(* and the renderer keeps what is short of a block until it is flushed.    *)
(* Lengths are in units of the splitter's alignment.  What is printed is   *)
(* left out, and so is the environment variable that turns the limiter off.*)
(*                                                                         *)
(* A definition named Fault_... is a plausible slip in the definition that *)
(* follows it; it serves to show that the properties tell the difference.  *)
(***************************************************************************)
EXTENDS Integers, Sequences

CONSTANTS
  Runs,         \* command lines: mode, requested, check, limit
  Size,         \* bytes of input, or files of a frame directory
  Claims,       \* lengths an access unit may claim
  Sync,         \* where a major sync may be: an offset, or None
  MinLength,    \* the shortest TrueHD access unit: 8 bytes
  Samples,      \* what an access unit of a mode may decode to: E-AC-3 only whole blocks
  Formats,      \* sample rate and shape (channels, objects) of what it decodes to
  Block,        \* RENDER_TIMESLOT_SAMPLES, what the limiter emits
  MaxWav,       \* u32::MAX: samples a WAV header can tell
  None          \* Option::None

\* In the order in which a frame reaches them.
Place == [core |-> 1, objects |-> 2, joc |-> 3, wav |-> 4, csv |-> 5, frame |-> 6, aux |-> 7]

Sinks == DOMAIN Place

Checks == {"none", "core", "objects", "render"}

ASSUME CommandLineAssumption ==
  /\ {Size, MinLength, Block, MaxWav} \subseteq Nat \ {0}
  /\ Claims \subseteq Nat
  /\ \A run \in Runs : /\ run.mode \in {"eac3", "truehd", "dir"}
                       /\ run.requested \subseteq Sinks
                       /\ run.check \in Checks
                       /\ run.limit \in Nat \cup {None}
  /\ \A mode \in {"eac3", "truehd", "dir"} : Samples[mode] \subseteq Nat
  /\ \A mode \in {"eac3", "dir"} : \A samples \in Samples[mode] : samples % Block = 0
  /\ \A kind \in Formats : kind.rate # None

VARIABLES
  run,          \* RunOptions
  claim, sync,  \* the input: length claimed at each offset, first major sync
  offset,       \* of the iterator
  synced,       \* RawTrueHdAccessUnitIter::synced
  at,           \* what comes next: "start", "split", "decode", a sink, "count", ...
  exit,         \* ExitCode, or "running"
  unit,         \* the access unit in hand, decoded and rendered
  frames,       \* frames
  pending,      \* samples the renderer holds back
  rendered,     \* rendered_output_samples
  rate,         \* the renderer's sample rate
  format,       \* what each sink latched from its first frame
  written,      \* samples in each sink
  rows,         \* sample offsets in the positions CSV
  header,       \* data size in the WAV header
  total,        \* history: samples of all frames so far
  lengths       \* history: those of a frame

input == <<run, claim, sync>>
outputs == <<format, written, rows, header>>
history == <<total, lengths>>
vars == <<input, offset, synced, at, exit, unit, frames, pending, rendered, rate, outputs, history>>

Fail == exit' = "failure" /\ at' = "end"

-----------------------------------------------------------------------------
(* Options *)

\* A frame directory takes no notice of the positions CSV.
Offered(mode) ==
  CASE mode = "eac3" -> Sinks
    [] mode = "truehd" -> {"objects", "wav", "csv"}
    [] mode = "dir" -> {"core", "objects", "joc", "wav", "aux"}

\* validate_truehd_options, and the check of main for a frame directory
Refused ==
  \/ run.mode = "truehd" /\ (run.check = "core" \/ run.requested \cap {"frame", "aux", "core", "joc"} # {})
  \/ run.mode = "dir" /\ "frame" \in run.requested

Active == run.requested \cap Offered(run.mode)

\* use_render_714
Renders == run.check = "render" \/ Active \cap {"wav", "csv"} # {}

\* The sink after those up to a place.
Following(place) ==
  LET left == {sink \in Active : Place[sink] > place}
  IN  IF left = {} THEN "count" ELSE CHOOSE sink \in left : \A other \in left : Place[sink] <= Place[other]

-----------------------------------------------------------------------------

Init ==
  /\ run \in Runs
  /\ claim \in [0 .. Size - 1 -> Claims]
  /\ sync \in IF run.mode = "truehd" THEN Sync ELSE {None}
  /\ offset = 0 /\ synced = FALSE
  /\ at = "start" /\ exit = "running"
  /\ unit = None
  /\ frames = 0 /\ pending = 0 /\ rendered = 0 /\ rate = None
  /\ format = [sink \in Sinks |-> None]
  /\ written = [sink \in Sinks |-> 0]
  /\ rows = <<>> /\ header = None
  /\ total = 0 /\ lengths = {}

\* The options are refused, or a file cannot be made or read, or all is well.
Start ==
  /\ at = "start"
  /\ \/ Fail
     \/ ~Refused /\ at' = "split" /\ UNCHANGED exit
  /\ UNCHANGED <<input, offset, synced, unit, frames, pending, rendered, rate, outputs, history>>

-----------------------------------------------------------------------------
(* Splitting *)

\* find_initial_access_unit_start: the sync is in the access unit's second word.
First == IF synced THEN offset ELSE sync

TrueHdLength(start) ==
  IF claim[start] < MinLength \/ start + claim[start] > Size THEN None ELSE claim[start]

Eac3Length(start) == IF claim[start] = 0 \/ start + claim[start] > Size THEN None ELSE claim[start]

Fault_NoMinimum(start) ==
  CASE start = None -> None
    [] run.mode = "dir" -> 1
    [] run.mode = "eac3" -> Eac3Length(start)
    [] OTHER -> IF start + claim[start] > Size THEN None ELSE claim[start]

\* The length of the access unit, or None if it is not one or is cut off.
Length(start) ==
  CASE start = None -> None
    [] run.mode = "dir" -> 1
    [] run.mode = "eac3" -> Eac3Length(start)
    [] OTHER -> TrueHdLength(start)

Split ==
  LET start == IF run.mode = "truehd" THEN First ELSE offset
  IN  /\ at = "split"
      /\ offset < Size
      /\ \/ /\ Length(start) # None
            /\ offset' = start + Length(start)
            /\ synced' = TRUE
            /\ at' = "decode" /\ UNCHANGED exit
         \/ /\ run.mode = "dir" \/ Length(start) = None
            /\ offset' = Size
            /\ Fail /\ UNCHANGED synced
      /\ UNCHANGED <<input, unit, frames, pending, rendered, rate, outputs, history>>

\* No input left.
Exhausted ==
  /\ at = "split"
  /\ offset >= Size
  /\ at' = "flush"
  /\ UNCHANGED <<input, offset, synced, exit, unit, frames, pending, rendered, rate, outputs, history>>

-----------------------------------------------------------------------------
(* Decoding and rendering *)

\* What the renderer emits of what it has: whole blocks.
Whole(samples) == samples - (samples % Block)

\* A frame was decoded, and the renderer accepts it.
Decode ==
  \E samples \in Samples[run.mode], kind \in Formats :
    LET held == pending + samples
    IN  /\ at = "decode"
        /\ Renders => rate \in {None, kind.rate}
        /\ rate' = IF Renders THEN kind.rate ELSE rate
        /\ pending' = IF Renders THEN held - Whole(held) ELSE 0
        /\ unit' = [samples |-> samples, format |-> kind, emitted |-> IF Renders THEN Whole(held) ELSE 0]
        /\ total' = total + samples
        /\ lengths' = lengths \cup {samples}
        /\ at' = Following(0)
        /\ UNCHANGED <<input, offset, synced, exit, frames, rendered, outputs>>

\* TrueHD has access units that yield no frame.
DecodeNothing ==
  /\ at = "decode"
  /\ run.mode = "truehd"
  /\ at' = "split"
  /\ UNCHANGED <<input, offset, synced, exit, unit, frames, pending, rendered, rate, outputs, history>>

\* An error of the decoder or of the renderer; E-AC-3 without object coding.
DecodeFails ==
  /\ at = "decode"
  /\ Fail
  /\ UNCHANGED <<input, offset, synced, unit, frames, pending, rendered, rate, outputs, history>>

-----------------------------------------------------------------------------
(* Writing *)

\* What a sink holds every later frame to.
Latch(sink) ==
  CASE sink = "wav" -> unit.format.rate
    [] sink \in {"core", "objects"} -> unit.format
    [] sink = "joc" -> <<unit.format, unit.samples>>
    [] OTHER -> None

\* A frame without aux data to write counts as written.
Amount(sink) == IF sink \in {"wav", "csv"} THEN unit.emitted ELSE unit.samples

\* Where the rows of this frame begin; only TrueHD counts what was rendered.
RowsFrom == IF run.mode = "truehd" THEN rendered ELSE frames * unit.samples

RowsOf(from, samples) ==
  [i \in 1 .. (samples + Block - 1) \div Block |-> from + (i - 1) * Block]

Write ==
  /\ at \in Active
  /\ format[at] \in {None, Latch(at)}
  /\ format' = [format EXCEPT ![at] = Latch(at)]
  /\ written' = [written EXCEPT ![at] = @ + Amount(at)]
  /\ rows' = IF at = "csv" THEN rows \o RowsOf(RowsFrom, unit.emitted) ELSE rows
  /\ at' = Following(Place[at])
  /\ UNCHANGED <<input, offset, synced, exit, unit, frames, pending, rendered, rate, header, history>>

\* The format changed, or the disk is full.
WriteFails ==
  /\ at \in Active
  /\ Fail
  /\ UNCHANGED <<input, offset, synced, unit, frames, pending, rendered, rate, outputs, history>>

\* The frame is done; the limit is looked at only now.
Count ==
  /\ at = "count"
  /\ frames' = frames + 1
  /\ rendered' = rendered + unit.emitted
  /\ at' = IF run.limit # None /\ frames + 1 >= run.limit THEN "flush" ELSE "split"
  /\ unit' = None
  /\ UNCHANGED <<input, offset, synced, exit, pending, rate, outputs, history>>

-----------------------------------------------------------------------------
(* The end *)

Fault_NeverFlushed ==
  /\ at = "flush"
  /\ at' = "finalize"
  /\ UNCHANGED <<input, offset, synced, exit, unit, frames, pending, rendered, rate, outputs, history>>

\* The last short block; the frames of E-AC-3 leave none.
Flush ==
  LET short == IF run.mode = "truehd" /\ Renders THEN pending ELSE 0
  IN  /\ at = "flush"
      /\ pending' = pending - short
      /\ rendered' = rendered + short
      /\ written' = [sink \in Sinks |->
                       written[sink] + IF sink \in Active \cap {"wav", "csv"} THEN short ELSE 0]
      /\ rows' = IF "csv" \in Active THEN rows \o RowsOf(rendered, short) ELSE rows
      /\ at' = "finalize"
      /\ UNCHANGED <<input, offset, synced, exit, unit, frames, rate, format, header, history>>

\* The WAV header, unless there was no frame or there are too many.
Finalize ==
  /\ at = "finalize"
  /\ "wav" \in Active => written["wav"] <= MaxWav
  /\ header' = IF format["wav"] = None THEN None ELSE written["wav"]
  /\ exit' = "success"
  /\ at' = "end"
  /\ UNCHANGED <<input, offset, synced, unit, frames, pending, rendered, rate, format, written, rows, history>>

\* A write fails, or the data is too long for the header.
EndFails ==
  /\ \/ at = "flush" /\ run.mode = "truehd" /\ pending > 0 /\ Active \cap {"wav", "csv"} # {}
     \/ at = "finalize" /\ format["wav"] # None
  /\ Fail
  /\ UNCHANGED <<input, offset, synced, unit, frames, pending, rendered, rate, outputs, history>>

Next ==
  \/ Start \/ Split \/ Exhausted
  \/ Decode \/ DecodeNothing \/ DecodeFails
  \/ Write \/ WriteFails \/ Count
  \/ Flush \/ Finalize \/ EndFails

\* One thread, which nothing else makes wait.
Spec == Init /\ [][Next]_vars /\ WF_vars(Next)

-----------------------------------------------------------------------------
(* Correctness *)

\* When the program says it succeeded, every file that was asked for, of those
\* that the mode offers (see Offered), holds every frame: nothing is left in the renderer, the WAV header tells what the file
\* holds, and the rows of the positions lie one block after the other, where
\* the audio is (for E-AC-3 only if all frames are of one length: the offset is
\* reckoned from the length of the frame in hand).
SuccessIsComplete ==
  exit = "success" =>
    /\ \A sink \in Active : written[sink] = total
    /\ "wav" \in Active => header = (IF lengths = {} THEN None ELSE total)
    /\ "csv" \in Active /\ (run.mode = "truehd" \/ \A one, other \in lengths : one = other) =>
         rows = RowsOf(0, total)

\* Whatever lengths the input claims, the program ends: every turn of the loop
\* takes the splitter forward.  A length of zero taken for an access unit would
\* keep it where it is for ever.
Terminates == <>(exit # "running")

=============================================================================
