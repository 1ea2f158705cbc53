--------------------------- MODULE TrueHdDecoder ---------------------------
(***************************************************************************)
(* One TrueHD access unit at a time goes through two machines that keep    *)
(* their own copy of the stream's state: the parser reads every substream  *)
(* first, then the decoder replays the headers it found and decodes.  An   *)
(* access unit that fails leaves each copy where it was stopped.           *)
(*                                                                         *)
(* Bits are abstracted to what the two copies must agree on: the size of a *)
(* block and the columns (channels and matrix channels) it carries.  What  *)
(* a block is rejected for is one of a few defects, told apart by how much *)
(* state has changed by then.                                              *)
(***************************************************************************)
EXTENDS Integers, Sequences, PresentationMap

CONSTANTS
  AccessUnits,      \* the access units a caller may push
  NoUnit,
  Nothing,          \* None
  Asked,            \* PRESENTATION_INDEX_ATMOS: 3
  DefaultBlock,     \* block_size after a restart: 8
  Capacity          \* rows of the sample buffers: 160

Substream == 0 .. MaxPresentations - 1

\* restart is the columns of a restart header, size the new block size of a block header.
Block ==
  [restart : (SUBSET Nat) \cup {Nothing}, size : Nat \cup {Nothing},
   defect : {"none", "header", "data", "saturates", "lossless"}]

Segment == [blocks : Seq(Block), checks : BOOLEAN, zero_samples : Nat \cup {Nothing}]

MajorSync ==
  [substreams : 1 .. MaxPresentations, info : SUBSET (0 .. 7), extended : 0 .. 3, samples : Nat]

\* broken: where the access unit is rejected outside its substreams, if it is.  The field of the
\* count also admits none and more substreams than there are presentations, for which there is no
\* substream state to index: streams of these are left out.
IsAccessUnit(au) ==
  /\ au = [sync |-> au.sync, segments |-> au.segments, broken |-> au.broken]
  /\ au.sync \in MajorSync \cup {Nothing}
  /\ \E n \in 1 .. MaxPresentations : au.segments \in [0 .. n - 1 -> Segment]
  /\ au.broken \in {"no", "sync", "directory", "extra", "too long", "oamd"}

ASSUME TrueHdAssumption ==
  /\ \A au \in AccessUnits : IsAccessUnit(au)
  /\ NoUnit \notin AccessUnits
  /\ Nothing \notin Nat \cup MajorSync
  /\ Asked = MaxPresentations - 1
  /\ DefaultBlock \in Nat \ {0} /\ Capacity \in Nat

VARIABLES
  (* ParserState *)
  strict,               \* fail_level is Warn
  has_parsed_au,
  p_substreams,         \* latched by the first major sync
  p_format,             \* substream_info and extended_substream_info
  p_mask,
  p_samples,            \* samples_per_au
  p_sub,                \* ParserSubstreamState
  (* DecoderState *)
  valid,
  d_substreams,
  d_format,
  d_mask,
  presentation,
  d_samples,
  zero_samples,
  d_sub,                \* DecoderSubstreamState
  (* the push in progress *)
  pc,
  unit,
  at,                   \* substream and block
  parsed,               \* for each substream the blocks read, with the state they were read under
  sample_len,           \* decoded_sample_len
  result,
  (* history, read by no action *)
  decoded,              \* substreams with a block decoded by this push
  unwritten,            \* this push queried a sample that read_into did not write
  committed,            \* p_format when an access unit was last parsed to its end
  sound                 \* every push since the last reset was well formed and succeeded

parser == <<strict, has_parsed_au, p_substreams, p_format, p_mask, p_samples, p_sub>>
decoder == <<valid, d_substreams, d_format, d_mask, presentation, d_samples, zero_samples, d_sub>>
output == <<decoded, unwritten>>
call == <<pc, unit, at, parsed, sample_len, result>>
vars == <<parser, decoder, call, output, committed, sound>>

\* A substream before its first restart header.
Unstarted == [size |-> DefaultBlock, columns |-> {0}]

\* ParserState::default() and DecoderState::default(), of Parser and Decoder.
InitParser ==
  /\ strict = FALSE
  /\ has_parsed_au = FALSE
  /\ p_substreams = Nothing
  /\ p_format = Nothing
  /\ p_mask = {}
  /\ p_samples = 0
  /\ p_sub = [i \in Substream |-> Unstarted]

InitDecoder ==
  /\ valid = FALSE
  /\ d_substreams = 0
  /\ d_format = Nothing
  /\ d_mask = {}
  /\ presentation = 0
  /\ d_samples = 0
  /\ zero_samples = 0
  /\ d_sub = [i \in Substream |-> Unstarted]

Init ==
  /\ InitParser
  /\ InitDecoder
  /\ pc = "idle"
  /\ unit = NoUnit
  /\ at = <<0, 1>>
  /\ parsed = [i \in Substream |-> << >>]
  /\ sample_len = 0
  /\ result = "none"
  /\ decoded = {}
  /\ unwritten = FALSE
  /\ committed = Nothing
  /\ sound = TRUE

-----------------------------------------------------------------------------
(***************************************************************************)
(* Parsing                                                                 *)
(***************************************************************************)

FormatOf(sync) == [info |-> sync.info, extended |-> sync.extended]

MasksOf(format) == Masks(format.info, format.extended)

\* The block and the segment the push has come to.
segment == unit.segments[at[1]]
block == segment.blocks[at[2]]

\* A restart header puts its substream into a state of its own.
Fault_RestartKeepsSize(sub, b) ==
  IF b.restart = Nothing THEN sub ELSE [sub EXCEPT !.columns = b.restart]

Restarted(sub, b) ==
  IF b.restart = Nothing
    THEN sub
    ELSE [size |-> DefaultBlock, columns |-> b.restart]

\* Restart header and block header together; both machines read them alike.
Headed(sub, b) ==
  [Restarted(sub, b) EXCEPT !.size = IF b.size = Nothing THEN @ ELSE b.size]

Return(outcome) ==
  /\ pc' = "idle"
  /\ unit' = NoUnit
  /\ at' = <<0, 1>>
  /\ parsed' = [i \in Substream |-> << >>]
  /\ sample_len' = 0
  /\ result' = outcome

\* An error leaves the parser's and the decoder's state as they are by then.
Fail(error) == Return(error) /\ sound' = FALSE

\* Every substream starts over, as the stream's encoder has it at a major sync.
RestartsAll(au) == \A i \in DOMAIN au.segments : au.segments[i].blocks[1].restart # Nothing

\* Outside these access units the encoder broke the format, whether or not the code notices.
WellFormed(au) ==
  /\ au.sync # Nothing => RestartsAll(au) /\ DOMAIN au.segments = 0 .. au.sync.substreams - 1
  /\ \A i \in DOMAIN au.segments : \A k \in DOMAIN au.segments[i].blocks :
       k > 1 => au.segments[i].blocks[k].restart = Nothing

BeginParse(au) ==
  /\ unit' = au
  /\ pc' = "parse"
  /\ sound' = (sound /\ WellFormed(au))
  /\ UNCHANGED <<at, parsed, sample_len, result>>

\* Nothing of the decoder is touched while the parser reads.
ParserOnly == UNCHANGED <<decoder, committed, strict>>

NewCall == decoded' = {} /\ unwritten' = FALSE

\* The directory has one entry for each substream the parser expects; its parity covers just those.
DirectoryFits(au, substreams) ==
  au.broken # "directory" /\ DOMAIN au.segments = 0 .. substreams - 1

\* An access unit without a major sync goes on with the state as it is.
PushContinuation(au) ==
  /\ pc = "idle" /\ au.sync = Nothing
  /\ NewCall
  /\ ParserOnly
  /\ UNCHANGED <<has_parsed_au, p_substreams, p_format, p_mask, p_samples, p_sub>>
  /\ IF has_parsed_au /\ DirectoryFits(au, p_substreams) THEN BeginParse(au) ELSE Fail("parse")

\* substream_info or extended_substream_info differ from those of the last major sync.
Fault_FormatChangeIgnored(sync) == FALSE

FormatChanges(sync) == has_parsed_au /\ p_format # FormatOf(sync)

\* The number of substreams is latched once; a change of their use makes the parser start over.
PushMajorSync(au) ==
  LET sync       == au.sync
      substreams == IF p_substreams = Nothing THEN sync.substreams ELSE p_substreams
  IN
  /\ pc = "idle" /\ sync # Nothing
  /\ NewCall
  /\ ParserOnly
  /\ p_samples' = sync.samples
  /\ p_substreams' = substreams
  /\ IF strict /\ substreams # sync.substreams
       THEN Fail("parse") /\ UNCHANGED <<has_parsed_au, p_format, p_mask>>
       ELSE /\ has_parsed_au' = (has_parsed_au /\ ~FormatChanges(sync))
            /\ IF strict /\ FormatChanges(sync)
                 THEN Fail("parse") /\ UNCHANGED <<p_format, p_mask>>
                 ELSE /\ p_format' = FormatOf(sync)
                      /\ p_mask' = RequiredMask(MasksOf(FormatOf(sync)), MaxPresentations - 1)
                      /\ IF au.broken # "sync" /\ DirectoryFits(au, substreams)
                           THEN BeginParse(au)
                           ELSE Fail("parse")
  /\ UNCHANGED p_sub

\* Substreams no presentation needs are skipped.
SkipSegment ==
  /\ pc = "parse" /\ at[1] \in DOMAIN unit.segments /\ at[1] \notin p_mask
  /\ at' = <<at[1] + 1, 1>>
  /\ UNCHANGED <<parser, decoder, pc, unit, parsed, sample_len, result, output, committed, sound>>

InSegment == pc = "parse" /\ at[1] \in DOMAIN unit.segments /\ at[1] \in p_mask

Oversized(b) == b.size # Nothing /\ b.size > p_samples

\* What reading a block leaves in the parser's copy of its substream.
ReadUnder(sub, b) ==
  CASE b.defect = "header" -> sub
    [] b.defect # "header" /\ Oversized(b) -> Restarted(sub, b)
    [] OTHER -> Headed(sub, b)

Readable(b) == b.defect \notin {"header", "data"} /\ ~Oversized(b)

\* Block::read_into.
ParseBlock ==
  /\ InSegment /\ at[2] \in DOMAIN segment.blocks
  /\ LET read == ReadUnder(p_sub[at[1]], block) IN
       /\ p_sub' = [p_sub EXCEPT ![at[1]] = read]
       /\ IF Readable(block)
            THEN /\ parsed' = [parsed EXCEPT ![at[1]] = Append(@, read)]
                 /\ at' = <<at[1], at[2] + 1>>
                 /\ UNCHANGED <<pc, unit, sample_len, result, sound>>
            ELSE Fail("parse")
  /\ ParserOnly
  /\ UNCHANGED <<has_parsed_au, p_substreams, p_format, p_mask, p_samples, output>>

\* Parity, CRC and length of a substream are checked when its blocks were read.
EndSegment ==
  /\ InSegment /\ at[2] \notin DOMAIN segment.blocks
  /\ IF segment.checks
       THEN at' = <<at[1] + 1, 1>> /\ UNCHANGED <<pc, unit, parsed, sample_len, result, sound>>
       ELSE Fail("parse")
  /\ UNCHANGED <<parser, decoder, output, committed>>

\* Extra data is read last; an overlong access unit is found only after it counts as parsed.
EndParse ==
  /\ pc = "parse" /\ at[1] \notin DOMAIN unit.segments
  /\ IF unit.broken = "extra"
       THEN UNCHANGED <<has_parsed_au, committed>>
       ELSE has_parsed_au' = TRUE /\ committed' = p_format
  /\ IF unit.broken \in {"extra", "too long"}
       THEN Fail("parse")
       ELSE pc' = "begin decode" /\ UNCHANGED <<unit, at, parsed, sample_len, result, sound>>
  /\ UNCHANGED <<strict, p_substreams, p_format, p_mask, p_samples, p_sub, decoder, output>>

-----------------------------------------------------------------------------
(***************************************************************************)
(* Decoding                                                                *)
(***************************************************************************)

\* A decoder that has decoded nothing yet, or is told of another number of substreams, chooses anew.
Trusted(sync) == valid /\ (sync = Nothing \/ sync.substreams = d_substreams)

\* AccessUnit::update_decoder_state and update_presentation.
BeginDecode ==
  LET sync  == unit.sync
      known == IF sync = Nothing THEN d_format ELSE FormatOf(sync)
  IN
  /\ pc = "begin decode"
  /\ valid' = Trusted(sync)
  /\ d_format' = known
  /\ d_substreams' = IF sync = Nothing THEN d_substreams ELSE sync.substreams
  /\ d_samples' = IF sync = Nothing THEN d_samples ELSE sync.samples
  /\ IF Trusted(sync) \/ known = Nothing
       THEN UNCHANGED <<d_mask, presentation>>
       ELSE /\ d_mask' = RequiredMask(MasksOf(known), Asked)
            /\ presentation' = Chosen(MasksOf(known), Asked)
  /\ IF ~Trusted(sync) /\ known = Nothing
       THEN Fail("no presentation map")
       ELSE pc' = "decode" /\ at' = <<0, 0>> /\ UNCHANGED <<unit, parsed, sample_len, result, sound>>
  /\ UNCHANGED <<parser, zero_samples, d_sub, output, committed>>

Wanted(i) == i <= presentation /\ i \in d_mask

SkipSubstream ==
  /\ pc = "decode" /\ at[2] = 0 /\ at[1] <= presentation /\ ~Wanted(at[1])
  /\ at' = <<at[1] + 1, 0>>
  /\ UNCHANGED <<parser, decoder, pc, unit, parsed, sample_len, result, output, committed, sound>>

\* The segment of a substream that the parser skipped is empty and has no terminator.
Terminated(i) == i = Asked /\ parsed[i] # << >> /\ unit.segments[i].zero_samples # Nothing

BeginSubstream ==
  /\ pc = "decode" /\ at[2] = 0 /\ Wanted(at[1])
  /\ zero_samples' = IF Terminated(at[1]) THEN segment.zero_samples ELSE zero_samples
  /\ IF at[1] = 3 /\ unit.broken = "oamd"
       THEN Fail("decode")
       ELSE at' = <<at[1], 1>> /\ sample_len' = 0 /\ UNCHANGED <<pc, unit, parsed, result, sound>>
  /\ UNCHANGED <<parser, valid, d_substreams, d_format, d_mask, presentation, d_samples, d_sub,
                 output, committed>>

\* The decoder's lossless check of what came before is an error only in strict mode.
Mismatched(b) ==
  b.defect = "lossless" /\ strict /\ valid /\ at[1] = presentation /\ b.restart # Nothing

\* Block::update_decoder_state: the decoder replays the headers on its own copy.
Fault_DecoderKeepsSize(sub, b) ==
  IF b.restart = Nothing THEN Headed(sub, b) ELSE [Headed(sub, b) EXCEPT !.size = sub.size]

Replayed(sub, b) == Headed(sub, b)

\* Rows and columns the decoder takes from a block, against what read_into wrote.
Unwritten(sub, read) == sub.size > read.size \/ ~(sub.columns \subseteq read.columns)

\* The rows from start on that slicing and indexing the sample buffers admits.
Fault_OnlyStartChecked(start, size) == start <= Capacity

Fits(start, size) == start + size <= Capacity

InBlocks == pc = "decode" /\ at[1] \in Substream /\ at[2] \in DOMAIN parsed[at[1]]

\* Block::update_decoder_state and decode.  A restart header also restarts the decoded length.  An
\* unwritten sample may be anything, so decoding it may also run into saturation.
DecodeBlock ==
  LET i     == at[1]
      sub   == Replayed(d_sub[i], block)
      start == IF block.restart = Nothing THEN sample_len ELSE 0
      holes == Unwritten(sub, parsed[i][at[2]])
  IN
  /\ InBlocks /\ ~Mismatched(block)
  /\ d_sub' = [d_sub EXCEPT ![i] = sub]
  /\ unwritten' = (unwritten \/ holes)
  /\ \/ /\ block.defect = "saturates" \/ ~Fits(start, sub.size) \/ holes
        /\ Fail("decode")
        /\ UNCHANGED decoded
     \/ /\ block.defect # "saturates" /\ Fits(start, sub.size)
        /\ sample_len' = start + sub.size
        /\ decoded' = decoded \cup {i}
        /\ at' = <<i, at[2] + 1>>
        /\ UNCHANGED <<pc, unit, parsed, result, sound>>
  /\ UNCHANGED <<parser, valid, d_substreams, d_format, d_mask, presentation, d_samples, zero_samples,
                 committed>>

FailLosslessCheck ==
  /\ InBlocks /\ Mismatched(block)
  /\ Fail("decode")
  /\ UNCHANGED <<parser, decoder, output, committed>>

EndSubstream ==
  /\ pc = "decode" /\ at[1] \in Substream /\ at[2] = Len(parsed[at[1]]) + 1
  /\ at' = <<at[1] + 1, 0>>
  /\ UNCHANGED <<parser, decoder, pc, unit, parsed, sample_len, result, output, committed, sound>>

EndDecode ==
  /\ pc = "decode" /\ at[2] = 0 /\ at[1] > presentation
  /\ valid' = TRUE
  /\ pc' = "deliver"
  /\ UNCHANGED <<parser, d_substreams, d_format, d_mask, presentation, d_samples, zero_samples, d_sub,
                 unit, at, parsed, sample_len, result, output, committed, sound>>

\* decoded_access_unit: samples_per_au - zero_samples, outside catch_unwind.
Deliver ==
  /\ pc = "deliver"
  /\ IF zero_samples > d_samples
       THEN pc' = "panicked" /\ UNCHANGED <<unit, at, parsed, sample_len, result>>
       ELSE Return("frame")
  /\ UNCHANGED <<parser, decoder, output, committed, sound>>

-----------------------------------------------------------------------------

SetFailLevel ==
  /\ pc = "idle"
  /\ strict' \in BOOLEAN
  /\ UNCHANGED <<has_parsed_au, p_substreams, p_format, p_mask, p_samples, p_sub, decoder,
                 call, output, committed, sound>>

\* *self = Self::default(); the fail level goes back to its default, too.
Reset ==
  /\ pc \in {"idle", "panicked"}
  /\ strict' = FALSE
  /\ has_parsed_au' = FALSE
  /\ p_substreams' = Nothing
  /\ p_format' = Nothing
  /\ p_mask' = {}
  /\ p_samples' = 0
  /\ p_sub' = [i \in Substream |-> Unstarted]
  /\ valid' = FALSE
  /\ d_substreams' = 0
  /\ d_format' = Nothing
  /\ d_mask' = {}
  /\ presentation' = 0
  /\ d_samples' = 0
  /\ zero_samples' = 0
  /\ d_sub' = [i \in Substream |-> Unstarted]
  /\ Return("none")
  /\ NewCall
  /\ committed' = Nothing
  /\ sound' = TRUE

Next ==
  \/ \E au \in AccessUnits : PushContinuation(au) \/ PushMajorSync(au)
  \/ SkipSegment \/ ParseBlock \/ EndSegment \/ EndParse
  \/ BeginDecode
  \/ SkipSubstream \/ BeginSubstream \/ DecodeBlock \/ FailLosslessCheck \/ EndSubstream
  \/ EndDecode \/ Deliver
  \/ SetFailLevel
  \/ Reset

Spec == Init /\ [][Next]_vars

-----------------------------------------------------------------------------
(***************************************************************************)
(* Properties                                                              *)
(***************************************************************************)

Format == [info : SUBSET (0 .. 7), extended : 0 .. 3]

SubstreamState == [size : Nat, columns : SUBSET Nat]

\* Every variable has the values the code can give it.
TypeOK ==
  /\ strict \in BOOLEAN /\ has_parsed_au \in BOOLEAN /\ valid \in BOOLEAN
  /\ unwritten \in BOOLEAN /\ sound \in BOOLEAN
  /\ p_substreams \in (1 .. MaxPresentations) \cup {Nothing}
  /\ d_substreams \in 0 .. MaxPresentations
  /\ {p_format, d_format, committed} \subseteq Format \cup {Nothing}
  /\ p_mask \subseteq Substream /\ d_mask \subseteq Substream
  /\ presentation \in Presentation
  /\ p_samples \in Nat /\ d_samples \in Nat /\ zero_samples \in Nat
  /\ p_sub \in [Substream -> SubstreamState] /\ d_sub \in [Substream -> SubstreamState]
  /\ pc \in {"idle", "parse", "begin decode", "decode", "deliver", "panicked"}
  /\ unit \in AccessUnits \cup {NoUnit}
  /\ pc \in {"parse", "begin decode", "decode", "deliver"} => unit \in AccessUnits
  /\ at \in (0 .. MaxPresentations) \X Nat
  /\ parsed \in [Substream -> Seq(SubstreamState)]
  /\ sample_len \in 0 .. Capacity /\ decoded \subseteq Substream
  /\ result \in {"none", "frame", "parse", "decode", "no presentation map"}

\* Between calls the parser's and the decoder's copies of the stream's state agree on every substream
\* that is decoded, block headers that span access units included, as long as no push failed.
CopiesAgree ==
  sound /\ valid /\ pc = "idle" =>
    /\ d_format = p_format /\ d_samples = p_samples
    /\ \A i \in Substream : Wanted(i) => d_sub[i] = p_sub[i]

\* Decoding never queries a sample that read_into left unwritten, while no push failed; and whatever
\* failed before, an access unit with a restart header in every substream is read soundly again.
RestartHeals ==
  unwritten /\ pc \in {"decode", "deliver"} => ~sound /\ ~RestartsAll(unit)

\* The presentation that is decoded has its own substream in the mask: output_buffer is written by
\* that substream alone, so whichever fallback was chosen, one that lacks it would deliver old rows.
PresentationDecoded == pc \in {"decode", "deliver"} => presentation \in d_mask

\* An access unit without a major sync is only read under the substream use of one that was read to
\* its end: a change announced by a major sync that failed makes the parser wait for the next one.
FormatCommitted == pc = "parse" /\ unit.sync = Nothing => p_format = committed

(***************************************************************************)
(* Claims of the code's comments that the code does not keep: they fail,   *)
(* the second even with the access units SoundObjectUnits of               *)
(* MCTrueHdDecoder.                                                        *)
(***************************************************************************)

\* "read_into writes every (sample_index, channel_index) that decode will query".  It does not once a
\* failed access unit has left the parser and the decoder with different block sizes.
QueriedSamplesWritten == ~unwritten

\* "how many samples in the pcm_data array contain valid audio data": the substreams that make up
\* the presentation were all decoded.  After a change of substream_info they are not: the decoder
\* keeps the mask it chose at its first access unit.
ValidSamplesDecoded ==
  sound /\ pc = "deliver" => MasksOf(d_format)[presentation] \subseteq decoded
=============================================================================
